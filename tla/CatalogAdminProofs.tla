------------------------- MODULE CatalogAdminProofs -------------------------
(***************************************************************************)
(* Theorems about CatalogAdmin, for any number of requests, keys, rows and *)
(* bodies.  Requests overlap between any two of their statements; what the *)
(* answers promise rests on three facts.  A row is never unmade: its       *)
(* version only grows, and its body changes with its version.  An audit    *)
(* row stays.  And a success is told from the one record of its key,       *)
(* whichever request saved it.                                             *)
(***************************************************************************)
EXTENDS CatalogAdmin, TLAPS

(* The states of a request.                                                *)
Running == [at: {"running"}, pc: Nat, call: Calls, response: Response]
Done == [at: {"done"}, answer: {"OK"}, call: Calls, response: Response]
TurnedAway == [at: {"refused"}, answer: Codes \ {"OK"}]
RequestStates == {Idle} \union Running \union Done \union TurnedAway

StepOf(c) == Plan[c.call.kind][c.call.op][c.pc]
RowOps == {"update", "delete", "adjust"}       \* they look at a row first

(* T is the items' table, A the audit, now or after a step.                *)
Made(response, version, T) ==
    /\ response.id \in Items
    /\ version \in Nat \ {0}
    /\ response.version = version + 1
    /\ T[response.id].version >= response.version
    /\ T[response.id].version = response.version => T[response.id].body = response.body

AuditOf(x) == [key |-> x.scope[3], id |-> x.hash[1], delta |-> x.hash[3],
               before |-> x.response.before, after |-> x.response.after]
Backed(x, T, A) ==
    /\ x.scope[2] = "update" => Made(x.response, x.hash[2], T)
    /\ x.scope[2] = "adjust" => AuditOf(x) \in A

(* What a request has behind it that has come this far.                    *)
Prepared(c, T, A) ==
    /\ c.pc \in 2..Len(Plan[c.call.kind][c.call.op])
    /\ c.call.op \in RowOps /\ c.pc > 2 => T[c.call.id].state # "none"
    /\ c.call.op = "adjust" /\ c.pc > 2 => c.response.after = c.response.before + c.call.delta
    /\ c.call.op = "adjust" /\ StepOf(c) = "save" => AuditRow(c.call, c.response) \in A
    /\ c.call.op = "update" /\ StepOf(c) = "save" => Made(c.response, c.call.version, T)

TablesOK ==
    /\ item \in [Items -> Row]
    /\ images \in [Products -> SUBSET Contents]
    /\ stock \in [Products -> StockRow]
    /\ \A x \in audit : x.id \in Products /\ x.key \in Keys /\ x.after = x.before + x.delta
    /\ \A x \in records : x.response \in Response
    /\ \A p \in Products : item[p].state = "none" => stock[p].reserved = 0
    /\ \A x, y \in records : x.scope = y.scope => x = y
    /\ \A x \in records : Backed(x, item, audit)

Told(c) == \E x \in records : x.scope = Scope(c.call) /\ x.hash = Hash(c.call) /\ x.response = c.response

RequestsOK ==
    /\ req \in [Requests -> RequestStates]
    /\ \A r \in Requests : req[r].at = "running" => Prepared(req[r], item, audit)
    /\ \A r \in Requests : req[r].at = "done" => Told(req[r])

CatalogInv == TablesOK /\ RequestsOK

-----------------------------------------------------------------------------
(* The calls, and what each says.                                          *)
CallOK(q) ==
    /\ q.key \in Keys /\ q.version \in Nat /\ q.delta \in Int /\ q.body \in Body \union {NoBody}
    /\ \/ q.op = "create" /\ q.kind \in {"category", "product", "banner"} /\ q.body \in Body
       \/ q.op \in {"update", "delete"} /\ q.kind = "category" /\ q.id \in Categories
       \/ q.op \in {"update", "delete"} /\ q.kind = "product" /\ q.id \in Products
       \/ q.op \in {"update", "delete"} /\ q.kind = "banner" /\ q.id \in Banners
       \/ q.op = "adjust" /\ q.kind = "stock" /\ q.id \in Products
       \/ q.op = "upload" /\ q.kind = "media"
    /\ q.op = "update" => q.version \in 1..2 /\ q.body \in Body

LEMMA CallTypes ==
    ASSUME NEW q \in Calls
    PROVE  CallOK(q)
<1> USE DEF Call, BodiesFor
<1>1. CASE q \in CategoryCalls
  BY <1>1 DEF CategoryCalls, CallOK
<1>2. CASE q \in ProductCalls
  BY <1>2 DEF ProductCalls, CallOK
<1>3. CASE q \in BannerCalls
  BY <1>3 DEF BannerCalls, CallOK
<1>4. CASE q \in StockCalls
  BY <1>4, StockAssumption DEF StockCalls, CallOK
<1>5. CASE q \in UploadCalls
  BY <1>5 DEF UploadCalls, CallOK
<1> QED BY <1>1, <1>2, <1>3, <1>4, <1>5 DEF Calls

(* The order of the statements, for each call.                             *)
PlanOf(q) == Plan[q.kind][q.op]

LEMMA Plans ==
    ASSUME NEW q, CallOK(q)
    PROVE  /\ q.op = "create" => PlanOf(q) = <<"find", "write", "save">>
           /\ q.op \in {"update", "delete"} =>
                  \/ PlanOf(q) = <<"find", "look", "write", "save">>
                  \/ q.op = "update" /\ q.kind = "product" /\ PlanOf(q) = <<"find", "look", "clear", "write", "save">>
           /\ q.op = "adjust" => PlanOf(q) = <<"find", "look", "write", "audit", "save">>
           /\ q.op = "upload" => PlanOf(q) = <<"find", "presign", "save">>
<1> USE DEF PlanOf, Plan, adminCreateCategory, adminUpdateCategory, adminDeleteCategory,
            adminCreateProduct, adminUpdateProduct, adminDeleteProduct,
            adminCreateBanner, adminUpdateBanner, adminDeleteBanner,
            adminCreateStockAdjustment, createUploadUrl
<1>1. CASE q.op = "create"
  BY <1>1 DEF CallOK
<1>2. CASE q.op \in {"update", "delete"}
  BY <1>2 DEF CallOK
<1>3. CASE q.op = "adjust"
  BY <1>3 DEF CallOK
<1>4. CASE q.op = "upload"
  BY <1>4 DEF CallOK
<1> QED BY <1>1, <1>2, <1>3, <1>4

LEMMA PlanLengths ==
    ASSUME NEW q, CallOK(q)
    PROVE  Len(PlanOf(q)) \in 3..5
<1>1. \/ PlanOf(q) = <<"find", "write", "save">>
      \/ PlanOf(q) = <<"find", "look", "write", "save">>
      \/ PlanOf(q) = <<"find", "look", "clear", "write", "save">>
      \/ PlanOf(q) = <<"find", "look", "write", "audit", "save">>
      \/ PlanOf(q) = <<"find", "presign", "save">>
  BY Plans DEF CallOK
<1> QED BY <1>1

(* Where a statement stands in a plan: the lookup of the row comes second, *)
(* writes follow it, and the record is last.                               *)
LEMMA StepsInOrder ==
    ASSUME NEW q, CallOK(q), NEW n \in 2..Len(PlanOf(q))
    PROVE  /\ n < Len(PlanOf(q)) <=> PlanOf(q)[n] # "save"
           /\ PlanOf(q)[n] = "look" => n = 2 /\ PlanOf(q)[3] # "save" /\ q.op \in RowOps
           /\ PlanOf(q)[n] = "clear" => q.op = "update" /\ q.kind = "product" /\ n = 3 /\ PlanOf(q)[4] # "save"
           /\ PlanOf(q)[n] = "write" => q.op \in RowOps \union {"create"} /\ (q.op \in RowOps => n > 2)
           /\ PlanOf(q)[n] = "write" /\ q.op = "adjust" => PlanOf(q)[n + 1] # "save"
           /\ PlanOf(q)[n] = "audit" => q.op = "adjust" /\ n > 2
           /\ PlanOf(q)[n] = "presign" => q.op = "upload"
           /\ Len(PlanOf(q)) >= 2
           /\ PlanOf(q)[2] # "save"
           /\ Len(PlanOf(q)) \in Nat
<1> USE Plans DEF RowOps
<1>1. CASE PlanOf(q) = <<"find", "write", "save">> /\ q.op = "create"
  <2>1. Len(PlanOf(q)) = 3 /\ PlanOf(q)[2] = "write" /\ PlanOf(q)[3] = "save"
    BY <1>1
  <2> QED BY <1>1, <2>1
<1>2. CASE PlanOf(q) = <<"find", "look", "write", "save">> /\ q.op \in {"update", "delete"}
  <2>1. Len(PlanOf(q)) = 4 /\ PlanOf(q)[2] = "look" /\ PlanOf(q)[3] = "write" /\ PlanOf(q)[4] = "save"
    BY <1>2
  <2> QED BY <1>2, <2>1
<1>3. CASE PlanOf(q) = <<"find", "look", "clear", "write", "save">> /\ q.op = "update" /\ q.kind = "product"
  <2>1. Len(PlanOf(q)) = 5 /\ PlanOf(q)[2] = "look" /\ PlanOf(q)[3] = "clear" /\ PlanOf(q)[4] = "write"
        /\ PlanOf(q)[5] = "save"
    BY <1>3
  <2> QED BY <1>3, <2>1
<1>4. CASE PlanOf(q) = <<"find", "look", "write", "audit", "save">> /\ q.op = "adjust"
  <2>1. Len(PlanOf(q)) = 5 /\ PlanOf(q)[2] = "look" /\ PlanOf(q)[3] = "write" /\ PlanOf(q)[4] = "audit"
        /\ PlanOf(q)[5] = "save"
    BY <1>4
  <2> QED BY <1>4, <2>1
<1>5. CASE PlanOf(q) = <<"find", "presign", "save">> /\ q.op = "upload"
  <2>1. Len(PlanOf(q)) = 3 /\ PlanOf(q)[2] = "presign" /\ PlanOf(q)[3] = "save"
    BY <1>5
  <2> QED BY <1>5, <2>1
<1> QED BY <1>1, <1>2, <1>3, <1>4, <1>5 DEF CallOK

-----------------------------------------------------------------------------
(* What never changes back: a row is not unmade, its version only grows,   *)
(* and its body changes with its version.                                  *)
Evolves(T, U) == \A i \in Items :
    /\ T[i].version \in Nat /\ U[i].version \in Nat
    /\ T[i].state # "none" => U[i].state # "none"
    /\ U[i].version >= T[i].version
    /\ U[i].version = T[i].version => U[i].body = T[i].body

TablesGrow == Evolves(item, item') /\ audit \subseteq audit' /\ records \subseteq records'

LEMMA RowTypes ==
    ASSUME TablesOK, NEW i \in Items
    PROVE  item[i].version \in Nat /\ (item[i].state = "none" <=> item[i] = NoRow)
BY DEF TablesOK, Row, NoRow

LEMMA MadeStays ==
    ASSUME NEW response, NEW version, NEW T, NEW U, Evolves(T, U), Made(response, version, T)
    PROVE  Made(response, version, U)
<1> DEFINE i == response.id
<1>1. i \in Items /\ version \in Nat /\ response.version \in Nat
  BY DEF Made
<1>2. U[i].version >= T[i].version /\ T[i].version \in Nat /\ U[i].version \in Nat
  BY <1>1 DEF Evolves
<1>3. U[i].version >= response.version
  BY <1>1, <1>2 DEF Made
<1>4. U[i].version = response.version => U[i].version = T[i].version
  BY <1>1, <1>2 DEF Made
<1> QED BY <1>1, <1>2, <1>3, <1>4 DEF Made, Evolves

LEMMA BackedStays ==
    ASSUME NEW x, NEW T, NEW U, NEW A, NEW B, Evolves(T, U), A \subseteq B, Backed(x, T, A)
    PROVE  Backed(x, U, B)
BY MadeStays DEF Backed

LEMMA PreparedStays ==
    ASSUME NEW c \in Running, NEW T, NEW U, NEW A, NEW B, Evolves(T, U), A \subseteq B, Prepared(c, T, A)
    PROVE  Prepared(c, U, B)
<1>1. CallOK(c.call)
  BY CallTypes DEF Running
<1>2. c.call.op \in RowOps => c.call.id \in Items
  BY <1>1 DEF CallOK, RowOps, Items
<1>3. c.call.op \in RowOps /\ c.pc > 2 => U[c.call.id].state # "none"
  BY <1>2 DEF Prepared, Evolves
<1>4. c.call.op = "update" /\ StepOf(c) = "save" => Made(c.response, c.call.version, U)
  BY MadeStays DEF Prepared
<1> QED BY <1>3, <1>4 DEF Prepared

LEMMA Still == TablesOK /\ UNCHANGED tables => TablesOK' /\ TablesGrow
<1> SUFFICES ASSUME TablesOK, UNCHANGED tables PROVE TablesOK' /\ TablesGrow
  OBVIOUS
<1>1. TablesOK'
  BY DEF TablesOK, tables
<1>2. TablesGrow
  BY RowTypes DEF TablesGrow, Evolves, tables
<1> QED BY <1>1, <1>2

(* Where no record is saved, the records go on telling the truth.          *)
LEMMA TablesEvolve ==
    ASSUME TablesOK, Evolves(item, item'), audit \subseteq audit', UNCHANGED records,
           item' \in [Items -> Row], images' \in [Products -> SUBSET Contents],
           stock' \in [Products -> StockRow],
           \A x \in audit' : x.id \in Products /\ x.key \in Keys /\ x.after = x.before + x.delta,
           \A p \in Products : item'[p].state = "none" => stock'[p].reserved = 0
    PROVE  TablesOK' /\ TablesGrow
<1>1. \A x \in records' : Backed(x, item', audit')
  BY BackedStays DEF TablesOK
<1> QED BY <1>1 DEF TablesOK, TablesGrow

(* A request moves on; the others stand where they stood.                  *)
LEMMA RequestMoves ==
    ASSUME CatalogInv, TablesOK', TablesGrow,
           NEW r \in Requests, NEW c \in RequestStates, req' = [req EXCEPT ![r] = c],
           c.at = "running" => Prepared(c, item', audit'),
           c.at = "done" => \E x \in records' :
               x.scope = Scope(c.call) /\ x.hash = Hash(c.call) /\ x.response = c.response
    PROVE  CatalogInv'
<1>1. /\ req' \in [Requests -> RequestStates]
      /\ \A u \in Requests : req'[u] = IF u = r THEN c ELSE req[u]
  BY DEF CatalogInv, RequestsOK
<1>2. ASSUME NEW u \in Requests, req'[u].at = "running" PROVE Prepared(req'[u], item', audit')
  <2>1. CASE u = r
    BY <1>1, <1>2, <2>1
  <2>2. CASE u # r
    <3>1. req'[u] = req[u] /\ req[u].at = "running" /\ req[u] \in RequestStates
      BY <1>1, <1>2, <2>2 DEF CatalogInv, RequestsOK
    <3>2. req[u] \in Running
      BY <3>1 DEF RequestStates, Idle, Done, TurnedAway
    <3>3. Prepared(req[u], item, audit)
      BY <3>1 DEF CatalogInv, RequestsOK
    <3> QED BY <3>1, <3>2, <3>3, PreparedStays DEF TablesGrow
  <2> QED BY <2>1, <2>2
<1>3. ASSUME NEW u \in Requests, req'[u].at = "done" PROVE Told(req[u])'
  BY <1>1, <1>3 DEF CatalogInv, RequestsOK, Told, TablesGrow, Scope, Hash
<1> QED BY <1>1, <1>2, <1>3 DEF CatalogInv, RequestsOK

LEMMA Refusing ==
    ASSUME CatalogInv, TablesOK', TablesGrow, NEW r \in Requests,
           NEW code \in Codes \ {"OK"}, Refused(r, code)
    PROVE  CatalogInv'
<1> DEFINE c == [at |-> "refused", answer |-> code]
<1>1. c \in RequestStates /\ c.at = "refused" /\ req' = [req EXCEPT ![r] = c]
  BY DEF RequestStates, TurnedAway, Refused
<1> HIDE DEF c
<1> QED BY <1>1, RequestMoves

LEMMA Answering ==
    ASSUME CatalogInv, TablesOK', TablesGrow, NEW r \in Requests,
           NEW q \in Calls, NEW response \in Response, Answers(r, "OK", q, response),
           \E x \in records' : x.scope = Scope(q) /\ x.hash = Hash(q) /\ x.response = response
    PROVE  CatalogInv'
<1> DEFINE c == [at |-> "done", answer |-> "OK", call |-> q, response |-> response]
<1>1. c \in RequestStates /\ c.at = "done" /\ c.call = q /\ c.response = response /\ req' = [req EXCEPT ![r] = c]
  BY DEF RequestStates, Done, Answers
<1> HIDE DEF c
<1> QED BY <1>1, RequestMoves

(* What is known of a request that is about to take a step.                *)
LEMMA AtStep ==
    ASSUME CatalogInv, NEW r \in Requests, req[r].at = "running"
    PROVE  /\ req[r] \in Running /\ Prepared(req[r], item, audit)
           /\ CallOK(req[r].call) /\ req[r].call \in Calls /\ req[r].response \in Response
           /\ req[r].pc \in 2..Len(PlanOf(req[r].call))
           /\ \A step : At(r, step) <=> PlanOf(req[r].call)[req[r].pc] = step
<1>1. req[r] \in Running
  BY DEF CatalogInv, RequestsOK, RequestStates, Idle, Done, TurnedAway
<1>2. Prepared(req[r], item, audit)
  BY DEF CatalogInv, RequestsOK
<1>3. CallOK(req[r].call)
  BY <1>1, CallTypes DEF Running
<1> QED BY <1>1, <1>2, <1>3 DEF Running, Prepared, PlanOf, At

LEMMA Proceeding ==
    ASSUME CatalogInv, TablesOK', TablesGrow, NEW r \in Requests, req[r].at = "running",
           PlanOf(req[r].call)[req[r].pc] # "save",
           NEW response \in Response, Proceeds(r, response),
           NEW c, c = [at |-> "running", pc |-> req[r].pc + 1, call |-> req[r].call, response |-> response],
           c.call.op \in RowOps => item'[c.call.id].state # "none",
           c.call.op = "adjust" => response.after = response.before + c.call.delta,
           c.call.op = "adjust" /\ StepOf(c) = "save" => AuditRow(c.call, response) \in audit',
           c.call.op = "update" /\ StepOf(c) = "save" => Made(response, c.call.version, item')
    PROVE  CatalogInv'
<1>1. /\ req[r] \in Running /\ CallOK(req[r].call)
      /\ req[r].pc \in 2..Len(PlanOf(req[r].call)) /\ req[r].pc \in Nat
  BY AtStep DEF Running
<1>2. req[r].pc < Len(PlanOf(req[r].call)) /\ Len(PlanOf(req[r].call)) \in Nat
  BY <1>1, StepsInOrder
<1>3. c \in Running /\ c.at = "running" /\ c.response = response
  BY <1>1 DEF Running
<1>4. c.pc \in 2..Len(PlanOf(c.call))
  BY <1>1, <1>2
<1>5. Prepared(c, item', audit')
  BY <1>3, <1>4 DEF Prepared, PlanOf
<1>6. req' = [req EXCEPT ![r] = c]
  <2> DEFINE first == [req[r] EXCEPT !.pc = @ + 1]
             second == [first EXCEPT !.response = response]
  <2>3. first \in Running /\ first.pc = req[r].pc + 1 /\ first.call = req[r].call
    BY <1>1 DEF Running
  <2> HIDE DEF first
  <2>4. second \in Running /\ second.pc = first.pc /\ second.call = first.call /\ second.response = response
    BY <2>3 DEF Running
  <2> HIDE DEF second
  <2>5. second = c
    BY <1>3, <2>3, <2>4 DEF Running
  <2>1. [req[r] EXCEPT !.pc = @ + 1, !.response = response] = c
    BY <2>5 DEF first, second
  <2>2. req' = [req EXCEPT ![r] = [req[r] EXCEPT !.pc = @ + 1, !.response = response]]
    BY DEF Proceeds
  <2> QED BY <2>1, <2>2
<1> QED BY <1>3, <1>5, <1>6, RequestMoves DEF RequestStates

-----------------------------------------------------------------------------
(* The answers that are put together.                                      *)
Named(i) == [NoResponse EXCEPT !.id = i]
Created(i, v, b) == [NoResponse EXCEPT !.id = i, !.version = v, !.body = b]
Updated(i, v, b) == [NoResponse EXCEPT !.id = i, !.body = b, !.version = v]
Adjusted(i, x, y) == [NoResponse EXCEPT !.id = i, !.before = x, !.after = y]

LEMMA NamedResponse ==
    ASSUME NEW i \in Items \union Requests \union {0}
    PROVE  /\ NoResponse \in Response
           /\ Named(i) \in Response /\ Named(i).id = i
<1>1. NoResponse \in Response
  BY DEF NoResponse, Response
<1> DEFINE o == [NoResponse EXCEPT !.id = i]
<1>2. o \in Response /\ o.id = i
  BY <1>1 DEF Response
<1> QED BY <1>1, <1>2 DEF Named

LEMMA CreatedResponse ==
    ASSUME NEW i \in Items, NEW v \in Nat, NEW b \in Body
    PROVE  Created(i, v, b) \in Response /\ Created(i, v, b).id = i /\ Created(i, v, b).version = v /\ Created(i, v, b).body = b
<1> DEFINE one == [NoResponse EXCEPT !.id = i]
           two == [one EXCEPT !.version = v]
           three == [two EXCEPT !.body = b]
<1>1. one \in Response /\ one.id = i
  BY NamedResponse DEF Named
<1> HIDE DEF one
<1>2. two \in Response /\ two.id = i /\ two.version = v
  BY <1>1 DEF Response
<1> HIDE DEF two
<1>3. three \in Response /\ three.id = i /\ three.version = v /\ three.body = b
  BY <1>2 DEF Response
<1>4. three = Created(i, v, b)
  BY DEF one, two, Created
<1> HIDE DEF three
<1> QED BY <1>3, <1>4

LEMMA UpdatedResponse ==
    ASSUME NEW i \in Items, NEW v \in Nat, NEW b \in Body
    PROVE  Updated(i, v, b) \in Response /\ Updated(i, v, b).id = i /\ Updated(i, v, b).version = v /\ Updated(i, v, b).body = b
<1> DEFINE one == [NoResponse EXCEPT !.id = i]
           two == [one EXCEPT !.body = b]
           three == [two EXCEPT !.version = v]
<1>1. one \in Response /\ one.id = i
  BY NamedResponse DEF Named
<1> HIDE DEF one
<1>2. two \in Response /\ two.id = i /\ two.body = b
  BY <1>1 DEF Response
<1> HIDE DEF two
<1>3. three \in Response /\ three.id = i /\ three.version = v /\ three.body = b
  BY <1>2 DEF Response
<1>4. three = Updated(i, v, b)
  BY DEF one, two, Updated
<1> HIDE DEF three
<1> QED BY <1>3, <1>4

LEMMA AdjustedResponse ==
    ASSUME NEW i \in Items, NEW x \in Int, NEW y \in Int
    PROVE  Adjusted(i, x, y) \in Response /\ Adjusted(i, x, y).before = x /\ Adjusted(i, x, y).after = y
<1> DEFINE one == [NoResponse EXCEPT !.id = i]
           two == [one EXCEPT !.before = x]
           three == [two EXCEPT !.after = y]
<1>1. one \in Response /\ one.id = i
  BY NamedResponse DEF Named
<1> HIDE DEF one
<1>2. two \in Response /\ two.before = x
  BY <1>1 DEF Response
<1> HIDE DEF two
<1>3. three \in Response /\ three.before = x /\ three.after = y
  BY <1>2 DEF Response
<1>4. three = Adjusted(i, x, y)
  BY DEF one, two, Adjusted
<1> HIDE DEF three
<1> QED BY <1>3, <1>4

(* One step of the proof per action: each keeps the tables true and the    *)
(* request it moves as far as its statements have brought it.              *)
LEMMA RefuseStep ==
    ASSUME CatalogInv, NEW r \in Requests, Refuse(r) \/ RequestFails(r)
    PROVE  CatalogInv'
<1>1. TablesOK' /\ TablesGrow
  BY Still DEF CatalogInv, Refuse, RequestFails
<1>2. \E code \in Codes \ {"OK"} : Refused(r, code)
  BY DEF Refuse, RequestFails, Codes
<1> QED BY <1>1, <1>2, Refusing

LEMMA FindStep ==
    ASSUME CatalogInv, NEW r \in Requests, Find(r)
    PROVE  CatalogInv'
<1>1. TablesOK' /\ TablesGrow /\ UNCHANGED tables
  BY Still DEF CatalogInv, Find
<1>2. PICK q \in Calls :
          IF RecordOf(q) = {}
          THEN req' = [req EXCEPT ![r] = [at |-> "running", pc |-> 2, call |-> q, response |-> NoResponse]]
          ELSE \E x \in RecordOf(q) :
                  IF x.hash = Hash(q) THEN Answers(r, "OK", q, x.response)
                  ELSE Refused(r, "IDEMPOTENCY_KEY_REUSED")
  BY DEF Find
<1>3. CASE RecordOf(q) = {}
  <2> DEFINE c == [at |-> "running", pc |-> 2, call |-> q, response |-> NoResponse]
  <2>1. req' = [req EXCEPT ![r] = c] /\ c.at = "running" /\ c.pc = 2 /\ c.call = q /\ c \in Running
    BY <1>2, <1>3 DEF Running, Response, NoResponse
  <2> HIDE DEF c
  <2>2. CallOK(q)
    BY CallTypes
  <2>3. Len(PlanOf(q)) >= 2 /\ Len(PlanOf(q)) \in Nat /\ PlanOf(q)[2] # "save"
    <3>1. 2 \in 2..Len(PlanOf(q))
      BY <2>2, PlanLengths
    <3> QED BY <2>2, <3>1, StepsInOrder
  <2>4. Prepared(c, item', audit')
    BY <2>1, <2>3 DEF Prepared, PlanOf, StepOf
  <2> QED BY <1>1, <2>1, <2>4, RequestMoves DEF RequestStates
<1>4. CASE RecordOf(q) # {}
  <2>1. PICK x \in RecordOf(q) : \/ x.hash = Hash(q) /\ Answers(r, "OK", q, x.response)
                                 \/ Refused(r, "IDEMPOTENCY_KEY_REUSED")
    BY <1>2, <1>4
  <2>2. x \in records' /\ x.scope = Scope(q) /\ x.response \in Response
    BY <1>1 DEF RecordOf, tables, CatalogInv, TablesOK
  <2>3. CASE x.hash = Hash(q) /\ Answers(r, "OK", q, x.response)
    <3>1. PICK o \in Response : o = x.response
      BY <2>2
    <3> QED BY <1>1, <2>2, <2>3, <3>1, Answering
  <2>4. CASE Refused(r, "IDEMPOTENCY_KEY_REUSED")
    BY <1>1, <2>4, Refusing DEF Codes
  <2> QED BY <2>1, <2>3, <2>4
<1> QED BY <1>3, <1>4

LEMMA LookStep ==
    ASSUME CatalogInv, NEW r \in Requests, Look(r)
    PROVE  CatalogInv'
<1> DEFINE q == req[r].call
           s == stock[q.id]
<1>1. TablesOK' /\ TablesGrow /\ UNCHANGED tables
  BY Still DEF CatalogInv, Look
<1>2. At(r, "look") /\ req[r].at = "running"
  BY DEF Look, At
<1>3. /\ CallOK(q) /\ req[r].pc \in 2..Len(PlanOf(q)) /\ PlanOf(q)[req[r].pc] = "look"
      /\ q \in Calls
  BY <1>2, AtStep
<1>4. req[r].pc = 2 /\ PlanOf(q)[3] # "save" /\ q.op \in RowOps /\ PlanOf(q)[req[r].pc] # "save"
  BY <1>3, StepsInOrder
<1>5. CASE Missing(q)
  <2>1. Refused(r, "RESOURCE_NOT_FOUND")
    BY <1>5, Zenon DEF Look
  <2> QED BY <1>1, <2>1, Refusing DEF Codes
<1>6. CASE ~Missing(q)
  <2>1. \/ Refused(r, "INVALID_STATE_TRANSITION")
        \/ q.op = "adjust" /\ Refused(r, "STOCK_INSUFFICIENT")
        \/ q.op = "adjust" /\ Proceeds(r, [NoResponse EXCEPT !.id = q.id, !.before = s.onHand,
                                                             !.after = s.onHand + q.delta])
        \/ q.op # "adjust" /\ Proceeds(r, NoResponse)
    <3> DEFINE occupied == q.kind = "category" /\ q.op = "delete" /\ Occupied(q.id)
    <3>1. CASE occupied
      BY <1>6, <3>1, Zenon DEF Look
    <3>2. CASE ~occupied /\ q.op = "adjust"
      BY <1>6, <3>2, Zenon DEF Look
    <3>3. CASE ~occupied /\ q.op # "adjust"
      BY <1>6, <3>3, Zenon DEF Look
    <3> QED BY <3>1, <3>2, <3>3
  <2>2. item'[q.id].state # "none"
    BY <1>1, <1>6 DEF Missing, tables
  <2>3. CASE \E code \in {"INVALID_STATE_TRANSITION", "STOCK_INSUFFICIENT"} : Refused(r, code)
    BY <1>1, <2>3, Refusing DEF Codes
  <2>4. ASSUME NEW response \in Response, Proceeds(r, response),
               q.op = "adjust" => response.after = response.before + q.delta
        PROVE  CatalogInv'
    <3>1. PICK c : c = [at |-> "running", pc |-> req[r].pc + 1, call |-> req[r].call, response |-> response]
      OBVIOUS
    <3>2. c.call = q /\ c.pc = 3
      BY <1>4, <3>1
    <3>3. StepOf(c) # "save"
      BY <1>4, <3>2 DEF StepOf, PlanOf
    <3> QED BY <1>1, <1>2, <1>4, <2>2, <2>4, <3>1, <3>2, <3>3, Proceeding
  <2>5. CASE q.op # "adjust" /\ Proceeds(r, NoResponse)
    <3>1. NoResponse \in Response
      BY DEF NoResponse, Response
    <3> QED BY <2>4, <2>5, <3>1
  <2>6. CASE q.op = "adjust" /\ Proceeds(r, [NoResponse EXCEPT !.id = q.id, !.before = s.onHand,
                                                               !.after = s.onHand + q.delta])
    <3>1. q.id \in Products /\ q.delta \in Int
      BY <1>3, <2>6 DEF CallOK
    <3>2. s.onHand \in Nat
      BY <3>1 DEF CatalogInv, TablesOK, StockRow
    <3>3. PICK o : o = Adjusted(q.id, s.onHand, s.onHand + q.delta)
      OBVIOUS
    <3>4. o \in Response /\ o.before = s.onHand /\ o.after = s.onHand + q.delta
      <4>1. q.id \in Items /\ s.onHand \in Int /\ s.onHand + q.delta \in Int
        BY <3>1, <3>2 DEF Items
      <4> HIDE DEF s
      <4> QED BY <4>1, <3>3, AdjustedResponse
    <3>5. Proceeds(r, o)
      BY <2>6, <3>3 DEF Adjusted
    <3> QED BY <2>4, <2>6, <3>4, <3>5
  <2> QED BY <2>1, <2>3, <2>5, <2>6
<1> QED BY <1>5, <1>6

(* The images of a product are cleared before its row is written.          *)
LEMMA ClearStep ==
    ASSUME CatalogInv, NEW r \in Requests, ClearImages(r)
    PROVE  CatalogInv'
<1> DEFINE q == req[r].call
<1>1. At(r, "clear") /\ req[r].at = "running"
  BY DEF ClearImages, At
<1>2. /\ CallOK(q) /\ req[r].pc \in 2..Len(PlanOf(q)) /\ PlanOf(q)[req[r].pc] = "clear"
      /\ Prepared(req[r], item, audit)
  BY <1>1, AtStep
<1>3. q.op = "update" /\ req[r].pc = 3 /\ PlanOf(q)[4] # "save" /\ PlanOf(q)[req[r].pc] # "save"
  BY <1>2, StepsInOrder
<1>4. UNCHANGED <<item, stock, audit, records>> /\ images' \in [Products -> SUBSET Contents]
  BY DEF ClearImages, CatalogInv, TablesOK
<1>5. TablesOK' /\ TablesGrow
  <2>1. Evolves(item, item')
    BY <1>4, RowTypes DEF Evolves, CatalogInv
  <2> QED BY <1>4, <2>1, TablesEvolve DEF CatalogInv, TablesOK
<1>6. CASE Refused(r, "VERSION_MISMATCH")
  BY <1>5, <1>6, Refusing DEF Codes
<1>7. CASE Proceeds(r, NoResponse)
  <2>1. PICK c : c = [at |-> "running", pc |-> req[r].pc + 1, call |-> req[r].call, response |-> NoResponse]
    OBVIOUS
  <2>2. c.call = q /\ c.pc = 4
    BY <1>3, <2>1
  <2>3. StepOf(c) # "save"
    BY <1>3, <2>2 DEF StepOf, PlanOf
  <2>4. item'[q.id].state # "none"
    BY <1>2, <1>3, <1>4 DEF Prepared, RowOps
  <2>5. NoResponse \in Response
    BY DEF NoResponse, Response
  <2> QED BY <1>1, <1>3, <1>5, <1>7, <2>1, <2>2, <2>3, <2>4, <2>5, Proceeding
<1> QED BY <1>6, <1>7 DEF ClearImages

(* A row that is created takes the place of none.                          *)
LEMMA CreateStep ==
    ASSUME CatalogInv, NEW r \in Requests, CreateRow(r)
    PROVE  CatalogInv'
<1> DEFINE q == req[r].call
<1>1. At(r, "write") /\ req[r].at = "running" /\ q.op = "create" /\ UNCHANGED <<audit, records>>
  BY DEF CreateRow, At
<1>2. CallOK(q) /\ req[r].pc \in 2..Len(PlanOf(q)) /\ PlanOf(q)[req[r].pc] = "write"
  BY <1>1, AtStep
<1>3. PICK i \in Items :
          /\ item[i].state = "none"
          /\ item' = [item EXCEPT ![i] = NewRow(q.body)]
          /\ \/ images' = [images EXCEPT ![i] = {q.body.content}] /\ stock' = [stock EXCEPT ![i].onHand = InitialStock]
             \/ UNCHANGED <<images, stock>>
          /\ Proceeds(r, [NoResponse EXCEPT !.id = i, !.version = 1, !.body = q.body])
  BY DEF CreateRow, Free
<1>4. q.body \in Body
  BY <1>1, <1>2 DEF CallOK
<1>5. NewRow(q.body) \in Row /\ NewRow(q.body).version = 1 /\ NewRow(q.body).state = "live" /\ item[i].version = 0
  BY <1>3, <1>4, RowTypes DEF NewRow, Row, NoRow, CatalogInv
<1>6. \A j \in Items : item'[j] = IF j = i THEN NewRow(q.body) ELSE item[j]
  BY <1>3 DEF CatalogInv, TablesOK
<1>7. Evolves(item, item')
  BY <1>5, <1>6, RowTypes DEF Evolves, CatalogInv
<1>8. \A p \in Products : p \in Items /\ (item[p].state = "none" => stock[p].reserved = 0) /\ stock[p] \in StockRow
  BY DEF CatalogInv, TablesOK, Items
<1>9. /\ stock' \in [Products -> StockRow]
      /\ \A p \in Products : stock'[p].reserved = stock[p].reserved
  <2>1. CASE UNCHANGED stock
    BY <2>1 DEF CatalogInv, TablesOK
  <2>2. CASE stock' = [stock EXCEPT ![i].onHand = InitialStock]
    <3>1. i \in Products => [stock[i] EXCEPT !.onHand = InitialStock] \in StockRow
             /\ [stock[i] EXCEPT !.onHand = InitialStock].reserved = stock[i].reserved
      BY <1>3, <1>8, StockAssumption DEF StockRow
    <3>2. stock' = [stock EXCEPT ![i] = [stock[i] EXCEPT !.onHand = InitialStock]]
      BY <2>2
    <3> QED BY <3>1, <3>2 DEF CatalogInv, TablesOK
  <2> QED BY <1>3, <2>1, <2>2
<1>10. images' \in [Products -> SUBSET Contents]
  <2>1. {q.body.content} \in SUBSET Contents
    BY <1>4 DEF Body
  <2> QED BY <1>3, <2>1 DEF CatalogInv, TablesOK
<1>11. \A p \in Products : item'[p].state = "none" => stock'[p].reserved = 0
  BY <1>5, <1>6, <1>8, <1>9
<1>12. item' \in [Items -> Row]
  BY <1>3, <1>5 DEF CatalogInv, TablesOK
<1>13. TablesOK' /\ TablesGrow
  BY <1>1, <1>7, <1>9, <1>10, <1>11, <1>12, TablesEvolve DEF CatalogInv, TablesOK
<1>14. PICK o : o = Created(i, 1, q.body)
  OBVIOUS
<1>15. o \in Response /\ Proceeds(r, o)
  BY <1>3, <1>4, <1>14, CreatedResponse DEF Created
<1>16. PICK c : c = [at |-> "running", pc |-> req[r].pc + 1, call |-> req[r].call, response |-> o]
  OBVIOUS
<1>17. c.call = q /\ q.op \notin RowOps
  BY <1>1, <1>16 DEF RowOps
<1> QED BY <1>1, <1>2, <1>13, <1>15, <1>16, <1>17, Proceeding DEF RowOps

(* An update makes the version after the one its If-Match names.           *)
LEMMA UpdateStep ==
    ASSUME CatalogInv, NEW r \in Requests, UpdateRow(r)
    PROVE  CatalogInv'
<1> DEFINE q == req[r].call
           row == UpdatedRow(item[q.id], q)
<1>1. At(r, "write") /\ req[r].at = "running" /\ q.op = "update" /\ UNCHANGED <<stock, audit, records>>
  BY DEF UpdateRow, At
<1>2. /\ CallOK(q) /\ req[r].pc \in 2..Len(PlanOf(q)) /\ PlanOf(q)[req[r].pc] = "write"
      /\ Prepared(req[r], item, audit)
  BY <1>1, AtStep
<1>3. q.id \in Items /\ q.body \in Body /\ q.version \in Nat \ {0}
  BY <1>1, <1>2 DEF CallOK, Items
<1>4. CASE Refused(r, "VERSION_MISMATCH") /\ UNCHANGED <<item, images>>
  <2>1. TablesOK' /\ TablesGrow
    BY <1>1, <1>4, Still DEF tables, CatalogInv
  <2> QED BY <1>4, <2>1, Refusing DEF Codes
<1>5. CASE /\ item[q.id].version = q.version
           /\ item' = [item EXCEPT ![q.id] = UpdatedRow(@, q)]
           /\ images' = IF q.kind = "product" THEN [images EXCEPT ![q.id] = @ \union {q.body.content}] ELSE images
           /\ Proceeds(r, [NoResponse EXCEPT !.id = q.id, !.body = q.body, !.version = item[q.id].version + 1])
  <2>1. item[q.id] \in Row /\ item[q.id] # NoRow
    BY <1>3, <1>5 DEF CatalogInv, TablesOK, NoRow
  <2>2. row \in Row /\ row.state = item[q.id].state /\ row.version = q.version + 1 /\ row.body = q.body
    <3> DEFINE first == [item[q.id] EXCEPT !.version = @ + 1]
               second == [first EXCEPT !.body = q.body]
               Rows == [state: {"live", "deleted"}, version: Nat \ {0}, body: Body]
    <3>1. first \in Rows /\ first.state = item[q.id].state /\ first.version = q.version + 1
      BY <1>3, <1>5, <2>1 DEF Row
    <3> HIDE DEF first
    <3>2. second \in Rows /\ second.state = first.state /\ second.version = first.version /\ second.body = q.body
      BY <1>3, <3>1
    <3>3. row = second
      BY DEF first, UpdatedRow
    <3> HIDE DEF second, row
    <3> QED BY <3>1, <3>2, <3>3 DEF Row
  <2>3. item' \in [Items -> Row] /\ \A j \in Items : item'[j] = IF j = q.id THEN row ELSE item[j]
    <3>1. item' = [item EXCEPT ![q.id] = row]
      BY <1>5
    <3> HIDE DEF row
    <3> QED BY <1>3, <2>2, <3>1 DEF CatalogInv, TablesOK
  <2> HIDE DEF row
  <2>4. Evolves(item, item')
    <3>1. item[q.id].version = q.version /\ item[q.id].state # "none"
      BY <1>5, <2>1 DEF Row, NoRow
    <3>2. \A j \in Items : item[j].version \in Nat
      BY RowTypes DEF CatalogInv
    <3>3. row.version = item[q.id].version + 1 /\ row.state # "none"
      BY <2>2, <3>1
    <3> HIDE DEF q
    <3> QED BY <2>3, <3>1, <3>2, <3>3 DEF Evolves
  <2>5. images' \in [Products -> SUBSET Contents]
    <3>1. q.body.content \in Contents
      BY <1>3 DEF Body
    <3> QED BY <1>5, <3>1 DEF CatalogInv, TablesOK
  <2>6. \A p \in Products : item'[p].state = "none" => stock'[p].reserved = 0
    BY <1>1, <2>2, <2>3 DEF CatalogInv, TablesOK, Items
  <2>7. TablesOK' /\ TablesGrow
    BY <1>1, <2>3, <2>4, <2>5, <2>6, TablesEvolve DEF CatalogInv, TablesOK
  <2>8. PICK o : o = Updated(q.id, q.version + 1, q.body)
    OBVIOUS
  <2>9. o \in Response /\ o.id = q.id /\ o.version = q.version + 1 /\ o.body = q.body
    BY <1>3, <2>8, UpdatedResponse
  <2>10. Proceeds(r, o)
    BY <1>5, <2>8 DEF Updated
  <2>11. Made(o, q.version, item')
    BY <1>3, <2>2, <2>3, <2>9 DEF Made
  <2>12. item'[q.id].state # "none"
    BY <1>3, <2>1, <2>2, <2>3 DEF Row
  <2>13. PICK c : c = [at |-> "running", pc |-> req[r].pc + 1, call |-> req[r].call, response |-> o]
    OBVIOUS
  <2>14. c.call = q /\ q.op # "adjust"
    BY <1>1, <2>13
  <2> QED BY <1>1, <1>2, <2>7, <2>9, <2>10, <2>11, <2>12, <2>13, <2>14, Proceeding
<1> QED BY <1>4, <1>5 DEF UpdateRow, VersionMatches

(* A deletion leaves a row its version and its body.                       *)
LEMMA DeleteStep ==
    ASSUME CatalogInv, NEW r \in Requests, DeleteRow(r)
    PROVE  CatalogInv'
<1> DEFINE q == req[r].call
           row == [item[q.id] EXCEPT !.state = "deleted"]
<1>1. At(r, "write") /\ req[r].at = "running" /\ q.op = "delete" /\ UNCHANGED <<images, stock, audit, records>>
  BY DEF DeleteRow, At
<1>2. /\ CallOK(q) /\ req[r].pc \in 2..Len(PlanOf(q)) /\ PlanOf(q)[req[r].pc] = "write"
      /\ Prepared(req[r], item, audit)
  BY <1>1, AtStep
<1>3. q.id \in Items /\ item[q.id].state # "none"
  BY <1>1, <1>2, StepsInOrder DEF CallOK, Items, Prepared, RowOps
<1>4. row \in Row /\ row.state = "deleted" /\ row.version = item[q.id].version /\ row.body = item[q.id].body
  BY <1>3 DEF CatalogInv, TablesOK, Row, NoRow
<1>5. item' = item \/ item' = [item EXCEPT ![q.id] = row]
  BY DEF DeleteRow
<1> HIDE DEF row
<1>6. item' \in [Items -> Row] /\ \A j \in Items : item'[j] = item[j] \/ (j = q.id /\ item'[j] = row)
  BY <1>3, <1>4, <1>5 DEF CatalogInv, TablesOK
<1>7. Evolves(item, item')
  BY <1>3, <1>4, <1>6, RowTypes DEF Evolves, CatalogInv
<1>8. \A p \in Products : item'[p].state = "none" => stock'[p].reserved = 0
  BY <1>1, <1>4, <1>6 DEF CatalogInv, TablesOK, Items
<1>9. TablesOK' /\ TablesGrow
  BY <1>1, <1>6, <1>7, <1>8, TablesEvolve DEF CatalogInv, TablesOK
<1>10. CASE Refused(r, "INVALID_STATE_TRANSITION")
  BY <1>9, <1>10, Refusing DEF Codes
<1>11. CASE Proceeds(r, NoResponse)
  <2>1. PICK c : c = [at |-> "running", pc |-> req[r].pc + 1, call |-> req[r].call, response |-> NoResponse]
    OBVIOUS
  <2>2. c.call = q /\ q.op \notin {"adjust", "update"}
    BY <1>1, <2>1
  <2>3. item'[q.id].state # "none"
    BY <1>3, <1>4, <1>6
  <2>4. NoResponse \in Response
    BY DEF NoResponse, Response
  <2> QED BY <1>1, <1>2, <1>9, <1>11, <2>1, <2>2, <2>3, <2>4, Proceeding
<1> QED BY <1>10, <1>11 DEF DeleteRow

(* The units in the shop change, those the carts hold do not.              *)
LEMMA StockTables ==
    ASSUME CatalogInv, UNCHANGED <<item, images, audit, records>>, stock' \in [Products -> StockRow],
           \A p \in Products : item[p].state = "none" => stock'[p].reserved = stock[p].reserved
    PROVE  TablesOK' /\ TablesGrow
<1>1. Evolves(item, item')
  BY RowTypes DEF Evolves, CatalogInv
<1> QED BY <1>1, TablesEvolve DEF CatalogInv, TablesOK

LEMMA WriteStockStep ==
    ASSUME CatalogInv, NEW r \in Requests, WriteStock(r)
    PROVE  CatalogInv'
<1> DEFINE q == req[r].call
           n == req[r].response.after
<1>1. /\ At(r, "write") /\ req[r].at = "running" /\ q.op = "adjust"
      /\ UNCHANGED <<item, images, audit, records>>
  BY DEF WriteStock, At
<1>2. /\ CallOK(q) /\ req[r].pc \in 2..Len(PlanOf(q)) /\ PlanOf(q)[req[r].pc] = "write"
      /\ Prepared(req[r], item, audit) /\ req[r].response \in Response
  BY <1>1, AtStep
<1>3. q.op \in RowOps /\ req[r].pc > 2 /\ PlanOf(q)[req[r].pc + 1] # "save"
  BY <1>1, <1>2, StepsInOrder DEF RowOps
<1>4. q.id \in Products /\ n \in Int
  BY <1>1, <1>2 DEF CallOK, Response
<1>5. CASE Refused(r, "TECHNICAL_DEPENDENCY_FAILURE") /\ UNCHANGED stock
  <2>1. TablesOK' /\ TablesGrow
    BY <1>1, <1>5, StockTables DEF CatalogInv, TablesOK
  <2> QED BY <1>5, <2>1, Refusing DEF Codes
<1>6. CASE /\ n >= stock[q.id].reserved
           /\ stock' = [stock EXCEPT ![q.id].onHand = n]
           /\ Proceeds(r, req[r].response)
  <2> DEFINE row == [stock[q.id] EXCEPT !.onHand = n]
  <2>1. stock[q.id] \in StockRow
    BY <1>4 DEF CatalogInv, TablesOK
  <2>2. row \in StockRow /\ row.reserved = stock[q.id].reserved
    BY <1>4, <1>6, <2>1 DEF StockRow
  <2>3. stock' = [stock EXCEPT ![q.id] = row]
    BY <1>6
  <2> HIDE DEF row
  <2>4. stock' \in [Products -> StockRow] /\ \A p \in Products : stock'[p].reserved = stock[p].reserved
    BY <2>2, <2>3 DEF CatalogInv, TablesOK
  <2>5. TablesOK' /\ TablesGrow
    BY <1>1, <2>4, StockTables
  <2>6. PICK o \in Response : o = req[r].response
    BY <1>2
  <2>7. PICK c : c = [at |-> "running", pc |-> req[r].pc + 1, call |-> req[r].call, response |-> o]
    OBVIOUS
  <2>8. c.call = q /\ c.pc = req[r].pc + 1
    BY <2>7
  <2>9. StepOf(c) # "save"
    BY <1>3, <2>8 DEF StepOf, PlanOf
  <2>10. item'[q.id].state # "none" /\ o.after = o.before + q.delta
    BY <1>1, <1>2, <1>3, <2>6 DEF Prepared
  <2>11. Proceeds(r, o)
    BY <1>6, <2>6
  <2> QED BY <1>1, <1>2, <2>5, <2>7, <2>8, <2>9, <2>10, <2>11, Proceeding
<1> QED BY <1>5, <1>6 DEF WriteStock, StockAllowed

(* The audit row has the numbers the answer will give.                     *)
LEMMA AuditStep ==
    ASSUME CatalogInv, NEW r \in Requests, InsertAudit(r)
    PROVE  CatalogInv'
<1> DEFINE q == req[r].call
<1>1. At(r, "audit") /\ req[r].at = "running" /\ UNCHANGED <<item, images, stock, records>>
  BY DEF InsertAudit, At
<1>2. /\ CallOK(q) /\ req[r].pc \in 2..Len(PlanOf(q)) /\ PlanOf(q)[req[r].pc] = "audit"
      /\ Prepared(req[r], item, audit) /\ req[r].response \in Response
  BY <1>1, AtStep
<1>3. q.op = "adjust" /\ req[r].pc > 2
  BY <1>2, StepsInOrder
<1>4. q.id \in Products /\ q.key \in Keys /\ req[r].response.after = req[r].response.before + q.delta
      /\ item[q.id].state # "none"
  BY <1>2, <1>3 DEF CallOK, Prepared, RowOps
<1>5. CASE Refused(r, "TECHNICAL_DEPENDENCY_FAILURE") /\ UNCHANGED audit
  <2>1. TablesOK' /\ TablesGrow
    BY <1>1, <1>5, Still DEF tables, CatalogInv
  <2> QED BY <1>5, <2>1, Refusing DEF Codes
<1>6. CASE audit' = audit \union {AuditRow(q, req[r].response)} /\ Proceeds(r, req[r].response)
  <2>1. \A x \in audit' : x.id \in Products /\ x.key \in Keys /\ x.after = x.before + x.delta
    BY <1>4, <1>6 DEF AuditRow, CatalogInv, TablesOK
  <2>2. Evolves(item, item')
    BY <1>1, RowTypes DEF Evolves, CatalogInv
  <2>3. TablesOK' /\ TablesGrow
    BY <1>1, <1>6, <2>1, <2>2, TablesEvolve DEF CatalogInv, TablesOK
  <2>4. PICK o \in Response : o = req[r].response
    BY <1>2
  <2>5. PICK c : c = [at |-> "running", pc |-> req[r].pc + 1, call |-> req[r].call, response |-> o]
    OBVIOUS
  <2>6. c.call = q /\ q.op # "update"
    BY <1>3, <2>5
  <2>7. AuditRow(q, o) \in audit' /\ o.after = o.before + q.delta /\ item'[q.id].state # "none" /\ Proceeds(r, o)
    BY <1>1, <1>4, <1>6, <2>4
  <2> QED BY <1>1, <1>2, <2>3, <2>5, <2>6, <2>7, Proceeding
<1> QED BY <1>5, <1>6 DEF InsertAudit

LEMMA PresignStep ==
    ASSUME CatalogInv, NEW r \in Requests, Presign(r)
    PROVE  CatalogInv'
<1>1. TablesOK' /\ TablesGrow
  BY Still DEF CatalogInv, Presign
<1>2. At(r, "presign") /\ req[r].at = "running"
  BY DEF Presign, At
<1>3. /\ CallOK(req[r].call) /\ req[r].pc \in 2..Len(PlanOf(req[r].call))
      /\ PlanOf(req[r].call)[req[r].pc] = "presign"
  BY <1>2, AtStep
<1>4. req[r].call.op = "upload"
  BY <1>3, StepsInOrder
<1>5. PICK o : o = Named(r)
  OBVIOUS
<1>6. o \in Response /\ Proceeds(r, o)
  BY <1>5, NamedResponse DEF Presign, Named
<1>7. PICK c : c = [at |-> "running", pc |-> req[r].pc + 1, call |-> req[r].call, response |-> o]
  OBVIOUS
<1>8. c.call = req[r].call /\ c.call.op = "upload"
  BY <1>4, <1>7
<1> QED BY <1>1, <1>2, <1>3, <1>6, <1>7, <1>8, Proceeding DEF RowOps

(* The one record of the key is saved, with what it says done; or another  *)
(* request's is there.                                                     *)
LEMMA SaveStep ==
    ASSUME CatalogInv, NEW r \in Requests, Save(r)
    PROVE  CatalogInv'
<1> DEFINE q == req[r].call
           response == req[r].response
<1>1. At(r, "save") /\ req[r].at = "running" /\ UNCHANGED <<item, images, stock, audit>>
  BY DEF Save, At
<1>2. /\ CallOK(q) /\ q \in Calls /\ response \in Response
      /\ Prepared(req[r], item, audit) /\ StepOf(req[r]) = "save"
  BY <1>1, AtStep DEF StepOf, PlanOf
<1>3. Evolves(item, item')
  BY <1>1, RowTypes DEF Evolves, CatalogInv
<1>4. CASE RecordOf(q) = {}
  <2> DEFINE new == [scope |-> Scope(q), hash |-> Hash(q), response |-> response]
  <2>1. records' = {x \in records : x.scope # Scope(q)} \union {new} /\ Answers(r, "OK", q, response)
    BY <1>4 DEF Save, SavedSince
  <2>2. new.scope = Scope(q) /\ new.hash = Hash(q) /\ new.response = response
    OBVIOUS
  <2>3. Scope(q)[2] = q.op /\ Scope(q)[3] = q.key /\ Hash(q)[2] = q.version /\ Hash(q)[3] = q.delta
        /\ (q.op # "update" => Hash(q)[1] = q.id)
    BY DEF Scope, Hash
  <2> HIDE DEF new
  <2>4. records' = records \union {new} /\ \A x \in records : x.scope # new.scope
    BY <1>4, <2>1, <2>2 DEF RecordOf
  <2>5. Backed(new, item, audit)
    <3>1. q.op = "update" => Made(response, q.version, item)
      BY <1>2 DEF Prepared
    <3>2. q.op = "adjust" => AuditRow(q, response) \in audit
      BY <1>2 DEF Prepared
    <3>3. q.op = "adjust" => AuditOf(new) = AuditRow(q, response)
      BY <2>2, <2>3 DEF AuditOf, AuditRow
    <3> QED BY <2>2, <2>3, <3>1, <3>2, <3>3 DEF Backed
  <2>6. \A x, y \in records' : x.scope = y.scope => x = y
    BY <2>4 DEF CatalogInv, TablesOK
  <2>7. \A x \in records' : x.response \in Response /\ Backed(x, item, audit)
    BY <1>2, <2>2, <2>4, <2>5 DEF CatalogInv, TablesOK
  <2>8. TablesOK' /\ TablesGrow
    BY <1>1, <1>3, <2>4, <2>6, <2>7 DEF CatalogInv, TablesOK, TablesGrow
  <2>9. PICK p \in Calls, o \in Response : p = q /\ o = response
    BY <1>2
  <2>10. \E x \in records' : x.scope = Scope(p) /\ x.hash = Hash(p) /\ x.response = o
    BY <2>2, <2>4, <2>9
  <2>11. Answers(r, "OK", p, o)
    BY <2>1, <2>9
  <2> QED BY <2>8, <2>10, <2>11, Answering
<1>5. CASE RecordOf(q) # {}
  <2>1. UNCHANGED records
    BY <1>5 DEF Save, SavedSince
  <2>2. TablesOK' /\ TablesGrow
    BY <1>1, <2>1, Still DEF tables, CatalogInv
  <2>3. PICK x \in RecordOf(q) : \/ x.hash = Hash(q) /\ Answers(r, "OK", q, x.response)
                                 \/ Refused(r, "TECHNICAL_DEPENDENCY_FAILURE")
    BY <1>5 DEF Save, SavedSince
  <2>4. x \in records' /\ x.scope = Scope(q) /\ x.response \in Response
    BY <2>1 DEF RecordOf, CatalogInv, TablesOK
  <2>5. CASE x.hash = Hash(q) /\ Answers(r, "OK", q, x.response)
    <3>1. PICK p \in Calls, o \in Response : p = q /\ o = x.response
      BY <1>2, <2>4
    <3>2. \E y \in records' : y.scope = Scope(p) /\ y.hash = Hash(p) /\ y.response = o
      BY <2>4, <2>5, <3>1
    <3>3. Answers(r, "OK", p, o)
      BY <2>5, <3>1
    <3> QED BY <2>2, <3>2, <3>3, Answering
  <2>6. CASE Refused(r, "TECHNICAL_DEPENDENCY_FAILURE")
    BY <2>2, <2>6, Refusing DEF Codes
  <2> QED BY <2>3, <2>5, <2>6
<1> QED BY <1>4, <1>5

(* Carts hold units of products that are shown, and give them back.        *)
LEMMA CartsStep ==
    ASSUME CatalogInv, HoldStock \/ FreeStock
    PROVE  CatalogInv'
<1>1. UNCHANGED <<item, images, audit, records, req>>
  BY DEF HoldStock, FreeStock
<1>2. PICK p \in Products, n \in Nat :
          /\ n <= stock[p].onHand /\ item[p].state # "none"
          /\ stock' = [stock EXCEPT ![p].reserved = n]
  <2>1. \A p \in Products : stock[p] \in StockRow /\ (item[p].state = "none" => stock[p].reserved = 0)
    BY DEF CatalogInv, TablesOK
  <2>2. CASE HoldStock
    <3>1. PICK p \in Products : /\ item[p].state = "live" /\ stock[p].reserved < stock[p].onHand
                                /\ stock' = [stock EXCEPT ![p].reserved = @ + 1]
      BY <2>2 DEF HoldStock
    <3>2. stock[p].reserved + 1 \in Nat /\ stock[p].reserved + 1 <= stock[p].onHand
      BY <2>1, <3>1 DEF StockRow
    <3> QED BY <3>1, <3>2
  <2>3. CASE FreeStock
    <3>1. PICK p \in Products : stock[p].reserved > 0 /\ stock' = [stock EXCEPT ![p].reserved = @ - 1]
      BY <2>3 DEF FreeStock
    <3>2. stock[p].reserved - 1 \in Nat /\ stock[p].reserved - 1 <= stock[p].onHand /\ item[p].state # "none"
      BY <2>1, <3>1 DEF StockRow
    <3> QED BY <3>1, <3>2
  <2> QED BY <2>2, <2>3
<1> DEFINE row == [stock[p] EXCEPT !.reserved = n]
<1>3. row \in StockRow
  BY <1>2 DEF CatalogInv, TablesOK, StockRow
<1>4. stock' = [stock EXCEPT ![p] = row]
  BY <1>2
<1> HIDE DEF row
<1>5. stock' \in [Products -> StockRow] /\ \A x \in Products : x # p => stock'[x] = stock[x]
  BY <1>3, <1>4 DEF CatalogInv, TablesOK
<1>6. TablesOK' /\ TablesGrow
  BY <1>1, <1>2, <1>5, StockTables
<1> QED BY <1>1, <1>6 DEF CatalogInv, RequestsOK, Told, Scope, Hash

LEMMA CatalogStep == CatalogInv /\ [Next]_vars => CatalogInv'
<1> SUFFICES ASSUME CatalogInv, [Next]_vars PROVE CatalogInv'
  OBVIOUS
<1>1. CASE UNCHANGED vars
  <2>1. TablesOK'
    BY <1>1, Still DEF vars, tables, CatalogInv
  <2> QED BY <1>1, <2>1 DEF vars, tables, CatalogInv, RequestsOK, Told, Scope, Hash
<1> QED BY <1>1, RefuseStep, FindStep, LookStep, ClearStep, CreateStep, UpdateStep, DeleteStep,
          WriteStockStep, AuditStep, PresignStep, SaveStep, CartsStep DEF Next

LEMMA InitCatalog == Init => CatalogInv
<1> SUFFICES ASSUME Init PROVE CatalogInv
  OBVIOUS
<1>1. PICK c \in Contents, home \in Categories :
          /\ item = [i \in Items |->
                IF i \in InitialItems
                THEN NewRow([content |-> c, category |-> IF i \in Products THEN home ELSE 0])
                ELSE NoRow]
          /\ images = [p \in Products |-> IF p \in InitialItems THEN {c} ELSE {}]
  BY DEF Init
<1>2. \A n \in Categories \union {0} : NewRow([content |-> c, category |-> n]) \in Row
  BY DEF NewRow, Row, Body
<1>3. item \in [Items -> Row]
  BY <1>1, <1>2 DEF Row
<1>4. images \in [Products -> SUBSET Contents]
  BY <1>1
<1>5. stock \in [Products -> StockRow] /\ \A p \in Products : stock[p].reserved = 0
  BY StockAssumption DEF Init, StockRow
<1>6. TablesOK
  BY <1>3, <1>4, <1>5 DEF Init, TablesOK
<1>7. RequestsOK
  BY DEF Init, RequestsOK, RequestStates, Idle
<1> QED BY <1>6, <1>7 DEF CatalogInv

(* The inductive invariant: records and audit say what happened to rows,   *)
(* and every request has behind it what its statements have done.          *)
THEOREM CatalogInvariant == Spec => []CatalogInv
BY InitCatalog, CatalogStep, PTL DEF Spec

(* Rows, stock, audit, records and requests keep their types.              *)
THEOREM CatalogTyped == Spec => []TypeOK
<1>1. ASSUME CatalogInv PROVE TypeOK
  <2>1. ASSUME NEW r \in Requests
        PROVE  \/ req[r] = Idle
               \/ req[r].at = "running" /\ req[r].call \in Calls
                  /\ req[r].pc \in 1..Len(Plan[req[r].call.kind][req[r].call.op])
                  /\ req[r].response \in Response
               \/ req[r].at = "refused" /\ req[r].answer \in Codes \ {"OK"}
               \/ req[r].at = "done" /\ req[r].answer = "OK" /\ req[r].response \in Response
    <3>1. req[r] \in RequestStates
      BY <1>1 DEF CatalogInv, RequestsOK
    <3>2. CASE req[r] \in Running
      <4>1. req[r].at = "running" /\ req[r].call \in Calls /\ req[r].response \in Response
        BY <3>2 DEF Running
      <4>2. req[r].pc \in 2..Len(PlanOf(req[r].call)) /\ CallOK(req[r].call)
        BY <1>1, <4>1, AtStep
      <4>3. req[r].pc \in 1..Len(PlanOf(req[r].call))
        BY <4>2, PlanLengths
      <4> QED BY <4>1, <4>3 DEF PlanOf
    <3>3. CASE req[r] \in Done \union TurnedAway \union {Idle}
      BY <3>3 DEF Done, TurnedAway
    <3> QED BY <3>1, <3>2, <3>3 DEF RequestStates
  <2> QED BY <1>1, <2>1 DEF TypeOK, CatalogInv, TablesOK
<1> QED BY <1>1, CatalogInvariant, PTL

(* All successes of one key tell what its one record says, whichever       *)
(* request saved it (the use cases of src/modules/catalog: lookup first,   *)
(* record last, nothing in between that keeps two apart).                  *)
THEOREM KeysTellOneStory == Spec => []OneStoryPerKey
<1>1. CatalogInv => OneStoryPerKey
  BY DEF CatalogInv, TablesOK, RequestsOK, Told, OneStoryPerKey, Answered
<1> QED BY <1>1, CatalogInvariant, PTL

(* An update that was answered is never overwritten by one that did not    *)
(* see it (UPDATE ... WHERE id AND version).                               *)
THEOREM UpdatesAreNotLost == Spec => []NoLostUpdate
<1>1. ASSUME CatalogInv, NEW r \in Requests, Answered(r), req[r].call.op = "update"
      PROVE  Made(req[r].response, req[r].call.version, item)
  <2>1. PICK x \in records : /\ x.scope = Scope(req[r].call) /\ x.hash = Hash(req[r].call)
                             /\ x.response = req[r].response
    BY <1>1 DEF CatalogInv, RequestsOK, Told, Answered
  <2>2. x.scope[2] = "update" /\ x.hash[2] = req[r].call.version
    BY <1>1, <2>1 DEF Scope, Hash
  <2> QED BY <1>1, <2>1, <2>2 DEF CatalogInv, TablesOK, Backed
<1>2. CatalogInv => NoLostUpdate
  BY <1>1 DEF NoLostUpdate, Made
<1> QED BY <1>2, CatalogInvariant, PTL

(* What an adjustment answers is in the audit table, though its row, its   *)
(* audit and its record are committed one by one.                          *)
THEOREM AdjustmentsAreAudited == Spec => []AnsweredAdjustmentIsAudited
<1>1. ASSUME CatalogInv, NEW r \in Requests, Answered(r), req[r].call.op = "adjust"
      PROVE  AuditRow(req[r].call, req[r].response) \in audit
  <2>1. PICK x \in records : /\ x.scope = Scope(req[r].call) /\ x.hash = Hash(req[r].call)
                             /\ x.response = req[r].response
    BY <1>1 DEF CatalogInv, RequestsOK, Told, Answered
  <2>2. /\ x.scope[2] = "adjust" /\ x.scope[3] = req[r].call.key
        /\ x.hash[1] = req[r].call.id /\ x.hash[3] = req[r].call.delta
    BY <1>1, <2>1 DEF Scope, Hash
  <2>3. AuditOf(x) = AuditRow(req[r].call, req[r].response)
    BY <2>1, <2>2 DEF AuditOf, AuditRow
  <2> QED BY <1>1, <2>2, <2>3 DEF CatalogInv, TablesOK, Backed
<1>2. CatalogInv => AnsweredAdjustmentIsAudited
  BY <1>1 DEF AnsweredAdjustmentIsAudited
<1> QED BY <1>2, CatalogInvariant, PTL

(* No statement brings a deleted row back before the shoppers: updates and *)
(* deletions that are late write it, and leave it deleted.                 *)
THEOREM DeletionsAreFinal == Spec => DeletedStaysHidden
<1>1. ASSUME CatalogInv, [Next]_vars, NEW i \in Items, item[i].state = "deleted"
      PROVE  item'[i].state = "deleted"
  <2>1. CASE UNCHANGED item
    BY <1>1, <2>1
  <2>2. ASSUME NEW r \in Requests, CreateRow(r) PROVE item'[i].state = "deleted"
    <3>1. PICK j \in Items : item[j].state = "none" /\ item' = [item EXCEPT ![j] = NewRow(req[r].call.body)]
      BY <2>2 DEF CreateRow, Free
    <3> QED BY <1>1, <3>1 DEF CatalogInv, TablesOK
  <2>3. ASSUME NEW r \in Requests, UpdateRow(r), item' # item PROVE item'[i].state = "deleted"
    <3> DEFINE q == req[r].call
               first == [item[q.id] EXCEPT !.version = @ + 1]
               row == [first EXCEPT !.body = q.body]
    <3>1. item' = [item EXCEPT ![q.id] = row] /\ item[q.id].version = q.version /\ q.op = "update"
      BY <2>3 DEF UpdateRow, VersionMatches, UpdatedRow
    <3>2. q.id \in Items /\ q.version \in Nat \ {0} /\ q.body \in Body
      <4>1. req[r].at = "running"
        BY <2>3 DEF UpdateRow, At
      <4>2. CallOK(q)
        BY <1>1, <4>1, AtStep
      <4> QED BY <3>1, <4>2 DEF CallOK, Items
    <3>3. item[q.id] \in [state: {"live", "deleted"}, version: Nat \ {0}, body: Body]
      BY <1>1, <3>1, <3>2 DEF CatalogInv, TablesOK, Row, NoRow
    <3>4. first \in [state: {"live", "deleted"}, version: Nat \ {0}, body: Body] /\ first.state = item[q.id].state
      BY <3>3
    <3> HIDE DEF first
    <3>5. row.state = first.state
      BY <3>2, <3>4
    <3> HIDE DEF row
    <3> QED BY <1>1, <3>1, <3>4, <3>5 DEF CatalogInv, TablesOK
  <2>4. ASSUME NEW r \in Requests, DeleteRow(r) PROVE item'[i].state = "deleted"
    <3> DEFINE q == req[r].call
               row == [item[q.id] EXCEPT !.state = "deleted"]
    <3>1. (item' = item \/ item' = [item EXCEPT ![q.id] = row]) /\ At(r, "write") /\ q.op = "delete"
      BY <2>4 DEF DeleteRow
    <3>2. q.id \in Items => row.state = "deleted"
      BY <1>1 DEF CatalogInv, TablesOK, Row, NoRow
    <3> HIDE DEF row
    <3> QED BY <1>1, <3>1, <3>2 DEF CatalogInv, TablesOK
  <2> QED BY <1>1, <2>1, <2>2, <2>3, <2>4 DEF Next, vars, tables, Refuse, Find, Look, ClearImages,
          WriteStock, InsertAudit, Presign, Save, RequestFails, HoldStock, FreeStock
<1>2. CatalogInv /\ [Next]_vars => [\A i \in Items : item[i].state = "deleted" => i \notin Listed']_vars
  <2> SUFFICES ASSUME CatalogInv, [Next]_vars
               PROVE  \A i \in Items : item[i].state = "deleted" => i \notin Listed'
    OBVIOUS
  <2> QED BY <1>1 DEF Listed, ListedProducts, ListedCategories, ListedBanners
<1> QED BY <1>2, CatalogInvariant, PTL DEF Spec, DeletedStaysHidden
=============================================================================
