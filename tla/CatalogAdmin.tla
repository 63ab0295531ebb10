---------------------------- MODULE CatalogAdmin ----------------------------
(***************************************************************************)
(* What administrators do to the catalog (src/modules/catalog) and to the  *)
(* media bucket (src/modules/media): create, update and delete products,   *)
(* categories and banners, adjust the stock of a product, ask for an       *)
(* upload URL.                                                             *)
(*                                                                         *)
(* Each operation is a fixed sequence of statements that commit one by     *)
(* one, with no transaction around them: a lookup of the idempotency       *)
(* record, the checks, the writes and, last, the record.  Requests overlap *)
(* between any two of them, carts hold and free stock meanwhile, and the   *)
(* process may die anywhere.                                               *)
(***************************************************************************)
EXTENDS Integers, FiniteSets, FiniteSetsExt, Sequences

CONSTANTS
    Requests,       \* each served once
    Keys,           \* idempotency keys of one administrator
    Products,       \* ids of rows: numbers, given out in order
    Categories,
    Banners,
    Contents,       \* names, prices, images: what a body says
    Deltas,         \* stock adjustments
    InitialItems,   \* rows that exist at the start
    InitialStock    \* units of a product that is created

Items == Products \union Categories \union Banners

ASSUME ItemsAssumption ==
    /\ Items \subseteq Nat \ {0} /\ InitialItems \subseteq Items
    /\ Products \intersect Categories = {} /\ Products \intersect Banners = {}
    /\ Categories \intersect Banners = {}
    /\ InitialItems \intersect Categories # {}
ASSUME StockAssumption == Deltas \subseteq Int \ {0} /\ InitialStock \in Nat

VARIABLES
    item,           \* [Items -> row]
    images,         \* product_images: of which contents a product shows them
    stock,          \* [Products -> onHand and reserved]
    audit,          \* product_stock_adjustments
    records,        \* idempotency_records of the administrator's scopes
    req             \* [Requests -> where the request stands]

tables == <<item, images, stock, audit, records>>
vars == <<tables, req>>

-----------------------------------------------------------------------------
Kinds == {"product", "category", "banner", "stock", "media"}
KindOf(i) == CASE i \in Products -> "product"
               [] i \in Categories -> "category"
               [] i \in Banners -> "banner"

(* A body; only a product names a category.                                *)
Body == [content: Contents, category: Categories \union {0}]
NoBody == [content |-> "none", category |-> 0]
BodiesFor(kind) == {b \in Body : b.category = 0 <=> kind # "product"}

NoRow == [state |-> "none", version |-> 0, body |-> NoBody]
Row == {NoRow} \union [state: {"live", "deleted"}, version: Nat \ {0}, body: Body]
NewRow(b) == [state |-> "live", version |-> 1, body |-> b]

UpdatedRow(row, q) == [row EXCEPT !.version = @ + 1, !.body = q.body]

StockRow == {s \in [onHand: Nat, reserved: Nat] : s.reserved <= s.onHand}

(* What the public endpoints show.                                         *)
ListedProductsAll ==            \* mutant: deleted_at is not asked for
    {i \in Products : item[i].state # "none"}
ListedProducts == {i \in Products : item[i].state = "live"}
ListedCategories == {i \in Categories : item[i].state = "live"}
ListedBanners == {i \in Banners : item[i].state = "live"}
Listed == ListedProducts \union ListedCategories \union ListedBanners

-----------------------------------------------------------------------------
(* The calls the controllers make, and the order of each use case's        *)
(* statements.  One administrator stands for all: keys of two never meet.  *)
Call(op, kind, i, v, d, b, k) ==
    [op |-> op, kind |-> kind, id |-> i, version |-> v, delta |-> d, body |-> b, key |-> k]

CategoryCalls ==
    {Call("create", "category", 0, 0, 0, b, k) : b \in BodiesFor("category"), k \in Keys}
    \union {Call("update", "category", i, v, 0, b, k) :
              i \in Categories, v \in 1..2, b \in BodiesFor("category"), k \in Keys}
    \union {Call("delete", "category", i, 0, 0, NoBody, k) : i \in Categories, k \in Keys}
ProductCalls ==
    {Call("create", "product", 0, 0, 0, b, k) : b \in BodiesFor("product"), k \in Keys}
    \union {Call("update", "product", i, v, 0, b, k) :
              i \in Products, v \in 1..2, b \in BodiesFor("product"), k \in Keys}
    \union {Call("delete", "product", i, 0, 0, NoBody, k) : i \in Products, k \in Keys}
BannerCalls ==
    {Call("create", "banner", 0, 0, 0, b, k) : b \in BodiesFor("banner"), k \in Keys}
    \union {Call("update", "banner", i, v, 0, b, k) :
              i \in Banners, v \in 1..2, b \in BodiesFor("banner"), k \in Keys}
    \union {Call("delete", "banner", i, 0, 0, NoBody, k) : i \in Banners, k \in Keys}
StockCalls ==
    {Call("adjust", "stock", i, 0, d, NoBody, k) : i \in Products, d \in Deltas, k \in Keys}
UploadCalls ==
    {Call("upload", "media", 0, 0, 0, b, k) : b \in BodiesFor("media"), k \in Keys}
Calls == CategoryCalls \union ProductCalls \union BannerCalls \union StockCalls \union UploadCalls

(* The hash covers the body; the id in the path is not in an update's.     *)
Hash(q) == <<IF q.op = "update" THEN 0 ELSE q.id, q.version, q.delta, q.body>>

adminCreateCategory == <<"find", "write", "save">>
adminUpdateCategory == <<"find", "look", "write", "save">>
adminDeleteCategory == <<"find", "look", "write", "save">>
adminCreateProduct  == <<"find", "write", "save">>
adminUpdateProduct  == <<"find", "look", "clear", "write", "save">>
adminDeleteProduct  == <<"find", "look", "write", "save">>
adminCreateBanner   == <<"find", "write", "save">>
adminUpdateBanner   == <<"find", "look", "write", "save">>
adminDeleteBanner   == <<"find", "look", "write", "save">>
AdjustmentRecordedFirst ==       \* mutant: the record is saved before the audit row
    <<"find", "look", "write", "save", "audit">>
adminCreateStockAdjustment == <<"find", "look", "write", "audit", "save">>
createUploadUrl     == <<"find", "presign", "save">>

Plan == [
    category |-> [create |-> adminCreateCategory, update |-> adminUpdateCategory,
                  delete |-> adminDeleteCategory],
    product  |-> [create |-> adminCreateProduct, update |-> adminUpdateProduct,
                  delete |-> adminDeleteProduct],
    banner   |-> [create |-> adminCreateBanner, update |-> adminUpdateBanner,
                  delete |-> adminDeleteBanner],
    stock    |-> [adjust |-> adminCreateStockAdjustment],
    media    |-> [upload |-> createUploadUrl]]

(* A request that runs has made its call, has pc - 1 statements behind it, *)
(* and knows what its answer will say.                                     *)
Response == [id: Items \union Requests \union {0}, version: Nat,
             body: Body \union {NoBody}, before: Int, after: Int]
NoResponse == [id |-> 0, version |-> 0, body |-> NoBody, before |-> 0, after |-> 0]

Idle == [at |-> "idle"]
At(r, step) ==
    req[r].at = "running" /\ Plan[req[r].call.kind][req[r].call.op][req[r].pc] = step
Proceeds(r, response) ==
    req' = [req EXCEPT ![r].pc = @ + 1, ![r].response = response]
Answers(r, code, q, response) ==
    req' = [req EXCEPT ![r] =
        [at |-> "done", answer |-> code, call |-> q, response |-> response]]
Refused(r, code) == req' = [req EXCEPT ![r] = [at |-> "refused", answer |-> code]]

Codes == {"OK", "ACTOR_NOT_AUTHORIZED", "INITIAL_PASSWORD_CHANGE_REQUIRED",
    "INVALID_DOMAIN_INPUT", "IDEMPOTENCY_KEY_REUSED", "RESOURCE_NOT_FOUND",
    "VERSION_MISMATCH", "INVALID_STATE_TRANSITION", "STOCK_INSUFFICIENT",
    "TECHNICAL_DEPENDENCY_FAILURE"}

(* UNIQUE(scope, idempotency_key); the scope names the operation.          *)
Scope(q) == <<q.kind, q.op, q.key>>
RecordOf(q) == {x \in records : x.scope = Scope(q)}

TypeOK ==
    /\ item \in [Items -> Row]
    /\ images \in [Products -> SUBSET Contents]
    /\ stock \in [Products -> StockRow]
    /\ \A x \in audit : x.id \in Products /\ x.key \in Keys /\ x.after = x.before + x.delta
    /\ \A x \in records : x.response \in Response
    /\ \A r \in Requests :
          \/ req[r] = Idle
          \/ req[r].at = "running" /\ req[r].call \in Calls
             /\ req[r].pc \in 1..Len(Plan[req[r].call.kind][req[r].call.op])
             /\ req[r].response \in Response
          \/ req[r].at = "refused" /\ req[r].answer \in Codes \ {"OK"}
          \/ req[r].at = "done" /\ req[r].answer = "OK" /\ req[r].response \in Response

Init ==
    /\ \E c \in Contents, home \in InitialItems \intersect Categories :
          /\ item = [i \in Items |->
                IF i \in InitialItems
                THEN NewRow([content |-> c, category |-> IF i \in Products THEN home ELSE 0])
                ELSE NoRow]
          /\ images = [p \in Products |-> IF p \in InitialItems THEN {c} ELSE {}]
    /\ stock = [p \in Products |->
          [onHand |-> IF p \in InitialItems THEN InitialStock ELSE 0, reserved |-> 0]]
    /\ audit = {} /\ records = {}
    /\ req = [r \in Requests |-> Idle]

-----------------------------------------------------------------------------
(* Someone who is no administrator, or has yet to choose a password, and   *)
(* an upload of the wrong type or size, are turned away at once.           *)
Refuse(r) ==
    /\ req[r] = Idle
    /\ \E code \in {"ACTOR_NOT_AUTHORIZED", "INITIAL_PASSWORD_CHANGE_REQUIRED",
                    "INVALID_DOMAIN_INPUT"} : Refused(r, code)
    /\ UNCHANGED tables

Find(r) == \E q \in Calls :
    /\ req[r] = Idle
    /\ IF RecordOf(q) = {}
       THEN req' = [req EXCEPT ![r] =
                [at |-> "running", pc |-> 2, call |-> q, response |-> NoResponse]]
       ELSE \E x \in RecordOf(q) :
               IF x.hash = Hash(q) THEN Answers(r, "OK", q, x.response)
               ELSE Refused(r, "IDEMPOTENCY_KEY_REUSED")
    /\ UNCHANGED tables

(* A deleted category or banner is still found; a deleted product is not.  *)
Missing(q) == IF q.kind \in {"product", "stock"} THEN item[q.id].state # "live"
              ELSE item[q.id].state = "none"
Occupied(c) == \E p \in Products : item[p].state = "live" /\ item[p].body.category = c

(* The reads before the writes.  The row lock of an adjustment ends with   *)
(* the statement that takes it.                                            *)
Look(r) ==
    LET q == req[r].call
        s == stock[q.id]
    IN
    /\ At(r, "look")
    /\ CASE Missing(q) -> Refused(r, "RESOURCE_NOT_FOUND")
         [] ~Missing(q) /\ q.kind = "category" /\ q.op = "delete" /\ Occupied(q.id) ->
                Refused(r, "INVALID_STATE_TRANSITION")
         [] ~Missing(q) /\ q.op = "adjust" ->
                IF s.onHand + q.delta < s.reserved THEN Refused(r, "STOCK_INSUFFICIENT")
                ELSE Proceeds(r, [NoResponse EXCEPT !.id = q.id, !.before = s.onHand,
                                                    !.after = s.onHand + q.delta])
         [] OTHER -> Proceeds(r, NoResponse)
    /\ UNCHANGED tables

ClearImages(r) == \E fails \in BOOLEAN :
    /\ At(r, "clear")
    /\ images' = IF fails THEN images ELSE [images EXCEPT ![req[r].call.id] = {}]
    /\ IF fails THEN Refused(r, "VERSION_MISMATCH") ELSE Proceeds(r, NoResponse)
    /\ UNCHANGED <<item, stock, audit, records>>

Free(kind) == {i \in Items : KindOf(i) = kind /\ item[i].state = "none"}

CreateRow(r) ==
    LET q == req[r].call IN
    /\ At(r, "write") /\ q.op = "create"
    /\ \E i \in Free(q.kind) :
          /\ \A j \in Free(q.kind) : i <= j
          /\ item' = [item EXCEPT ![i] = NewRow(q.body)]
          /\ IF q.kind = "product"
             THEN /\ images' = [images EXCEPT ![i] = {q.body.content}]
                  /\ stock' = [stock EXCEPT ![i].onHand = InitialStock]
             ELSE UNCHANGED <<images, stock>>
          /\ Proceeds(r, [NoResponse EXCEPT !.id = i, !.version = 1, !.body = q.body])
    /\ UNCHANGED <<audit, records>>

(* UPDATE ... WHERE id AND version: the row may have been deleted since.   *)
(* Any failure of the statement is taken for a version that does not match.*)
(* The nested create adds the images to whatever rows there are by then.   *)
VersionIgnored(q) == TRUE       \* mutant: WHERE id alone
VersionMatches(q) == item[q.id].version = q.version

UpdateRow(r) == \E fails \in BOOLEAN :
    LET q == req[r].call IN
    /\ At(r, "write") /\ q.op = "update"
    /\ IF VersionMatches(q) /\ ~fails
       THEN /\ item' = [item EXCEPT ![q.id] = UpdatedRow(@, q)]
            /\ images' = IF q.kind = "product"
                         THEN [images EXCEPT ![q.id] = @ \union {q.body.content}] ELSE images
            /\ Proceeds(r, [NoResponse EXCEPT !.id = q.id, !.body = q.body,
                                              !.version = item[q.id].version + 1])
       ELSE Refused(r, "VERSION_MISMATCH") /\ UNCHANGED <<item, images>>
    /\ UNCHANGED <<stock, audit, records>>

(* softDelete tells whether it deleted: only a category's deletion asks.   *)
DeleteRow(r) == \E fails \in BOOLEAN :
    LET q == req[r].call IN
    /\ At(r, "write") /\ q.op = "delete"
    /\ item' = IF fails THEN item ELSE [item EXCEPT ![q.id].state = "deleted"]
    /\ IF fails /\ q.kind = "category" THEN Refused(r, "INVALID_STATE_TRANSITION")
       ELSE Proceeds(r, NoResponse)
    /\ UNCHANGED <<images, stock, audit, records>>

(* The value computed from the read is written; CHECK (stock_reserved <=   *)
(* stock_on_hand) may refuse it by now.                                    *)
StockUnchecked(p, onHand) == onHand >= 0    \* mutant: the constraint is missing
StockAllowed(p, onHand) == onHand >= stock[p].reserved

WriteStock(r) ==
    LET q == req[r].call IN
    /\ At(r, "write") /\ q.op = "adjust"
    /\ IF StockAllowed(q.id, req[r].response.after)
       THEN /\ stock' = [stock EXCEPT ![q.id].onHand = req[r].response.after]
            /\ Proceeds(r, req[r].response)
       ELSE Refused(r, "TECHNICAL_DEPENDENCY_FAILURE") /\ UNCHANGED stock
    /\ UNCHANGED <<item, images, audit, records>>

(* UNIQUE(idempotency_key) on the audit table.                             *)
Audited(q) == \E x \in audit : x.key = q.key

AuditRow(q, response) == [key |-> q.key, id |-> q.id, delta |-> q.delta,
                          before |-> response.before, after |-> response.after]
InsertAudit(r) ==
    LET q == req[r].call IN
    /\ At(r, "audit")
    /\ IF Audited(q)
       THEN Refused(r, "TECHNICAL_DEPENDENCY_FAILURE") /\ UNCHANGED audit
       ELSE /\ audit' = audit \union {AuditRow(q, req[r].response)}
            /\ Proceeds(r, req[r].response)
    /\ UNCHANGED <<item, images, stock, records>>

(* The object's key is random; the request stands for it.                  *)
Presign(r) ==
    /\ At(r, "presign")
    /\ Proceeds(r, [NoResponse EXCEPT !.id = r])
    /\ UNCHANGED tables

(* A record saved since the lookup: the upload answers from it, every      *)
(* other operation fails, with its effect in place.                        *)
SavedBeside(q) == {}            \* mutant: the record is upserted
SavedSince(q) == RecordOf(q)

Save(r) ==
    LET q == req[r].call
        response == req[r].response
    IN
    /\ At(r, "save")
    /\ IF SavedSince(q) = {}
       THEN /\ records' = {x \in records : x.scope # Scope(q)} \union
                  {[scope |-> Scope(q), hash |-> Hash(q), response |-> response]}
            /\ Answers(r, "OK", q, response)
       ELSE /\ \E x \in RecordOf(q) :
                  IF q.op = "upload" /\ x.hash = Hash(q) THEN Answers(r, "OK", q, x.response)
                  ELSE Refused(r, "TECHNICAL_DEPENDENCY_FAILURE")
            /\ UNCHANGED records
    /\ UNCHANGED <<item, images, stock, audit>>

(* A statement fails or the process dies.                                  *)
RequestFails(r) ==
    /\ req[r].at = "running"
    /\ Refused(r, "TECHNICAL_DEPENDENCY_FAILURE")
    /\ UNCHANGED tables

-----------------------------------------------------------------------------
(* Carts, as CartReservation has them: the totals only.                    *)
HoldStock == \E p \in Products :
    /\ item[p].state = "live" /\ stock[p].reserved < stock[p].onHand
    /\ stock' = [stock EXCEPT ![p].reserved = @ + 1]
    /\ UNCHANGED <<item, images, audit, records, req>>

FreeStock == \E p \in Products :
    /\ stock[p].reserved > 0
    /\ stock' = [stock EXCEPT ![p].reserved = @ - 1]
    /\ UNCHANGED <<item, images, audit, records, req>>

Next ==
    \/ \E r \in Requests :
          \/ Refuse(r) \/ Find(r) \/ Look(r) \/ ClearImages(r)
          \/ CreateRow(r) \/ UpdateRow(r) \/ DeleteRow(r) \/ WriteStock(r)
          \/ InsertAudit(r) \/ Presign(r) \/ Save(r) \/ RequestFails(r)
    \/ HoldStock \/ FreeStock

Spec == Init /\ [][Next]_vars

-----------------------------------------------------------------------------
Answered(r) == req[r].at = "done"

(* All the successes of one key tell the same story, whichever of two      *)
(* overlapping requests got there first: the client never hears of two     *)
(* rows, two adjustments or two object keys for one key.                   *)
OneStoryPerKey == \A a, b \in Requests :
    Answered(a) /\ Answered(b) /\ Scope(req[a].call) = Scope(req[b].call) =>
        req[a].response = req[b].response

(* No update that was answered 200 is lost: it made the version after the  *)
(* one its If-Match named, and what it wrote is there until an update that *)
(* names that version replaces it.                                         *)
NoLostUpdate == \A r \in Requests :
    Answered(r) /\ req[r].call.op = "update" =>
        LET x == item[req[r].response.id]
            v == req[r].response.version
        IN /\ v = req[r].call.version + 1
           /\ x.version = v => x.body = req[r].response.body
           /\ x.version >= v

(* An adjustment answered 201 is in the audit table with the numbers the   *)
(* answer gives.                                                           *)
AnsweredAdjustmentIsAudited == \A r \in Requests :
    Answered(r) /\ req[r].call.op = "adjust" =>
        AuditRow(req[r].call, req[r].response) \in audit

(* A deletion that has happened is final: an update or another deletion    *)
(* that found the row before may still write it, but no shopper sees it    *)
(* again.  (That it has happened is more than a 204 says: the product's    *)
(* and the banner's do not look at what softDelete returns.)               *)
DeletedStaysHidden ==
    [][\A i \in Items : item[i].state = "deleted" => i \notin Listed']_vars

(* The header of admin-stock-adjustment.use-case.ts: the product is locked *)
(* and the adjustment is audited and idempotent.  So, when every request   *)
(* so far was answered with success, the stock on hand is what the audited *)
(* deltas add up to.                                                       *)
SumOfDeltas(S) == MapThenSumSet(LAMBDA x : x.delta, S)
StockMatchesAudit ==
    (\A r \in Requests : req[r].at \in {"idle", "done"}) =>
        \A p \in Products \intersect InitialItems :
            stock[p].onHand = InitialStock + SumOfDeltas({x \in audit : x.id = p})
=============================================================================
