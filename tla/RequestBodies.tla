--------------------------- MODULE RequestBodies ----------------------------
(***************************************************************************)
(* The request bodies and their syntactic validators                       *)
(* (src/contract/schemas.ts, src/contract/validation), and the widths of   *)
(* the columns their fields are stored in.                                 *)
(*                                                                         *)
(* A body is a function from its fields to values; a value is its JSON     *)
(* type, its size (length, magnitude or number of items) and whether it    *)
(* has the form (pattern, integer, member) its field asks for.  Fields of  *)
(* a nested object are named after it.                                     *)
(***************************************************************************)
EXTENDS Integers, Tables

CONSTANTS
    IntegerMax,     \* greatest INTEGER of the database
    BigintMax       \* greatest BIGINT: both stand above every limit below

ASSUME WidthsAssumption == IntegerMax \in Nat /\ BigintMax \in Nat /\ 5242880 < IntegerMax /\ IntegerMax < BigintMax

NoLimit == BigintMax + 1
Value(type, size, form) == [type |-> type, size |-> size, form |-> form]
Absent == Value("undefined", 0, FALSE)

-----------------------------------------------------------------------------
(* The checks of validators.ts.                                            *)
Within(v, c) == c.min <= v.size /\ v.size <= c.max
CheckString(c, v) == v.type = "string" /\ Within(v, c) /\ (c.pattern => v.form)
CheckInteger(c, v) == v.type = "number" /\ v.form /\ Within(v, c)
CheckEnum(v) == v.type = "string" /\ v.form
CheckBoolean(v) == v.type = "boolean"
CheckArray(c, v) == v.type = "array" /\ Within(v, c)

Check(c, v) ==
    CASE c.check = "string"  -> CheckString(c, v)
      [] c.check = "integer" -> CheckInteger(c, v)
      [] c.check = "enum"    -> CheckEnum(v)
      [] c.check = "boolean" -> CheckBoolean(v)
      [] c.check = "array"   -> CheckArray(c, v)

Bounded(check, min, max, pattern) ==
    [check |-> check, min |-> min, max |-> max, pattern |-> pattern, required |-> TRUE, nullable |-> FALSE]
String(min, max) == Bounded("string", min, max, FALSE)
Text == String(0, NoLimit)
Uuid == Bounded("string", 0, NoLimit, TRUE)
Email(max) == Bounded("string", 0, max, TRUE)
Integer(min, max) == Bounded("integer", min, max, FALSE)
Enum == Bounded("enum", 0, NoLimit, FALSE)
Boolean == Bounded("boolean", 0, NoLimit, FALSE)
Array(min, max) == Bounded("array", min, max, FALSE)
Optional(c) == [c EXCEPT !.required = FALSE]
Nullable(c) == [c EXCEPT !.required = FALSE, !.nullable = TRUE]

-----------------------------------------------------------------------------
(* One validator per schema; closed: unknown properties are refused.       *)
Schema(closed, least, fields) == [closed |-> closed, least |-> least, fields |-> fields]
Open(fields) == Schema(FALSE, 0, fields)
Closed(fields) == Schema(TRUE, 0, fields)

Password == String(12, 128)
RegisterRequestWide ==          \* mutant: the limit of another field
    Open([display_name |-> String(2, 160), email |-> Email(254), password |-> Password,
          guest_session_id |-> Optional(Uuid)])
RegisterRequest == Open([display_name |-> String(2, 100), email |-> Email(254), password |-> Password,
                         guest_session_id |-> Optional(Uuid)])
LoginRequest == Open([email |-> Email(NoLimit), password |-> String(1, 128),
                      guest_session_id |-> Optional(Uuid)])
PasswordResetRequest == Open([email |-> Email(NoLimit)])
PasswordResetConfirmRequest == Open([token |-> String(32, 512), new_password |-> Password])
UpdateProfileRequest == Schema(FALSE, 1, [display_name |-> Optional(String(2, 100)),
                                          phone |-> Nullable(String(0, 30))])
PasswordChangeRequest == Closed([current_password |-> String(1, 128), new_password |-> Password])
CreateAdminUserRequest == Closed([display_name |-> String(2, 100), email |-> Email(254),
                                  phone |-> Nullable(String(0, 30))])
AdminActivationRequest == Closed([token |-> String(32, 512), new_password |-> Password])
DeliveryAddress == [recipient_name |-> String(2, 100), line1 |-> String(5, 180),
                    city |-> String(2, 100), phone |-> String(7, 30)]
CreateCheckoutRequest == Open(Joined({DeliveryAddress, [payment_provider |-> Enum]}))
CartItemMutationRequest == Open([product_id |-> Uuid, quantity |-> Integer(1, 999)])
SetCartItemQuantityRequest == Open([quantity |-> Integer(1, 999)])
CategoryWriteRequest == Open([name |-> String(2, 100), image_key |-> String(1, NoLimit)])
ProductImages == [images |-> Array(1, 10), images_key |-> Text, images_alt_text |-> String(0, 160),
                  images_position |-> Integer(0, NoLimit)]
ProductFields ==
    [category_id |-> Uuid, name |-> String(2, 160), description |-> String(1, 10000),
     regular_price_cop |-> Integer(0, NoLimit), sale_price_cop |-> Integer(0, NoLimit),
     unit |-> String(1, 40)]
ProductWriteRequest ==
    Open(Joined({ProductFields, ProductImages, [stock_on_hand |-> Integer(0, NoLimit)]}))
ProductUpdateRequest == Closed(Joined({ProductFields, ProductImages}))
(* An adjustment's size is its magnitude: zero alone is refused.           *)
StockAdjustmentRequest == Closed([quantity_delta |-> Integer(1, NoLimit), reason |-> String(3, 500)])
BannerWriteRequest == Open([name |-> String(2, 160), image_key |-> Text,
                            target_path |-> Nullable(Bounded("string", 0, NoLimit, TRUE)),
                            display_order |-> Integer(0, NoLimit), active |-> Boolean])
CreateUploadUrlRequest == Open([content_type |-> Enum, content_length |-> Integer(1, 5242880)])

Validators == [
    RegisterRequest |-> RegisterRequest, LoginRequest |-> LoginRequest,
    PasswordResetRequest |-> PasswordResetRequest,
    PasswordResetConfirmRequest |-> PasswordResetConfirmRequest,
    UpdateProfileRequest |-> UpdateProfileRequest, PasswordChangeRequest |-> PasswordChangeRequest,
    CreateAdminUserRequest |-> CreateAdminUserRequest, AdminActivationRequest |-> AdminActivationRequest,
    CreateCheckoutRequest |-> CreateCheckoutRequest, CartItemMutationRequest |-> CartItemMutationRequest,
    SetCartItemQuantityRequest |-> SetCartItemQuantityRequest, CategoryWriteRequest |-> CategoryWriteRequest,
    ProductWriteRequest |-> ProductWriteRequest, ProductUpdateRequest |-> ProductUpdateRequest,
    StockAdjustmentRequest |-> StockAdjustmentRequest, BannerWriteRequest |-> BannerWriteRequest,
    CreateUploadUrlRequest |-> CreateUploadUrlRequest]

AcceptsField(c, v) ==
    \/ ~c.required /\ v = Absent
    \/ c.nullable /\ v.type = "null"
    \/ Check(c, v)

(* A body is an object or not, has a property the schema does not name or  *)
(* not, and gives a value, or none, to each field it does.                 *)
Accepts(s, b) ==
    /\ b.object
    /\ s.closed => ~b.extra
    /\ s.least = 1 => b.extra \/ \E f \in DOMAIN b.fields : b.fields[f] # Absent
    /\ \A f \in DOMAIN s.fields : AcceptsField(s.fields[f], b.fields[f])

-----------------------------------------------------------------------------
(* The types of schemas.ts: the fields that are not simply strings.        *)
Numbers == {"quantity", "regular_price_cop", "sale_price_cop", "stock_on_hand", "images_position",
            "quantity_delta", "display_order", "content_length"}
TypeOfField(schema, f) ==
    CASE f \in Numbers -> {"number"}
      [] f = "images" -> {"array"}
      [] f = "active" -> {"boolean"}
      [] f = "guest_session_id" -> {"string", "undefined"}
      [] f = "target_path" \/ (f = "phone" /\ schema # "CreateCheckoutRequest") -> {"string", "null", "undefined"}
      [] f = "display_name" /\ schema = "UpdateProfileRequest" -> {"string", "undefined"}
      [] OTHER -> {"string"}

(* The columns with a width, of the tables each body is written to.        *)
UserColumns == [display_name |-> 100, email |-> 254, phone |-> 30]
CategoryColumns == [name |-> 100]
ProductColumns == [name |-> 160, unit |-> 40, stock_on_hand |-> IntegerMax, images_alt_text |-> 160,
                   images_position |-> IntegerMax, regular_price_cop |-> BigintMax, sale_price_cop |-> BigintMax]
BannerColumns == [name |-> 160, display_order |-> IntegerMax]
CartItemColumns == [quantity |-> IntegerMax]
AdjustmentColumns == [quantity_delta |-> IntegerMax, reason |-> 500]
OrderColumns == [recipient_name |-> 100, line1 |-> 180, city |-> 100, phone |-> 30]

Columns(schema) ==
    CASE schema \in {"RegisterRequest", "UpdateProfileRequest", "CreateAdminUserRequest"} -> UserColumns
      [] schema = "CategoryWriteRequest" -> CategoryColumns
      [] schema \in {"ProductWriteRequest", "ProductUpdateRequest"} -> ProductColumns
      [] schema = "BannerWriteRequest" -> BannerColumns
      [] schema \in {"CartItemMutationRequest", "SetCartItemQuantityRequest"} -> CartItemColumns
      [] schema = "StockAdjustmentRequest" -> AdjustmentColumns
      [] schema = "CreateCheckoutRequest" -> OrderColumns
      [] OTHER -> [f \in {} |-> 0]

Overflowing(schema, b) ==
    {f \in DOMAIN Columns(schema) \intersect DOMAIN b.fields : b.fields[f].size > Columns(schema)[f]}

-----------------------------------------------------------------------------
(* The bodies sent: the least one the validator takes, and those that      *)
(* differ from it in one field.                                            *)
JsonType(c) == IF c.check = "integer" THEN "number"
               ELSE IF c.check \in {"boolean", "array"} THEN c.check ELSE "string"
OtherType(c) == IF JsonType(c) = "string" THEN "number" ELSE "string"

Sizes(c) == {c.min - 1, c.min, c.max, c.max + 1, IntegerMax + 1, BigintMax + 1} \intersect 0..BigintMax + 1
ValuesOf(c) ==
    {Absent, Value("null", 0, FALSE), Value(OtherType(c), c.min, TRUE), Value(JsonType(c), c.min, FALSE)}
    \union {Value(JsonType(c), n, TRUE) : n \in Sizes(c)}

Body(object, extra, fields) == [object |-> object, extra |-> extra, fields |-> fields]
Least(s) == [f \in DOMAIN s.fields |-> Value(JsonType(s.fields[f]), s.fields[f].min, TRUE)]
Empty(s) == [f \in DOMAIN s.fields |-> Absent]
BodiesOf(s) ==
    {Body(TRUE, FALSE, Least(s)), Body(FALSE, FALSE, Least(s)), Body(TRUE, TRUE, Least(s)),
     Body(TRUE, FALSE, Empty(s))}
    \union UNION {{Body(TRUE, FALSE, [Least(s) EXCEPT ![f] = v]) : v \in ValuesOf(s.fields[f])} :
                    f \in DOMAIN s.fields}
=============================================================================
