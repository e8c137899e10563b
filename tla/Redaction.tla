------------------------------ MODULE Redaction ------------------------------
(* What is taken out of a text or an event payload before it is stored:       *)
(* Redact, redactValue and RedactJSON of internal/conversation/redact.go, and *)
(* what AppendEvent and Record (sqlite.go) do around them.                    *)
(*                                                                            *)
(* A JSON value is a record                                                   *)
(*   [kind |-> "string", shapes, masked]   a text: the credential shapes the  *)
(*        patterns find in it, and whether it has a "[REDACTED]" in it        *)
(*   [kind |-> "number", value]            a number                           *)
(*   [kind |-> "scalar", value]            a Boolean or null                  *)
(*   [kind |-> "array", items]             items a sequence of values         *)
(*   [kind |-> "object", members]          members a function of the keys     *)
(* What the regular expressions match is not modelled, nor that a decoder     *)
(* keeps the last of two members with one key, and writes the replacement     *)
(* character for bytes that are no UTF-8.                                     *)
EXTENDS Naturals, Sequences

CONSTANTS Plain,       \* Plain[k]: the key k in lower case, without '-' and '_'
          Float64,     \* Float64[n]: the float64 next to the number n, or OutOfRange
          OutOfRange,  \* what 1e400 is
          MaxDepth,    \* how deep a payload nests (encoding/json stops at 10000)
          Nested       \* Nested[d]: values whose parts are of Nested[1 .. d - 1]

(* sensitivePatterns, by what they are for.                                   *)
Shape == {"bearer", "assignment", "quoted assignment", "bot token"}

IsValue(v, parts) ==
    \/ v \in [kind : {"string"}, shapes : SUBSET Shape, masked : BOOLEAN]
    \/ v \in [kind : {"number"}, value : DOMAIN Float64]
    \/ v \in [kind : {"scalar"}, value : STRING]
    \/ v \in [kind : {"array"}, items : Seq(parts)]
    \/ /\ v.kind = "object" /\ v = [kind |-> "object", members |-> v.members]
       /\ v.members \in [DOMAIN v.members -> parts]
Below(d) == UNION {Nested[e] : e \in 1 .. d - 1}
JSON == Below(MaxDepth + 1)

ASSUME NestedAssumption ==
    /\ MaxDepth \in Nat
    /\ \A d \in 1..MaxDepth : \A v \in Nested[d] : IsValue(v, Below(d))

-----------------------------------------------------------------------------
(* json.Unmarshal into an `any`: a number becomes a float64, and one that is  *)
(* out of its range, on whatever level, is an error of the whole.             *)
Number(n) == [kind |-> "number", value |-> n]
Undecodable == [kind |-> "undecodable"]

Unmarshal[v \in JSON] ==
    CASE v.kind = "object" ->
            LET parts == [k \in DOMAIN v.members |-> Unmarshal[v.members[k]]]
            IN  IF \E k \in DOMAIN parts : parts[k] = Undecodable THEN Undecodable ELSE [v EXCEPT !.members = parts]
      [] v.kind = "array" ->
            LET parts == [i \in DOMAIN v.items |-> Unmarshal[v.items[i]]]
            IN  IF \E i \in DOMAIN parts : parts[i] = Undecodable THEN Undecodable ELSE [v EXCEPT !.items = parts]
      [] v.kind = "number" -> IF Float64[v.value] = OutOfRange THEN Undecodable ELSE Number(Float64[v.value])
      [] OTHER -> v

(* The values looked at hold what they are decoded to.                        *)
ASSUME DecodedAssumption == \A v \in JSON : Unmarshal[v] \in JSON \cup {Undecodable}

-----------------------------------------------------------------------------
sensitiveKey(k) ==
    Plain[k] \in {"authorization", "apikey", "token", "accesstoken", "refreshtoken",
                  "bottoken", "secret", "clientsecret", "password"}

String(shapes) == [kind |-> "string", shapes |-> shapes, masked |-> FALSE]
Masked == [kind |-> "string", shapes |-> {}, masked |-> TRUE]     \* "[REDACTED]"

(* Each pattern replaces all its matches, in turn; what is put in is no match *)
(* that a later pattern, or a second pass, would change.                      *)
Redact(s) ==
    IF s.shapes = {} THEN s ELSE [s EXCEPT !.shapes = {}, !.masked = TRUE]

(* The loop over the members of an object, whose other values f rewrites.     *)
redactMembersTexts(f, members) ==     \* mutant: the key is asked only about strings
    [k \in DOMAIN members |->
        IF sensitiveKey(k) /\ members[k].kind = "string" THEN Masked ELSE f[members[k]]]
redactMembers(f, members) ==
    [k \in DOMAIN members |-> IF sensitiveKey(k) THEN Masked ELSE f[members[k]]]

redactValue[v \in JSON] ==
    CASE v.kind = "object" -> [v EXCEPT !.members = redactMembers(redactValue, @)]
      [] v.kind = "array" -> [v EXCEPT !.items = [i \in DOMAIN @ |-> redactValue[@[i]]]]
      [] v.kind = "string" -> Redact(v)
      [] OTHER -> v

-----------------------------------------------------------------------------
(* A payload: the bytes a caller hands over are nothing, no JSON, or a value. *)
NoBytes == [kind |-> "absent"]
NoJSON == [kind |-> "invalid"]

EmptyObject == [kind |-> "object", members |-> <<>>]
(* {"redacted":"invalid payload"}                                             *)
InvalidPayload == [kind |-> "object", members |-> [note |-> String({})]]

(* Marshal of what Unmarshal gave cannot fail: every number in it is finite.  *)
RedactJSON(raw) ==
    IF raw \in {NoBytes, NoJSON} THEN InvalidPayload
    ELSE IF Unmarshal[raw] = Undecodable THEN InvalidPayload
    ELSE redactValue[Unmarshal[raw]]

StoredPayload(raw) == IF raw = NoBytes THEN EmptyObject ELSE RedactJSON(raw)
=============================================================================
