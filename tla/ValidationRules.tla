---------------------------- MODULE ValidationRules ----------------------------
(***************************************************************************)
(* The message validators that protoc-gen-validate generated from the      *)
(* protocol definitions.  Every message has the same three functions       *)
(* (Validate, ValidateAll, validate), which differ in the rules they walk  *)
(* through.  Here a message type is its name and its rules in the order of *)
(* the code, and the walk through them is written once.                    *)
(*                                                                         *)
(* A message is a function on the fields that have rules.  A string, list, *)
(* map or number is represented by its length or value, an embedded        *)
(* message by a message or Nil, a repeated one by its length and the       *)
(* leading items, after which no item breaks a rule, a oneof by Nil or its *)
(* case and message.  (A oneof wrapper that is a typed nil, which no       *)
(* decoder returns, is left out: ValidateAll would dereference it.)        *)
(***************************************************************************)
EXTENDS Integers, Sequences, FiniteSets, SequencesExt

CONSTANT Nil    \* the nil pointer: a message that is not there

Message(name, rules) == [name |-> name, rules |-> rules]

----------------------------------------------------------------------------
(* The forms of rules. *)

Unbounded == 2147483647

AtMost(field, n) == [form |-> "most", field |-> field, lo |-> 0, hi |-> n]
Between(field, m, n) == [form |-> "between", field |-> field, lo |-> m, hi |-> n]
AtLeast(field, n) == [form |-> "least", field |-> field, lo |-> n, hi |-> Unbounded]
AtLeastUnsigned(field, n) == [form |-> "unsigned", field |-> field, lo |-> n, hi |-> Unbounded]
NumItems(field, m, n) == [form |-> "items", field |-> field, lo |-> m, hi |-> n]
NotZero(field) == [form |-> "notzero", field |-> field]
Defined(field, values) == [form |-> "defined", field |-> field, values |-> values]
Required(field) == [form |-> "required", field |-> field]
Embedded(field, msg) == [form |-> "embedded", field |-> field, of |-> msg]
Each(field, msg) == [form |-> "each", field |-> field, of |-> msg]
Oneof(field, cases) == [form |-> "oneof", field |-> field, cases |-> cases]

(* An enum field must hold a defined value that is not zero. *)
Enum(field, values) == <<NotZero(field), Defined(field, values)>>

----------------------------------------------------------------------------
(* The walk. *)

(* A ValidationError: its type, field (with the index of a repeated        *)
(* field's item, zero for none), reason and cause.                         *)
ValidationError(name, field, idx, reason, cause) ==
    [in |-> name, field |-> field, idx |-> idx, reason |-> reason, cause |-> cause]

(* The comparisons of the generated code. *)
TooMany(v, n) == v > n
TooFew(v, n) == v < n
Outside(v, m, n) == TooFew(v, m) \/ TooMany(v, n)

(* Whether the value v of a field breaks rule r, for the rules on the      *)
(* field itself.                                                           *)
Breaks(r, v) ==
    CASE r.form = "most" -> TooMany(v, r.hi)
      [] r.form = "between" -> Outside(v, r.lo, r.hi)
      [] r.form \in {"least", "unsigned"} -> TooFew(v, r.lo)
      [] r.form = "items" -> Outside(v.len, r.lo, r.hi)
      [] r.form = "notzero" -> v = 0
      [] r.form = "defined" -> v \notin r.values
      [] r.form = "required" -> v = Nil

(* The embedded messages rule r looks into. *)
Inner(r, v) ==
    CASE r.form = "embedded" -> <<[field |-> r.field, idx |-> 0, of |-> r.of, msg |-> v]>>
      [] r.form = "each" -> [i \in DOMAIN v.items |->
                                [field |-> r.field, idx |-> i, of |-> r.of, msg |-> v.items[i]]]
      [] r.form = "oneof" -> IF v = Nil THEN <<>>
                             ELSE <<[field |-> v.case, idx |-> 0,
                                     of |-> r.cases[v.case], msg |-> v.msg]>>
      [] OTHER -> <<>>

Looks(r) == r.form \in {"embedded", "each", "oneof"}

(* Fault: Validate remembers the error and goes on. *)
CollectLast(all, errors, err) == IF all THEN errors \o err ELSE IF err = <<>> THEN errors ELSE err

(* Validate returns at the first error; ValidateAll goes on and appends.   *)
Collect(all, errors, err) == IF ~all /\ errors # <<>> THEN errors ELSE errors \o err

(* Fault: ValidateAll calls Validate on the embedded messages. *)
DeeperFirstOnly(all) == FALSE

(* An embedded message is validated the way its parent is. *)
Deeper(all) == all

(* validate of message type s: the errors it finds in message m, in order. *)
RECURSIVE validate(_, _, _)
validate(s, m, all) ==
    LET InnerErrors(r, v) ==
            FoldLeft(LAMBDA errors, e :
                LET cause == validate(e.of, e.msg, Deeper(all))
                IN  Collect(all, errors,
                        IF cause = <<>> THEN <<>>
                        ELSE <<ValidationError(s.name, e.field, e.idx, "embedded", cause)>>),
                <<>>, Inner(r, v))
        Errors(r, v) ==
            IF Looks(r) THEN InnerErrors(r, v)
            ELSE IF Breaks(r, v) THEN <<ValidationError(s.name, r.field, 0, r.form, <<>>)>>
            ELSE <<>>
    IN  IF m = Nil
        THEN <<>>
        ELSE FoldLeft(LAMBDA errors, r : Collect(all, errors, Errors(r, m[r.field])),
                      <<>>, s.rules)

Validate(s, m) == validate(s, m, FALSE)
ValidateAll(s, m) == validate(s, m, TRUE)
================================================================================
