------------------------------- MODULE Values --------------------------------
(* Optional values and JSON-like objects, shared by the modules of the data  *)
(* path.  An object is a function from field names to values.                *)
EXTENDS Integers, Sequences

CONSTANT None    \* an absent or null value; a model value

Get(object, field) == IF field \in DOMAIN object THEN object[field] ELSE None
Nth(seq, i)        == IF i \in DOMAIN seq THEN seq[i] ELSE None
Else(a, b)         == IF a # None THEN a ELSE b         \* Option::or
Some(a)            == a # None
OrZero(a)          == IF a # None THEN a ELSE 0
Keep(a, cond)      == IF Some(a) /\ cond THEN a ELSE None
MinOf(a, b)        == IF a <= b THEN a ELSE b
MaxOf(a, b)        == IF a >= b THEN a ELSE b

(* The ones of two that pass, in order: Iterator::filter on a pair.          *)
Those(a, b, Test(_)) == (IF Test(a) THEN <<a>> ELSE <<>>) \o (IF Test(b) THEN <<b>> ELSE <<>>)
=============================================================================
