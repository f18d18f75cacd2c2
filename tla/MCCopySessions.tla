---------------------------- MODULE MCCopySessions ----------------------------
(* Small instances of CopySessions: two events of one second.               *)
EXTENDS CopySessions, TLC

CONSTANTS pol, h, d

MCCreatedAt  == <<1, 1>>
MCRegistered == [p \in PolicyIds |-> [coefficient |-> h, expires |-> 2]]

Body(status, coefficient, bind) ==
  [status |-> status, coefficient |-> coefficient, bind |-> bind]
StatusBodies  == {Body("active", None, None)}
BindingBodies == {Body(None, d, None), Body(None, None, pol)}
=============================================================================
