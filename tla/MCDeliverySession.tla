------------------------- MODULE MCDeliverySession -------------------------
(***************************************************************************)
(* Two bins and two users.  A default bin that is full at the start can be *)
(* opened by a tap on its picture later.                                   *)
(***************************************************************************)
EXTENDS DeliverySession, TLC

CONSTANTS other, kitchen, alice, bob

TwoDoors     == {other, kitchen}
TwoUsers     == {alice, bob}
OneUser      == {alice}
UserSymmetry == Permutations(TwoUsers)
=============================================================================
