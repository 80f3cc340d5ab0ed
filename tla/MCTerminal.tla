----------------------------- MODULE MCTerminal -----------------------------
(* Small instances of Terminal: a coin of 1 (s1), a coin of 2 (s2) and a   *)
(* locked coin (s3); s4 is what a payer gets when it changes a coin.       *)
EXTENDS Terminal

CONSTANTS s1, s2, s3, s4

Coin(s, a) == [secret |-> s, amount |-> a]
One == {Coin(s1, 1)}
Both == {Coin(s1, 1), Coin(s2, 2)}
ForMe == {Coin(s3, 1)}

Meets(tokens, events) ==
  [loaded |-> UNION tokens, tokens |-> tokens, events |-> events]
NoTrouble == Meets({One, Both}, {})
NoTroubleLocked == Meets({One, ForMe}, {})
Failing == Meets({One, Both}, {"kioskFails"})
FailingLocked == Meets({One, ForMe}, {"kioskFails"})
Receiving == Meets({One, Both}, {"receive"})
ReceivingFailing == Meets({One, Both}, {"receive", "kioskFails"})
(* A payer shows s4 before it has got it for s2. *)
TooEarly ==
  [loaded |-> Both, tokens |-> {One, {Coin(s1, 1), Coin(s4, 2)}}, events |-> {}]
(* One secret, signed for 1 and for 2. *)
SameSecret(events) ==
  Meets({One, {Coin(s1, 2)}, {Coin(s1, 1), Coin(s1, 2)}}, events)
AllEnvironments ==
  {NoTrouble, NoTroubleLocked, Failing, FailingLocked, Receiving,
   ReceivingFailing, TooEarly, SameSecret({}), SameSecret({"receive"})}
OnlyFailing == {Failing}
OnlyReceiving == {Receiving}
=============================================================================
