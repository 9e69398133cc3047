--------------------------- MODULE MCSettingsCache ---------------------------
(* An instance of SettingsCache for TLC: one setting of each validated kind *)
(* that the forms touch, and the forms an administrator could send.        *)
EXTENDS SettingsCache

CONSTANTS p1, p2, r1, r2

Number(n) == [number |-> n]
Word(t) == [text |-> t]
Flag(b) == [bool |-> b]

SomeSettings == [
  khqr_expiry_minutes |-> [type |-> "number", default |-> Number(10), minimum |-> 1, maximum |-> 1440],
  quote_qr |-> [type |-> "image", default |-> Word(""), minimum |-> 0, maximum |-> 0]]

SomeForms == {
  [khqr_expiry_minutes |-> Number(5), quote_qr |-> Word("/static/pic")],
  [khqr_expiry_minutes |-> Number(7)],
  [khqr_expiry_minutes |-> Number(10)],
  [khqr_expiry_minutes |-> Number(7), quote_qr |-> Word("javascript:")]}

SomeGroups == {{"khqr_expiry_minutes"}}
=============================================================================
