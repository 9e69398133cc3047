-------------------------------- MODULE Khqr --------------------------------
(***************************************************************************)
(* services/khqr.py: the text of a payment QR, a flat sequence of fields,  *)
(* each a two-digit tag, a two-digit length and that many characters; and  *)
(* how the text is read back - by khqr_expired, by the template builder,   *)
(* by scripts/decode_khqr.py, by the customer's bank.                      *)
(*                                                                         *)
(* A text is a sequence of code points.  The checksum's four characters    *)
(* are left blank: nothing in the service reads them.                      *)
(***************************************************************************)
EXTENDS Integers, Sequences, SequencesExt

CONSTANTS
  Setups,   \* what BAKONG_ACCOUNT_*, KHQR_STATIC_TEMPLATE and the settings hold
  Amounts,  \* in cents
  Bills,    \* order numbers
  Moments   \* readings of the clock, in ms

VARIABLE qr  \* the last QR built, with what it was built from

-----------------------------------------------------------------------------
(* Numbers and fields as text.                                              *)

Digit(d) == 48 + d
IsDigit(ch) == ch \in 48 .. 57

Decimal(n) ==
  LET digits[k \in 0 .. n] == IF k < 10 THEN <<Digit(k)>> ELSE Append(digits[k \div 10], Digit(k % 10))
  IN  digits[n]

Number(text) ==
  LET value[k \in 0 .. Len(text)] == IF k = 0 THEN 0 ELSE 10 * value[k - 1] + (text[k] - 48)
  IN  value[Len(text)]

TwoDigits(n) == IF n < 10 THEN <<Digit(0), Digit(n)>> ELSE Decimal(n)

(* f"{amount:.2f}" *)
Money(cents) == Decimal(cents \div 100) \o <<46>> \o TwoDigits(cents % 100)

Cut(text, n) == SubSeq(text, 1, IF Len(text) < n THEN Len(text) ELSE n)

(* Mutant: the length is not padded. *)
TlvUnpadded(tag, value) == TwoDigits(tag) \o Decimal(Len(value)) \o value

Tlv(tag, value) == TwoDigits(tag) \o TwoDigits(Len(value)) \o value

-----------------------------------------------------------------------------
(* Reading.                                                                 *)

Broken == <<<<>>, <<>>>>

(* The fields of a text, in order; a length that is no number ends them     *)
(* with Broken, a tail too short for a field is left.                       *)
ParseTlv(text) ==
  LET from[i \in Nat] ==
        IF i + 3 > Len(text) THEN <<>>
        ELSE IF ~(IsDigit(text[i + 2]) /\ IsDigit(text[i + 3])) THEN <<Broken>>
        ELSE LET length == Number(SubSeq(text, i + 2, i + 3))
                 value  == Cut(SubSeq(text, i + 4, Len(text)), length)
             IN  <<<<SubSeq(text, i, i + 1), value>>>> \o from[i + 4 + length]
  IN  from[1]

(* dict(fields).get(tag, ""): the last field of that tag. *)
Field(text, tag) ==
  LET hits == {k \in DOMAIN ParseTlv(text) : ParseTlv(text)[k][1] = TwoDigits(tag)}
  IN  IF hits = {} THEN <<>> ELSE ParseTlv(text)[Max(hits)][2]

Malformed(text) == Contains(ParseTlv(text), Broken)

(* What cannot be read does not expire. *)
KhqrExpired(text, now) ==
  LET stamps == Field(text, 99)
      expiry == Field(stamps, 1)
  IN  /\ ~Malformed(text) /\ ~Malformed(stamps)
      /\ expiry # <<>> /\ \A k \in DOMAIN expiry : IsDigit(expiry[k])
      /\ Number(expiry) < now

-----------------------------------------------------------------------------
(* Building.                                                                *)

AccountTags == 26 .. 51
UsDollar == <<56, 52, 48>>
Retail   == <<53, 57, 57, 57>>
Cambodia == <<75, 72>>

OrElse(text, otherwise) == IF text # <<>> THEN text ELSE otherwise
Optional(tag, text) == IF text = <<>> THEN <<>> ELSE Tlv(tag, Cut(text, 32))

Sealed(payload) == payload \o <<54, 51, 48, 52>> \o <<32, 32, 32, 32>>

Account(s) ==
  Tlv(0, Cut(s.account, 32)) \o Optional(1, s.information) \o Optional(2, s.bank)

Expiry(s, now) == now + s.minutes * 60000

FromAccountId(s, cents, bill, now) ==
  Sealed(Tlv(0, TwoDigits(1)) \o Tlv(1, TwoDigits(12)) \o Tlv(29, Account(s))
         \o Tlv(52, Retail) \o Tlv(53, UsDollar) \o Tlv(54, Money(cents))
         \o Tlv(58, Cambodia) \o Tlv(59, Cut(s.name, 25)) \o Tlv(60, Cut(s.city, 15))
         \o Tlv(62, Tlv(1, Cut(bill, 25)))
         \o Tlv(99, Tlv(0, Decimal(now)) \o Tlv(1, Decimal(Expiry(s, now)))))

(* The payee's tags of the bank's own static QR, in ascending order.        *)
Copied(template) ==
  FlattenSeq([k \in 1 .. 26 |->
    LET tag == 25 + k
    IN  IF \E f \in ToSet(ParseTlv(template)) : f[1] = TwoDigits(tag)
        THEN Tlv(tag, Field(template, tag)) ELSE <<>>])

FromTemplate(s, cents, bill, now) ==
  LET given(tag) == Field(s.template, tag)
  IN  Sealed(Tlv(0, TwoDigits(1)) \o Tlv(1, TwoDigits(12)) \o Copied(s.template)
             \o Tlv(52, OrElse(given(52), Retail)) \o Tlv(53, UsDollar) \o Tlv(54, Money(cents))
             \o Tlv(58, OrElse(given(58), Cambodia))
             \o Tlv(59, Cut(OrElse(given(59), s.name), 25)) \o Tlv(60, Cut(OrElse(given(60), s.city), 15))
             \o Tlv(62, Tlv(1, Cut(bill, 25))) \o Tlv(99, Tlv(0, Decimal(now))))

(* An account id is preferred; a template with no payee in it is refused.   *)
BuildKhqr(s, cents, bill, now) ==
  IF s.account # <<>> THEN FromAccountId(s, cents, bill, now)
  ELSE IF ~Malformed(s.template) /\ Copied(s.template) # <<>>
       THEN FromTemplate(s, cents, bill, now)
  ELSE <<>>

(* A QR that has not expired is given again.                                *)
NewQr ==
  \E s \in Setups, cents \in Amounts, bill \in Bills, now \in Moments :
    /\ qr # <<>> => qr.now <= now /\ KhqrExpired(qr.payload, now)
    /\ BuildKhqr(s, cents, bill, now) # <<>>
    /\ qr' = [setup |-> s, cents |-> cents, bill |-> bill, now |-> now,
              payload |-> BuildKhqr(s, cents, bill, now)]

KhqrInit == qr = <<>>

KhqrSpec == KhqrInit /\ [][NewQr]_qr

(* An amount is a numeric(10, 2); a time in ms has 13 digits until 2286.    *)
ASSUME QrAssumption ==
  /\ \A s \in Setups :
       /\ {s.account, s.information, s.bank, s.template, s.name, s.city} \subseteq Seq(Nat)
       /\ s.minutes \in Nat
       /\ \A now \in Moments : Len(Decimal(Expiry(s, now))) <= 13
  /\ \A cents \in Amounts : cents \in Nat /\ Len(Money(cents)) <= 11
  /\ Bills \subseteq Seq(Nat)
  /\ \A now \in Moments : now \in Nat /\ Len(Decimal(now)) <= 13

-----------------------------------------------------------------------------
(* A QR says to its readers what it was built from: the amount, the number  *)
(* staff look for at the bank, the whole of the payee, and when it stops    *)
(* being payable - at that moment and not before khqr_expired lets a        *)
(* customer have another.  One condition: the three parts of an account,    *)
(* "<=32" each, together fit the two digits of a length; at their limits    *)
(* they take 108 characters and the text cannot be read back.               *)
QrReadsBack ==
  qr # <<>> /\ (qr.setup.account # <<>> => Len(Account(qr.setup)) <= 99) =>
    LET says(tag) == Field(qr.payload, tag)
        s == qr.setup
    IN  /\ says(54) = Money(qr.cents)
        /\ Field(says(62), 1) = Cut(qr.bill, 25)
        /\ IF s.account # <<>>
           THEN /\ Field(says(29), 0) = Cut(s.account, 32)
                /\ Field(says(29), 1) = Cut(s.information, 32)
                /\ Field(says(29), 2) = Cut(s.bank, 32)
           ELSE \A tag \in AccountTags : says(tag) = Field(s.template, tag)
        /\ \A later \in {Expiry(s, qr.now), Expiry(s, qr.now) + 1} :
             KhqrExpired(qr.payload, later) <=> s.account # <<>> /\ later > Expiry(s, qr.now)

(* _parse_tlv is "the inverse of _tlv()": the payee of every QR that can be *)
(* built is read back from it, whatever the parts of the account are.       *)
(* The code does not keep it (README, section 6).                           *)
PayeeReadsBack ==
  qr # <<>> /\ qr.setup.account # <<>> =>
    /\ Field(Field(qr.payload, 29), 0) = Cut(qr.setup.account, 32)
    /\ Field(Field(qr.payload, 29), 1) = Cut(qr.setup.information, 32)
    /\ Field(Field(qr.payload, 29), 2) = Cut(qr.setup.bank, 32)
=============================================================================
