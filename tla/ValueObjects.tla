---------------------------- MODULE ValueObjects ----------------------------
(***************************************************************************)
(* The value objects that keys are made of: CpfCnpj.create and             *)
(* Plate.create.  A behaviour is somebody typing a value symbol by symbol: *)
(* the stem of a document, without its two check digits, or a plate.       *)
(***************************************************************************)
EXTENDS Naturals, Sequences

CONSTANTS
  Typeable,    \* the digits tried in a stem
  MaxPlate     \* bound on the symbols tried in a plate

Digit == 0..9

\* A plate is letters (upper or lower case), digits, hyphens and blanks.
Symbol == {"A", "a", "0", "-", " "}

ASSUME TypeableAssumption == Typeable \subseteq Digit /\ MaxPlate \in Nat

VARIABLES
  field,    \* what is being typed
  typed    \* what has been typed

typing == <<field, typed>>

-----------------------------------------------------------------------------
(* CpfCnpj: documents as sequences of digits.                              *)

Repeated(d) == \A i \in DOMAIN d : d[i] = d[1]

CpfSum1(d) ==
  10 * d[1] + 9 * d[2] + 8 * d[3] + 7 * d[4] + 6 * d[5] + 5 * d[6] + 4 * d[7] + 3 * d[8] + 2 * d[9]

CpfSum2(d) ==
  11 * d[1] + 10 * d[2] + 9 * d[3] + 8 * d[4] + 7 * d[5] + 6 * d[6] + 5 * d[7] + 4 * d[8]
    + 3 * d[9] + 2 * d[10]

CnpjSum1(d) ==
  5 * d[1] + 4 * d[2] + 3 * d[3] + 2 * d[4] + 9 * d[5] + 8 * d[6] + 7 * d[7] + 6 * d[8]
    + 5 * d[9] + 4 * d[10] + 3 * d[11] + 2 * d[12]

CnpjSum2(d) ==
  6 * d[1] + 5 * d[2] + 4 * d[3] + 3 * d[4] + 2 * d[5] + 9 * d[6] + 8 * d[7] + 7 * d[8]
    + 6 * d[9] + 5 * d[10] + 4 * d[11] + 3 * d[12] + 2 * d[13]

CpfDigit(sum) == LET remainder == (sum * 10) % 11
                 IN  IF remainder = 10 THEN 0 ELSE remainder

\* Fault: a remainder of 1 is not turned into 0.
CnpjDigitUnfolded(sum) == LET remainder == sum % 11
                          IN  IF remainder < 1 THEN 0 ELSE 11 - remainder

CnpjDigit(sum) == LET remainder == sum % 11
                  IN  IF remainder < 2 THEN 0 ELSE 11 - remainder

ValidateCpf(d) ==
  ~Repeated(d) /\ d[10] = CpfDigit(CpfSum1(d)) /\ d[11] = CpfDigit(CpfSum2(d))

ValidateCnpj(d) ==
  ~Repeated(d) /\ d[13] = CnpjDigit(CnpjSum1(d)) /\ d[14] = CnpjDigit(CnpjSum2(d))

-----------------------------------------------------------------------------
(* Plate.                                                                  *)

Upper(c) == IF c = "a" THEN "A" ELSE c

UpperCase(raw) == [i \in DOMAIN raw |-> Upper(raw[i])]

\* replace: the symbols that are not dropped, in their order.
Without(raw, dropped) ==
  LET kept[n \in 0..Len(raw)] ==
        IF n = 0 THEN <<>>
        ELSE IF raw[n] \in dropped THEN kept[n - 1] ELSE Append(kept[n - 1], raw[n])
  IN  kept[Len(raw)]

\* The trim is in what is dropped.
Normalize(raw) == UpperCase(Without(raw, {"-", " "}))

OldPlate == <<"A", "A", "A", "0", "0", "0", "0">>
MercosulPlate == <<"A", "A", "A", "0", "A", "0", "0">>

\* Fault: only the hyphens are taken out.
PlateProbeWithBlanks(raw) == Without(UpperCase(raw), {"-"})

\* What RegisterVehicleUseCase looks for: there is no trim, and no need of one.
PlateProbe(raw) == Without(UpperCase(raw), {"-", " "})

\* Plate.create, for values that it accepts.
PlateAccepted(raw) == Normalize(raw) \in {OldPlate, MercosulPlate}

-----------------------------------------------------------------------------
TypingInit == field \in {"cpf", "cnpj", "plate"} /\ typed = <<>>

Alphabet == IF field = "plate" THEN Symbol ELSE Typeable
Length == CASE field = "cpf" -> 9 [] field = "cnpj" -> 12 [] field = "plate" -> MaxPlate

Type ==
  /\ Len(typed) < Length
  /\ \E c \in Alphabet : typed' = Append(typed, c)
  /\ UNCHANGED field

TypingSpec == TypingInit /\ [][Type]_typing

-----------------------------------------------------------------------------
\* The rule both documents follow: the check digit completes the weighted sum to
\* a multiple of 11, and it is 0 where that would take a 10.
OfficialDigit(sum) ==
  IF \E c \in Digit : (sum + c) % 11 = 0
  THEN CHOOSE c \in Digit : (sum + c) % 11 = 0
  ELSE 0

\* However a stem is completed, the document is accepted iff its digits are the
\* official ones and are not all the same: two different computations in the
\* code, one rule.
DocumentsAreOfficial ==
  \A a, b \in Digit :
    LET d == typed \o <<a, b>>
    IN  /\ field = "cpf" /\ Len(typed) = 9 =>
             (ValidateCpf(d) <=>
                ~Repeated(d) /\ a = OfficialDigit(CpfSum1(d)) /\ b = OfficialDigit(CpfSum2(d)))
        /\ field = "cnpj" /\ Len(typed) = 12 =>
             (ValidateCnpj(d) <=>
                ~Repeated(d) /\ a = OfficialDigit(CnpjSum1(d)) /\ b = OfficialDigit(CnpjSum2(d)))

\* A plate that is accepted is looked for as it will be stored, and the stored
\* value is accepted again unchanged when the row is loaded, so that a row never
\* makes reconstitute() throw.
StoredPlatesLoad ==
  field = "plate" /\ PlateAccepted(typed) =>
    /\ PlateProbe(typed) = Normalize(typed)
    /\ PlateAccepted(Normalize(typed)) /\ Normalize(Normalize(typed)) = Normalize(typed)
=============================================================================
