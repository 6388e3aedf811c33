---------------------------- MODULE PhoneNumbers -----------------------------
(* One subscriber, whose number is spelled in every way a network, a dialler, *)
(* an app or a person spells it: the key the CRM files it under, the suffix   *)
(* it falls back to, and the digits a call in an app is placed with.          *)
EXTENDS Naturals, Sequences, SequencesExt

CONSTANTS
    Numbers,                \* national numbers, as sequences of digits
    CountryCodes,           \* the code that is configured; <<>> when none is
    HomeCode,               \* the code of the subscriber's country
    SignificantDigits

\* No national number begins with the trunk's digit or is shorter than the suffix; and the country is
\* configured or not.
ASSUME NumbersAssumption ==
    /\ SignificantDigits \in Nat \ {0}
    /\ HomeCode \in Seq(Nat) /\ HomeCode # <<>> /\ HomeCode[1] # 0
    /\ CountryCodes \subseteq {<<>>, HomeCode}
    /\ \A n \in Numbers : n \in Seq(Nat) /\ n # <<>> /\ n[1] # 0 /\ Len(n) >= SignificantDigits

VARIABLES
    defaultCountryCode,
    owner,                  \* the subscriber a contact was filed with, <<>> when none
    card                    \* the numbers on that contact

numberVars == <<defaultCountryCode, owner, card>>

Forms == {"plus", "jid", "access", "trunk", "national", "bare"}

\* How the number n is written: [mark, digits].
Spelled(form, n) ==
    CASE form \in {"plus", "jid"} -> [mark |-> form, digits |-> HomeCode \o n]
      [] form = "access"          -> [mark |-> "none", digits |-> <<0, 0>> \o HomeCode \o n]
      [] form = "trunk"           -> [mark |-> "none", digits |-> <<0>> \o n]
      [] form = "national"        -> [mark |-> "none", digits |-> n]
      [] form = "bare"            -> [mark |-> "none", digits |-> HomeCode \o n]

WithoutTrunk(digits) == IF Len(digits) > 1 /\ Head(digits) = 0 THEN Tail(digits) ELSE digits

----------------------------------------------------------------------------
(* normalizePhone *)

IsComplete_Longer(national, code) ==
    IsPrefix(code, national) /\ Len(national) - Len(code) > SignificantDigits

\* The code counts as there when a whole number follows it.
IsComplete(national, code) ==
    IsPrefix(code, national) /\ Len(national) - Len(code) >= SignificantDigits

WithCountryCode(digits) ==
    LET national == WithoutTrunk(digits)
    IN IF IsComplete(national, defaultCountryCode) THEN national ELSE defaultCountryCode \o national

IsAccess(digits) == IsPrefix(<<0, 0>>, digits)

E164(raw) ==
    CASE raw.mark # "none"                                  -> raw.digits
      [] raw.mark = "none" /\ IsAccess(raw.digits)          -> SubSeq(raw.digits, 3, Len(raw.digits))
      [] raw.mark = "none" /\ ~IsAccess(raw.digits) /\ defaultCountryCode # <<>> -> WithCountryCode(raw.digits)
      [] OTHER                                              -> raw.digits

Known(raw) == raw.mark # "none" \/ IsAccess(raw.digits) \/ defaultCountryCode # <<>>

Suffix(digits) ==
    IF Len(digits) <= SignificantDigits THEN digits
    ELSE SubSeq(digits, Len(digits) - SignificantDigits + 1, Len(digits))

NormalizePhone(raw) == [known |-> Known(raw), key |-> E164(raw), suffix |-> Suffix(E164(raw))]

----------------------------------------------------------------------------
(* deepLinkDigits *)

DeepLinkDigits(raw) ==
    CASE raw.mark = "plus"                             -> raw.digits
      [] raw.mark # "plus" /\ IsAccess(raw.digits)     -> SubSeq(raw.digits, 3, Len(raw.digits))
      [] raw.mark # "plus" /\ ~IsAccess(raw.digits) /\ defaultCountryCode = <<>> -> raw.digits
      [] OTHER -> LET national == WithoutTrunk(raw.digits)
                  IN IF IsPrefix(defaultCountryCode, national) THEN national
                     ELSE defaultCountryCode \o national

----------------------------------------------------------------------------

NumbersInit ==
    /\ defaultCountryCode \in CountryCodes
    /\ owner = <<>> /\ card = {}

AddPhone(form, n) ==
    /\ owner \in {<<>>, n}
    /\ owner' = n
    /\ card' = {e \in card : e.key # NormalizePhone(Spelled(form, n)).key \/ e.known # NormalizePhone(Spelled(form, n)).known}
                 \cup {NormalizePhone(Spelled(form, n))}
    /\ UNCHANGED defaultCountryCode

RemovePhone(form, n) ==
    /\ owner = n
    /\ card' = {e \in card : e.key # NormalizePhone(Spelled(form, n)).key \/ e.known # NormalizePhone(Spelled(form, n)).known}
    /\ UNCHANGED <<defaultCountryCode, owner>>

NumbersNext == \E form \in Forms, n \in Numbers : AddPhone(form, n) \/ RemovePhone(form, n)

----------------------------------------------------------------------------
(* Properties *)

\* A number that itself begins with the digits of the code is the case the source gives up.
Distinct(n) == ~IsPrefix(HomeCode, n)

\* With the country configured, one entry is on the contact however often and in whatever spelling
\* its number was added, and every spelling finds it (phone.ts:4-8).
EverySpellingMeets ==
    defaultCountryCode = HomeCode /\ owner # <<>> /\ Distinct(owner) /\ card # {}
        => \A form \in Forms : card = {NormalizePhone(Spelled(form, owner))}

\* Without it, the fallback still finds the contact from every spelling (phone.ts:39-50).
SuffixMeets ==
    owner # <<>> /\ card # {}
        => \A form \in Forms, e \in card : NormalizePhone(Spelled(form, owner)).suffix = e.suffix

\* A call in an app rings the one whose number the CRM files the call under
\* (voipDialer.ts:164-169).
DialsTheCard ==
    owner # <<>> /\ Distinct(owner)
        => \A form \in Forms \ {"jid"} :
               DeepLinkDigits(Spelled(form, owner)) = NormalizePhone(Spelled(form, owner)).key

\* One card for one number, however it is written, and what is dialled is the number of the card.
NumbersMeet == EverySpellingMeets /\ SuffixMeets /\ DialsTheCard
=============================================================================
