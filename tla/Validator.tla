----------------------------- MODULE Validator -----------------------------
(***************************************************************************)
(* utils::Validator and the rules the handlers build with it.  A text is a *)
(* value; the constants say what the rules look at.                        *)
(***************************************************************************)
EXTENDS Naturals

CONSTANTS
  Texts,        \* bound: the strings of bodies
  LengthOf,     \* the length of each
  BlankTexts,   \* those of white space only, the empty one included
  MailTexts,    \* those the e-mail pattern matches
  LowerText     \* each in lower case

ASSUME ValidatorAssumption ==
  /\ LengthOf \in [Texts -> Nat]
  /\ BlankTexts \subseteq Texts /\ MailTexts \subseteq Texts
  /\ LowerText \in [Texts -> Texts]
  /\ \A x \in Texts : LowerText[LowerText[x]] = LowerText[x]

NotBlank(x) == x \notin BlankTexts
MinLength(x, min) == LengthOf[x] >= min
MaxLength(x, max) == LengthOf[x] <= max
Matches(x) == x \in MailTexts

ValidEmail(x) == NotBlank(x) /\ MaxLength(x, 255) /\ Matches(x)
ValidName(x) == NotBlank(x) /\ MaxLength(x, 255)
ValidPassword(x) == NotBlank(x) /\ MinLength(x, 8) /\ MaxLength(x, 100)
ValidReview(x) == NotBlank(x) /\ MaxLength(x, 2000)
=============================================================================
