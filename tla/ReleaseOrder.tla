---------------------------- MODULE ReleaseOrder ----------------------------
(***************************************************************************)
(* The order of the Raiden releases, as RaidenClient and RaidenNightly     *)
(* define it, and the release a tag of the nightlies names.                *)
(*                                                                         *)
(* The parts of a version are the strings the file name has: they are      *)
(* compared as strings, whatever their numbers.                            *)
(***************************************************************************)
EXTENDS Integers, Sequences

\* Bound: numbers of at most three digits, without leading zeros.
Numbers == 0 .. 999

\* The place of a number's string among all of them: "1", "10", "100", "101", ...
Place(n) ==
  IF n < 10 THEN 111 * n
  ELSE IF n < 100 THEN 111 * (n \div 10) + 11 * (n % 10) + 1
  ELSE 111 * (n \div 100) + 11 * ((n \div 10) % 10) + (n % 10) + 2

\* `<' on the strings.
Before(m, n) == Place(m) < Place(n)

NoModifier == "none"

\* What extract_version_modifier makes of the word before the number: it does not know
\* `dev', and of no word it makes None.
Modifiers ==
  [none |-> NoModifier, dev |-> NoModifier, a |-> "alpha", alpha |-> "alpha",
   b |-> "beta", beta |-> "beta", rc |-> "rc"]

\* A version, and the word and the number of its extra part.
Releases ==
  [major : Numbers, minor : Numbers, revision : Numbers,
   word : DOMAIN Modifiers, number : Numbers]

Modifier(r) == Modifiers[r.word]

\* order_version_modifier: the index among dev, alpha, beta, rc, or else -1.
NotAType == -1
Order(modifier) ==
  CASE modifier = "alpha" -> 1 [] modifier = "beta" -> 2 [] modifier = "rc" -> 3
    [] OTHER -> NotAType

SameVersion(r, s) == r.major = s.major /\ r.minor = s.minor /\ r.revision = s.revision

VersionBefore(r, s) ==
  \/ Before(r.major, s.major)
  \/ r.major = s.major /\ Before(r.minor, s.minor)
  \/ r.major = s.major /\ r.minor = s.minor /\ Before(r.revision, s.revision)

NumberBefore(r, s) ==
  /\ Modifier(r) = Modifier(s) /\ Modifier(r) # NoModifier
  /\ Before(r.number, s.number)

\* __eq__: without a modifier there is no number either.
Equal(r, s) ==
  /\ SameVersion(r, s) /\ Modifier(r) = Modifier(s)
  /\ Modifier(r) = NoModifier \/ r.number = s.number

\* __lt__, which asks for the order of the other's number: no number is a type.
Less(r, s) ==
  \/ VersionBefore(r, s)
  \/ /\ SameVersion(r, s)
     /\ \/ Modifier(r) # Modifier(s) /\ Order(Modifier(r)) < NotAType
        \/ NumberBefore(r, s)

\* __gt__
Greater(r, s) ==
  \/ VersionBefore(s, r)
  \/ /\ SameVersion(r, s)
     /\ \/ Modifier(r) # Modifier(s) /\ Order(Modifier(r)) > Order(Modifier(s))
        \/ NumberBefore(s, r)

-----------------------------------------------------------------------------
(* The nightlies *)

\* A nightly has its tag from its version and its day, but is compared by its time.
Nightlies == [version : Nat, day : Nat, time : Nat]

Tag(r) == <<r.version, r.day>>

\* get_available_releases: the newest first.
NewestFirst(s) == \A i, j \in DOMAIN s : i < j => s[j].time <= s[i].time

\* make_by_tag: of the releases with one tag the dictionary keeps the last.
ByTag(s, tag) ==
  s[CHOOSE i \in DOMAIN s : Tag(s[i]) = tag
                            /\ \A j \in DOMAIN s : Tag(s[j]) = tag => j <= i]
=============================================================================
