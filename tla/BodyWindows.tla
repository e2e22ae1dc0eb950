----------------------------- MODULE BodyWindows -----------------------------
(***************************************************************************)
(* Reading and patching an instruction's body by windows                   *)
(* (services/handlers/instructions.shared.ts, instructions.bodyPatch.ts):  *)
(* a client asks for page after page with bodyOffset and bodyLimit, may    *)
(* write back the window it has just read with a splice, and others may    *)
(* patch the body meanwhile.                                               *)
(*                                                                         *)
(* A body is a sequence of UTF-16 code units, of which only the kind       *)
(* matters: high and low surrogates, which form pairs, and all others.     *)
(* Offsets count from 0, so offset i is behind the i-th unit.              *)
(***************************************************************************)
EXTENDS Integers, Sequences

CONSTANTS
  MaxBody,   \* bodyWarnLength: patches may not grow a body beyond it
  Limits,    \* values of bodyLimit; 0 for none
  Offsets,   \* values of the first bodyOffset
  Texts,     \* texts of patches
  MaxPatches \* bound: patches

VARIABLES
  body,
  limit,
  at,        \* the bodyOffset of the next page (nextOffset)
  more,      \* whether there is one: hasMore of the last page
  page,      \* the last page: [offset, chunk], the body it was cut from and the
             \* number of units it was given with
  given,     \* history: the pages so far, as one text
  first,     \* history: where they begin
  steady,    \* history: whether nobody else has patched the body
  patches

bwVars == <<body, limit, at, more, page, given, first, steady, patches>>

Clamp(low, x, high) == IF x > high THEN high ELSE IF x < low THEN low ELSE x

SplitsPair(s, i) == 0 < i /\ i < Len(s) /\ s[i] = "high" /\ s[i + 1] = "low"

(* Mutant: the end of a window is not moved off the middle of a pair.      *)
snapWindowEndBare(s, start, endRaw) == Clamp(start, endRaw, Len(s))

clampBodyOffset(s, offsetRaw) ==
  LET offset == Clamp(0, offsetRaw, Len(s))
  IN IF SplitsPair(s, offset) THEN offset - 1 ELSE offset

snapWindowEnd(s, start, endRaw) ==
  LET end == Clamp(start, endRaw, Len(s))
  IN IF end > start /\ SplitsPair(s, end) THEN end - 1 ELSE end

(* The window of a page, and the body a splice leaves.                     *)
WindowEnd(s, offset, l) ==
  snapWindowEnd(s, offset, IF l > 0 THEN offset + l ELSE Len(s))

Splice(s, bodyOffset, bodyLength, text) ==
  LET start == clampBodyOffset(s, bodyOffset)
      end   == snapWindowEnd(s, start, start + bodyLength)
  IN SubSeq(s, 1, start) \o text \o SubSeq(s, end + 1, Len(s))

(* Every surrogate is in a pair.                                           *)
WellFormed(s) ==
  \A i \in 1 .. Len(s) :
    /\ s[i] = "high" => i < Len(s) /\ s[i + 1] = "low"
    /\ s[i] = "low"  => i > 1 /\ s[i - 1] = "high"

(* Text is well formed: a code point above the first plane is a pair.      *)
Units == {"plain", "high", "low"}

ASSUME WindowAssumption ==
  /\ Limits \subseteq Int /\ Offsets \subseteq Int
  /\ \A t \in Texts : t \in Seq(Units) /\ WellFormed(t)

NoPage == [offset |-> 0, chunk |-> <<>>, seen |-> <<>>, got |-> 0]

WindowsInit ==
  /\ \E n \in 1 .. MaxBody : body \in [1 .. n -> Units]
  /\ WellFormed(body)
  /\ limit \in Limits /\ at \in Offsets /\ more = "yes"
  /\ page = NoPage /\ given = <<>> /\ first = 0 /\ steady = "yes" /\ patches = 0

(* index_get with a window.                                                *)
applyBodyPagination ==
  LET offset == clampBodyOffset(body, at)
      end    == WindowEnd(body, offset, limit)
      chunk  == SubSeq(body, offset + 1, end)
  IN /\ more = "yes"
     /\ page' = [offset |-> offset, chunk |-> chunk, seen |-> body, got |-> Len(chunk)]
     /\ more' = IF end < Len(body) THEN "yes" ELSE "no"
     /\ at' = end
     /\ given' = given \o chunk
     /\ first' = IF page = NoPage THEN offset ELSE first
     /\ UNCHANGED <<body, limit, steady, patches>>

(* What a patch is refused for, besides the hash.                          *)
Acceptable(s) == s # body /\ Len(s) <= MaxBody /\ s # <<>>

Patched(s) ==
  /\ Acceptable(s) /\ body' = s
  /\ patches < MaxPatches /\ patches' = patches + 1

(* index_patch, op splice, of the page just read, with the hash that came  *)
(* with it as expectedSourceHash.  The client goes on behind its text.     *)
writeBack(text) ==
  LET next == Splice(body, page.offset, Len(page.chunk), text)
  IN /\ page.seen = body
     /\ Patched(next)
     /\ page' = [page EXCEPT !.chunk = text, !.seen = next]
     /\ at' = page.offset + Len(text)
     /\ given' = SubSeq(given, 1, Len(given) - Len(page.chunk)) \o text
     /\ UNCHANGED <<limit, more, first, steady>>

(* index_patch by another client: append and prepend.                      *)
otherPatch(text) ==
  /\ Patched(body \o text) \/ Patched(text \o body)
  /\ steady' = "no"
  /\ UNCHANGED <<limit, at, more, page, given, first>>

WindowsNext ==
  \/ applyBodyPagination
  \/ \E text \in Texts : writeBack(text) \/ otherPatch(text)

WindowsSpec == WindowsInit /\ [][WindowsNext]_bwVars

(***************************************************************************)
(* Properties.                                                             *)
(***************************************************************************)
PageEnd == page.offset + Len(page.chunk)

(* The pages cover the body from the first offset on, once and in order,   *)
(* split no pair, and get on: every page but the last holds something,     *)
(* unless bodyLimit is 1, with which a client never gets past a pair.  A   *)
(* page spliced back over its window changes nothing, whatever its         *)
(* boundaries were asked to be (instructions.shared.ts:54-56).             *)
PagesCoverBody ==
  page.seen # <<>> =>
    /\ steady = "yes" => /\ given = SubSeq(body, first + 1, PageEnd)
                         /\ more = "no" <=> PageEnd = Len(body)
                         /\ ~SplitsPair(body, PageEnd)
    /\ more = "yes" /\ limit # 1 => page.got > 0
    /\ page.seen = body => Splice(body, page.offset, Len(page.chunk), page.chunk) = body
=============================================================================
