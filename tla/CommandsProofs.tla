--------------------------- MODULE CommandsProofs ---------------------------
(***************************************************************************)
(* Proofs about Commands, one section for each command, of every property  *)
(* that its run checks: for any number of runs of init, gates, records,    *)
(* edits and interrupted saves, any set of decisions and any queries.      *)
(*                                                                         *)
(* GENESIS_HASH is assumed not to be the hash of anything, NoMapping to be *)
(* no receipt and no record, and queries to ask for times in UTC, in the   *)
(* theorems that say so.                                                   *)
(***************************************************************************)
EXTENDS Commands, Sequences, TLAPS, FiniteSetTheorems, WellFoundedInduction

-----------------------------------------------------------------------------
(***************************************************************************)
(* Sets of sequence numbers: the order of their elements.                  *)
(***************************************************************************)

Below(D, s) == {r \in D : r < s}

\* How many elements of D come before s.
Place(D, s) == Cardinality(Below(D, s))

\* The i-th element of D.
Nth(D, i) == CHOOSE s \in D : Place(D, s) = i - 1

Numbers(D) == D \subseteq Nat /\ IsFiniteSet(D)

\* Later elements have more before them.
LEMMA PlaceGrows ==
  ASSUME NEW D, Numbers(D), NEW r \in D, NEW s \in Nat, r < s
  PROVE  /\ Place(D, r) \in Nat /\ Place(D, s) \in Nat
         /\ Place(D, r) < Place(D, s)
<1>0. \A q \in D : q \in Nat
  BY DEF Numbers
<1>1. Below(D, r) \subseteq Below(D, s) /\ r \in Below(D, s) /\ r \notin Below(D, r)
  BY <1>0 DEF Below
<1>2. IsFiniteSet(Below(D, s))
  BY FS_Subset DEF Below, Numbers
<1>3. /\ IsFiniteSet(Below(D, r))
      /\ Cardinality(Below(D, r)) <= Cardinality(Below(D, s))
      /\ Cardinality(Below(D, s)) = Cardinality(Below(D, r)) => Below(D, s) = Below(D, r)
  BY <1>1, <1>2, FS_Subset
<1>4. Cardinality(Below(D, r)) \in Nat /\ Cardinality(Below(D, s)) \in Nat
  BY <1>2, <1>3, FS_CardinalityType
<1>5. QED  BY <1>1, <1>3, <1>4 DEF Place

\* There are as many places as elements.
LEMMA PlaceBounded ==
  ASSUME NEW D, Numbers(D), NEW s \in D
  PROVE  Place(D, s) \in 0 .. Cardinality(D) - 1
<1>1. Below(D, s) \subseteq D /\ s \notin Below(D, s) /\ s \in Nat
  BY DEF Below, Numbers
<1>2. /\ IsFiniteSet(Below(D, s))
      /\ Cardinality(Below(D, s)) <= Cardinality(D)
      /\ Cardinality(D) = Cardinality(Below(D, s)) => D = Below(D, s)
  BY <1>1, FS_Subset DEF Numbers
<1>3. Cardinality(Below(D, s)) \in Nat /\ Cardinality(D) \in Nat
  BY <1>2, FS_CardinalityType DEF Numbers
<1>4. QED  BY <1>1, <1>2, <1>3 DEF Place

\* Every place is that of one element.
LEMMA NthExists ==
  ASSUME NEW D, Numbers(D), NEW i \in 1 .. Cardinality(D)
  PROVE  Nth(D, i) \in D /\ Place(D, Nth(D, i)) = i - 1
<1> DEFINE n == Cardinality(D)
           f == [s \in D |-> Place(D, s) + 1]
<1>1. n \in Nat
  BY FS_CardinalityType DEF Numbers
<1>2. f \in [D -> 1 .. n]
  BY <1>1, PlaceBounded
<1>3. \A r, s \in D : f[r] = f[s] => r = s
  <2>1. ASSUME NEW r \in D, NEW s \in D, f[r] = f[s], r # s PROVE FALSE
    <3>1. r \in Nat /\ s \in Nat
      BY DEF Numbers
    <3>2. Place(D, r) \in Nat /\ Place(D, s) \in Nat
      BY <1>1, PlaceBounded
    <3>3. Place(D, r) = Place(D, s)
      BY <2>1, <3>2
    <3>4. QED  BY <2>1, <3>1, <3>3, PlaceGrows
  <2>2. QED  BY <2>1
<1>4. f \in Injection(D, 1 .. n)
  BY <1>2, <1>3 DEF Injection, IsInjective
<1>5. IsFiniteSet(1 .. n) /\ Cardinality(1 .. n) = n
  BY <1>1, FS_Interval
<1>6. f \in Surjection(D, 1 .. n)
  BY <1>4, <1>5, FS_Injection
<1>7. \E s \in D : f[s] = i
  BY <1>6 DEF Surjection
<1>8. \E s \in D : Place(D, s) = i - 1
  <2>1. PICK s \in D : f[s] = i
    BY <1>7
  <2>2. Place(D, s) \in Nat
    BY <1>1, PlaceBounded
  <2>3. QED  BY <2>1, <2>2
<1>9. QED  BY <1>8 DEF Nth

\* An element is the one at its place.
LEMMA NthOfPlace ==
  ASSUME NEW D, Numbers(D), NEW s \in D
  PROVE  /\ Place(D, s) + 1 \in 1 .. Cardinality(D)
         /\ Nth(D, Place(D, s) + 1) = s
<1>1. Cardinality(D) \in Nat
  BY FS_CardinalityType DEF Numbers
<1>2. Place(D, s) + 1 \in 1 .. Cardinality(D)
  BY <1>1, PlaceBounded
<1>3. Nth(D, Place(D, s) + 1) \in D /\ Place(D, Nth(D, Place(D, s) + 1)) = Place(D, s)
  BY <1>1, <1>2, NthExists, PlaceBounded
<1>4. ASSUME NEW q \in D, Place(D, q) = Place(D, s) PROVE q = s
  <2>1. q \in Nat /\ s \in Nat
    BY DEF Numbers
  <2>2. ~ q < s /\ ~ s < q
    <3>1. Place(D, s) \in Nat /\ ~ Place(D, s) < Place(D, s)
      BY <1>1, PlaceBounded
    <3>2. QED  BY <1>4, <2>1, <3>1, PlaceGrows
  <2>3. QED  BY <2>1, <2>2
<1>5. QED  BY <1>2, <1>3, <1>4

\* Elements are in their order.
LEMMA NthGrows ==
  ASSUME NEW D, Numbers(D), NEW i \in 1 .. Cardinality(D), NEW j \in 1 .. Cardinality(D), i < j
  PROVE  Nth(D, i) < Nth(D, j)
<1>1. /\ Nth(D, i) \in D /\ Nth(D, j) \in D
      /\ Place(D, Nth(D, i)) = i - 1 /\ Place(D, Nth(D, j)) = j - 1
  BY NthExists
<1>2. Nth(D, i) \in Nat /\ Nth(D, j) \in Nat
  BY <1>1 DEF Numbers
<1>3. CASE Nth(D, j) < Nth(D, i)
  BY <1>1, <1>2, <1>3, PlaceGrows
<1>4. CASE Nth(D, j) = Nth(D, i)
  BY <1>1, <1>4
<1>5. QED  BY <1>2, <1>3, <1>4

\* An element greater than all others comes last.
LEMMA NthOfMore ==
  ASSUME NEW D, Numbers(D), NEW n \in Nat, \A s \in D : s < n
  PROVE  /\ Numbers(D \cup {n})
         /\ Cardinality(D \cup {n}) = Cardinality(D) + 1
         /\ \A i \in 1 .. Cardinality(D) : Nth(D \cup {n}, i) = Nth(D, i)
         /\ Nth(D \cup {n}, Cardinality(D) + 1) = n
<1> DEFINE E == D \cup {n}
<1>0. n \notin D /\ Cardinality(D) \in Nat
  BY FS_CardinalityType DEF Numbers
<1>1. Numbers(E) /\ Cardinality(E) = Cardinality(D) + 1
  BY <1>0, FS_AddElement DEF Numbers
<1>2. \A s \in D : Place(E, s) = Place(D, s)
  <2>1. \A s \in D : Below(E, s) = Below(D, s)
    BY DEF Below, Numbers
  <2>2. QED  BY <2>1 DEF Place
<1>3. Place(E, n) = Cardinality(D)
  <2>1. Below(E, n) = D
    <3>1. \A s \in D : s < n
      OBVIOUS
    <3>2. ~ n < n
      OBVIOUS
    <3>3. QED  BY <3>1, <3>2, Zenon DEF Below
  <2>2. QED  BY <2>1 DEF Place
<1>4. ASSUME NEW i \in 1 .. Cardinality(D) PROVE Nth(E, i) = Nth(D, i)
  <2>1. Nth(D, i) \in D /\ Place(D, Nth(D, i)) = i - 1
    BY NthExists
  <2>2. Nth(E, Place(E, Nth(D, i)) + 1) = Nth(D, i)
    BY <1>1, <2>1, NthOfPlace
  <2>3. QED  BY <1>0, <1>2, <2>1, <2>2
<1>5. Nth(E, Cardinality(D) + 1) = n
  BY <1>1, <1>3, NthOfPlace
<1>6. QED  BY <1>1, <1>4, <1>5

\* In a set without gaps every element is at its own place.
LEMMA NthOfInterval ==
  ASSUME NEW n \in Nat, NEW i \in 1 .. n
  PROVE  Numbers(1 .. n) /\ Cardinality(1 .. n) = n /\ Nth(1 .. n, i) = i
<1>1. Numbers(1 .. n) /\ Cardinality(1 .. n) = n
  BY FS_Interval DEF Numbers
<1>2. Place(1 .. n, i) = i - 1
  <2>1. Below(1 .. n, i) = 1 .. (i - 1)
    BY DEF Below
  <2>2. Cardinality(1 .. (i - 1)) = i - 1
    BY FS_Interval
  <2>3. QED  BY <2>1, <2>2 DEF Place
<1>3. Nth(1 .. n, (i - 1) + 1) = i
  BY <1>1, <1>2, NthOfPlace
<1>4. QED  BY <1>1, <1>3

\* Natural numbers have a least one.
LEMMA LeastElement ==
  ASSUME NEW S \in SUBSET Nat, S # {}
  PROVE  \E m \in S : \A s \in S : m <= s
<1> DEFINE R == {p \in Nat \X Nat : p[1] < p[2]}
<1>1. R = OpToRel(<, Nat)
  BY DEF OpToRel
<1>2. IsWellFoundedOn(R, Nat)
  BY <1>1, NatLessThanWellFounded
<1>3. PICK m \in S : \A s \in S : ~ (<<s, m>> \in R)
  <2> HIDE DEF R
  <2>1. QED BY <1>2, WFMin
<1>4. \A s \in S : ~ s < m
  BY <1>3
<1>5. QED BY <1>4

\* The greatest of a set.
LEMMA LastIsMax ==
  ASSUME NEW D, Numbers(D), D # {}
  PROVE  /\ Cardinality(D) \in Nat /\ Cardinality(D) \in 1 .. Cardinality(D)
         /\ Nth(D, Cardinality(D)) \in D
         /\ \A s \in D : Nth(D, Cardinality(D)) >= s
<1>1. Cardinality(D) \in Nat /\ Cardinality(D) # 0
  BY FS_CardinalityType, FS_EmptySet DEF Numbers
<1>2. Nth(D, Cardinality(D)) \in D
  BY <1>1, NthExists
<1>3. ASSUME NEW s \in D PROVE Nth(D, Cardinality(D)) >= s
  <2>1. Place(D, s) + 1 \in 1 .. Cardinality(D) /\ Nth(D, Place(D, s) + 1) = s
    BY NthOfPlace
  <2>2. CASE Place(D, s) + 1 = Cardinality(D)
    BY <2>1, <2>2, <1>2 DEF Numbers
  <2>3. CASE Place(D, s) + 1 < Cardinality(D)
    <3>1. s < Nth(D, Cardinality(D))
      BY <1>1, <2>1, <2>3, NthGrows
    <3>2. s \in Nat /\ Nth(D, Cardinality(D)) \in Nat
      BY <1>2 DEF Numbers
    <3>3. QED  BY <3>1, <3>2
  <2>4. QED  BY <1>1, <2>1, <2>2, <2>3
<1>4. QED  BY <1>1, <1>2, <1>3

\* The row before the one at a place is at the place before.
LEMMA MaxBelow ==
  ASSUME NEW D, Numbers(D), NEW i \in 1 .. Cardinality(D), i # 1
  PROVE  /\ Nth(D, i - 1) \in Below(D, Nth(D, i))
         /\ \A r \in Below(D, Nth(D, i)) : Nth(D, i - 1) >= r
<1>0. Cardinality(D) \in Nat /\ i - 1 \in 1 .. Cardinality(D)
  BY FS_CardinalityType DEF Numbers
<1>1. /\ Nth(D, i) \in D /\ Nth(D, i - 1) \in D
      /\ Place(D, Nth(D, i)) = i - 1 /\ Place(D, Nth(D, i - 1)) = i - 2
  BY <1>0, NthExists
<1>2. Nth(D, i - 1) < Nth(D, i)
  BY <1>0, NthGrows
<1>3. ASSUME NEW r \in Below(D, Nth(D, i)) PROVE Nth(D, i - 1) >= r
  <2>1. r \in D /\ r < Nth(D, i) /\ Nth(D, i) \in Nat /\ r \in Nat /\ Nth(D, i - 1) \in Nat
    BY <1>1 DEF Below, Numbers
  <2>2. Place(D, r) \in Nat /\ Place(D, r) < i - 1
    BY <1>1, <2>1, PlaceGrows
  <2>3. ~ Nth(D, i - 1) < r
    <3>1. ASSUME Nth(D, i - 1) < r PROVE FALSE
      <4>1. i - 2 < Place(D, r)
        BY <1>1, <2>1, <3>1, PlaceGrows
      <4>2. QED  BY <1>0, <2>2, <4>1
    <3>2. QED  BY <3>1
  <2>4. QED  BY <2>1, <2>3
<1>4. QED  BY <1>1, <1>2, <1>3 DEF Below

\* A function on 1 .. n is a sequence of length n.
LEMMA LenOfFunction ==
  ASSUME NEW n \in Nat, NEW h, h = [i \in 1 .. n |-> h[i]]
  PROVE  Len(h) = n
<1>1. h \in Seq({h[i] : i \in 1 .. n})
  OBVIOUS
<1>2. DOMAIN h = 1 .. n
  OBVIOUS
<1>3. QED  BY <1>1, <1>2

\* What the beginning of such a sequence is.
LEMMA SubSeqOfFunction ==
  ASSUME NEW n \in Nat, NEW s, s = [i \in 1 .. n |-> s[i]], NEW m \in 0 .. n
  PROVE  SubSeq(s, 1, m) = [i \in 1 .. m |-> s[i]]
<1>1. s \in Seq({s[i] : i \in 1 .. n}) /\ Len(s) = n
  BY LenOfFunction
<1>2. QED  BY <1>1

-----------------------------------------------------------------------------
(***************************************************************************)
(* init: for any number of runs, one at a time, stopped anywhere, and with *)
(* files taken away between them, the two key files are never of two pairs, *)
(* but for a forced run that did not end, and gates made with the key file *)
(* find each other's rows intact, unless they forked the chain.            *)
(***************************************************************************)

\* Where an init may stand.
Steps == [does : {"start", "check", "open", "write"} \cup Setup!Ended, n : {1, 2, 3}]

\* What the variables of runs of init may hold.
TypeInv ==
  /\ files \in [Setup!Files -> Inits \cup {Absent, Empty}]
  /\ stage \in [Inits -> Steps]

\* At most one init is under way.
OneRuns == \A i, j \in Inits : Setup!Running(i) /\ Setup!Running(j) => i = j

\* A run whose key is in the key file has written it.
WritersCame ==
  \A i \in Inits : files["key"] = i =>
    stage[i].n = 3 /\ stage[i].does \in {"open", "write", "done", "failed"}

\* A run that is about to write the public key has written the private one.
KeyIsOwn ==
  \A i \in Inits : stage[i].does \in {"open", "write"} /\ stage[i].n = 3 => files["key"] = i

\* A run that writes without --force found no public key.
UnforcedFoundNone ==
  \A i \in Inits \ Forced : stage[i].does \in {"open", "write"} => ~ Setup!Readable("pub")

\* The inductive invariant of init.
IInv ==
  TypeInv /\ OneRuns /\ WritersCame /\ KeyIsOwn /\ UnforcedFoundNone /\ Setup!KeysMatch

\* Gates with the key file have the key of a run that came to write it.
GatesHaveFileKeys ==
  \A s \in Keyed : Setup!HasGate(s) => gateKey[s] \in Inits /\ Setup!CameToKey(gateKey[s])

\* What a row after the n-th, or a gate that is about to record, links to.
Links(n) == {GENESIS_HASH} \cup {chain[q].record_hash : q \in 1 .. n}

\* Rows are numbered without gaps; each was made by a gate and links to the
\* genesis hash or some row before it.
RowsOfGates ==
  \E n \in Nat :
    /\ chain = [q \in 1 .. n |-> chain[q]]
    /\ \A q \in 1 .. n : \E s \in Sessions, h \in Links(q - 1) :
         Setup!HasGate(s) /\ chain[q] = Setup!NewRecord(s, h, q, gateKey[s])
    /\ \A s \in Sessions : reading[s] # None => Setup!HasGate(s) /\ reading[s] \in Links(n)

\* What makes gates with the key file disagree: key files of two runs, a row
\* of another gate, or a fork.
Excused ==
  \/ \E i, j \in Inits : Setup!CameToKey(i) /\ Setup!CameToKey(j) /\ i # j
  \/ \E q \in DOMAIN chain : chain[q].decision \notin Keyed
  \/ Setup!Forked

\* verify_ledger reports tampering to them only then.
TamperedIsExcused == tampered \cap Keyed # {} => Excused

\* The part of the invariant that is about gates.
SessionsInv ==
  /\ gateKey = [s \in Sessions |-> gateKey[s]]
  /\ reading = [s \in Sessions |-> reading[s]]
  /\ GatesHaveFileKeys
  /\ RowsOfGates
  /\ TamperedIsExcused

-----------------------------------------------------------------------------

\* What the proofs need of the constants.
LEMMA NamesDiffer ==
  /\ Absent \notin Inits /\ Empty \notin Inits
  /\ Keyed \subseteq Sessions /\ Sessions \cap Rekeyed = {}
BY CommandsAssumption

\* A behavior of Commands moves the workspace as Workspace says, or not at all.
LEMMA StepsOfSetup == [Next]_vars => [Setup!Next]_(Setup!vars)
<1>1. ASSUME Next PROVE [Setup!Next]_(Setup!vars)
  <2>1. InitRuns => Setup!Next
    BY DEF InitRuns
  <2>2. AuditRuns \/ ExportRuns \/ VerifyRuns => UNCHANGED workspace
    BY DEF AuditRuns, ExportRuns, VerifyRuns
  <2>3. QED  BY <1>1, <2>1, <2>2 DEF Next, workspace, Setup!vars, Setup!ledgers
<1>2. UNCHANGED vars => UNCHANGED Setup!vars
  BY DEF vars, workspace, Setup!vars, Setup!ledgers
<1>3. QED  BY <1>1, <1>2

\* At first there is no file.
LEMMA InitIsGood == ASSUME Setup!Init PROVE IInv
BY NamesDiffer
DEF Setup!Init, IInv, TypeInv, Steps, Setup!Files, OneRuns, Setup!Running, Setup!Ended,
    WritersCame, KeyIsOwn, UnforcedFoundNone, Setup!KeysMatch, Setup!Readable

\* What a run's step changes of pc.
LEMMA GotoMoves ==
  ASSUME TypeInv, NEW i \in Inits, NEW what, NEW n, Setup!Goto(i, what, n),
         what \in {"start", "check", "open", "write"} \cup Setup!Ended, n \in {1, 2, 3}
  PROVE  /\ stage' \in [Inits -> Steps]
         /\ stage'[i].does = what /\ stage'[i].n = n
         /\ \A j \in Inits \ {i} : stage'[j] = stage[j]
BY DEF TypeInv, Setup!Goto, Steps

\* What a step changes of a file.
LEMMA WriteChanges ==
  ASSUME TypeInv, NEW f \in Setup!Files, NEW content \in Inits \cup {Absent, Empty},
         files' = [files EXCEPT ![f] = content]
  PROVE  /\ files' \in [Setup!Files -> Inits \cup {Absent, Empty}]
         /\ files'[f] = content
         /\ \A g \in Setup!Files \ {f} : files'[g] = files[g]
BY DEF TypeInv

\* Where the key files stay, they match as before, unless the run whose key
\* they hold is done.
LEMMA MatchStays ==
  ASSUME TypeInv, Setup!KeysMatch, files'["key"] = files["key"], files'["pub"] = files["pub"],
         \A j \in Inits : files["key"] = j /\ stage'[j].does = "done" => stage[j].does = "done"
  PROVE  Setup!KeysMatch'
<1>1. Setup!Readable("key") => files["key"] \in Inits
  BY DEF TypeInv, Setup!Readable, Setup!Files
<1>2. QED  BY <1>1 DEF Setup!KeysMatch, Setup!Readable

\* A step of the one run that is under way.
LEMMA OneStillRuns ==
  ASSUME OneRuns, NEW i \in Inits, Setup!Running(i), \A j \in Inits \ {i} : stage'[j] = stage[j]
  PROVE  OneRuns'
BY DEF OneRuns, Setup!Running

\* init begins when no other is under way.
LEMMA StartKeeps == ASSUME Serial, IInv, NEW i \in Inits, Setup!Start(i) PROVE IInv'
<1>0. TypeInv
  BY DEF IInv
<1>1. stage[i].does = "start" /\ UNCHANGED files /\ Setup!Goto(i, "check", 1)
  BY DEF Setup!Start, Setup!At
<1>2. /\ stage' \in [Inits -> Steps]
      /\ stage'[i].does = "check" /\ stage'[i].n = 1
      /\ \A j \in Inits \ {i} : stage'[j] = stage[j]
  BY <1>0, <1>1, GotoMoves
<1>3. OneRuns'
  BY <1>2 DEF Setup!Start, OneRuns, Setup!Running
<1>4. Setup!KeysMatch'
  BY <1>0, <1>1, <1>2, MatchStays DEF IInv
<1>5. QED
  BY <1>0, <1>1, <1>2, <1>3, <1>4
  DEF IInv, TypeInv, WritersCame, KeyIsOwn, UnforcedFoundNone, Setup!Readable

\* A run goes to its writing only after it has looked for the public key.
LEMMA CheckKeeps ==
  ASSUME Serial, IInv, NEW i \in Inits, NEW n \in 1 .. 3, Setup!Check(i, n) PROVE IInv'
<1>0. TypeInv
  BY DEF IInv
<1>1. stage[i].does = "check" /\ stage[i].n = n /\ UNCHANGED files
  BY DEF Setup!Check, Setup!At
<1>2. PICK what \in {"check", "open"}, m \in {1, 2, 3} :
        /\ Setup!Goto(i, what, m)
        /\ what = "open" => n = 3 /\ m = 1
  <2>1. CASE n < 3
    BY <2>1 DEF Setup!Check
  <2>2. CASE ~ n < 3
    BY <2>2 DEF Setup!Check
  <2>3. QED  BY <2>1, <2>2
<1>3. /\ stage' \in [Inits -> Steps]
      /\ stage'[i].does = what /\ stage'[i].n = m
      /\ \A j \in Inits \ {i} : stage'[j] = stage[j]
  BY <1>0, <1>2, GotoMoves
<1>4. Setup!Running(i)
  BY <1>1 DEF Setup!Running, Setup!Ended
<1>5. OneRuns'
  BY <1>3, <1>4, OneStillRuns DEF IInv
<1>6. Setup!KeysMatch'
  BY <1>0, <1>1, <1>3, MatchStays DEF IInv
<1>7. i \notin Forced /\ what = "open" => ~ Setup!Readable("pub")
  BY <1>2 DEF Setup!Check, Setup!Present, Setup!FileOrder, Setup!Readable
<1>8. QED
  BY <1>0, <1>1, <1>2, <1>3, <1>5, <1>6, <1>7
  DEF IInv, TypeInv, WritersCame, KeyIsOwn, UnforcedFoundNone, Setup!Readable

\* A run that ends without having written anything more.
LEMMA EndKeeps ==
  ASSUME IInv, NEW i \in Inits, Setup!Running(i), UNCHANGED files,
         NEW how \in {"refused", "failed"}, NEW n \in 1 .. 3, Setup!Goto(i, how, n),
         n = stage[i].n, how = "refused" => stage[i].does = "check"
  PROVE  IInv'
<1>0. TypeInv
  BY DEF IInv
<1>1. /\ stage' \in [Inits -> Steps]
      /\ stage'[i].does = how /\ stage'[i].n = n
      /\ \A j \in Inits \ {i} : stage'[j] = stage[j]
  BY <1>0, GotoMoves DEF Setup!Ended
<1>2. OneRuns'
  BY <1>1, OneStillRuns DEF IInv
<1>3. Setup!KeysMatch'
  BY <1>0, <1>1, MatchStays DEF IInv
<1>4. WritersCame'
  BY <1>1 DEF IInv, WritersCame
<1>5. QED
  BY <1>0, <1>1, <1>2, <1>3, <1>4
  DEF IInv, TypeInv, KeyIsOwn, UnforcedFoundNone, Setup!Readable

\* A file that is opened has nothing in it.
LEMMA OpenKeeps ==
  ASSUME Serial, IInv, NEW i \in Inits, NEW n \in 1 .. 3, Setup!Open(i, n) PROVE IInv'
<1>0. TypeInv
  BY DEF IInv
<1>1. stage[i].does = "open" /\ stage[i].n = n /\ Setup!Goto(i, "write", n)
  BY DEF Setup!Open, Setup!At
<1>2. /\ stage' \in [Inits -> Steps]
      /\ stage'[i].does = "write" /\ stage'[i].n = n
      /\ \A j \in Inits \ {i} : stage'[j] = stage[j]
  BY <1>0, <1>1, GotoMoves
<1>3. Setup!FileOrder[n] \in Setup!Files
  BY DEF Setup!FileOrder, Setup!Files
<1>4. /\ files' \in [Setup!Files -> Inits \cup {Absent, Empty}]
      /\ files'[Setup!FileOrder[n]] = Empty
      /\ \A g \in Setup!Files \ {Setup!FileOrder[n]} : files'[g] = files[g]
  BY <1>0, <1>3, WriteChanges DEF Setup!Open
<1>5. OneRuns'
  BY <1>1, <1>2, OneStillRuns DEF IInv, Setup!Running, Setup!Ended
<1>6. \A f \in Setup!Files : files'[f] = files[f] \/ files'[f] = Empty
  BY <1>4
<1>7. Setup!KeysMatch'
  <2>1. CASE files'["key"] = files["key"] /\ files'["pub"] = files["pub"]
    BY <1>0, <1>2, <2>1, MatchStays DEF IInv
  <2>2. CASE files'["key"] = Empty \/ files'["pub"] = Empty
    BY <2>2 DEF Setup!KeysMatch, Setup!Readable
  <2>3. QED  BY <1>6, <2>1, <2>2 DEF Setup!Files
<1>8. WritersCame'
  BY <1>1, <1>2, <1>6, NamesDiffer DEF IInv, WritersCame, Setup!Files
<1>9. UnforcedFoundNone'
  BY <1>1, <1>2, <1>6 DEF IInv, UnforcedFoundNone, Setup!Readable, Setup!Files
<1>10. KeyIsOwn'
  <2>1. \A j \in Inits : stage'[j].does \in {"open", "write"} /\ stage'[j].n = 3 => j = i /\ n = 3
    BY <1>1, <1>2 DEF IInv, OneRuns, Setup!Running, Setup!Ended
  <2>2. n = 3 => files'["key"] = files["key"]
    BY <1>4 DEF Setup!FileOrder, Setup!Files
  <2>3. QED  BY <1>1, <1>2, <2>1, <2>2 DEF IInv, KeyIsOwn
<1>11. QED  BY <1>2, <1>4, <1>5, <1>7, <1>8, <1>9, <1>10 DEF IInv, TypeInv

\* A run writes the private key, then the public one.
LEMMA WriteKeeps ==
  ASSUME Serial, IInv, NEW i \in Inits, NEW n \in 1 .. 3, Setup!Write(i, n) PROVE IInv'
<1>0. TypeInv
  BY DEF IInv
<1>1. stage[i].does = "write" /\ stage[i].n = n
  BY DEF Setup!Write, Setup!At
<1>2. PICK what \in {"open", "done"}, m \in {2, 3} :
        /\ Setup!Goto(i, what, m)
        /\ n = 3 => what = "done" /\ m = 3
        /\ n = 2 => what = "open" /\ m = 3
        /\ n = 1 => what = "open" /\ m = 2
  <2>1. CASE n < 3
    BY <2>1 DEF Setup!Write
  <2>2. CASE ~ n < 3
    BY <2>2 DEF Setup!Write
  <2>3. QED  BY <2>1, <2>2
<1>3. /\ stage' \in [Inits -> Steps]
      /\ stage'[i].does = what /\ stage'[i].n = m
      /\ \A j \in Inits \ {i} : stage'[j] = stage[j]
  BY <1>0, <1>2, GotoMoves DEF Setup!Ended
<1>4. Setup!FileOrder[n] \in Setup!Files
  BY DEF Setup!FileOrder, Setup!Files
<1>5. /\ files' \in [Setup!Files -> Inits \cup {Absent, Empty}]
      /\ files'[Setup!FileOrder[n]] = i
      /\ \A g \in Setup!Files \ {Setup!FileOrder[n]} : files'[g] = files[g]
  BY <1>0, <1>4, WriteChanges DEF Setup!Write
<1>6. OneRuns'
  BY <1>1, <1>3, OneStillRuns DEF IInv, Setup!Running, Setup!Ended
<1>7. \A j \in Inits \ {i} : stage[j].does \notin {"open", "write"}
  BY <1>1 DEF IInv, OneRuns, Setup!Running, Setup!Ended
<1>8. CASE n = 1
  <2>1. files'["key"] = files["key"] /\ files'["pub"] = files["pub"]
    BY <1>5, <1>8 DEF Setup!FileOrder, Setup!Files
  <2>2. files["key"] # i
    BY <1>1, <1>8 DEF IInv, WritersCame
  <2>3. Setup!KeysMatch'
    BY <1>0, <1>3, <2>1, <2>2, MatchStays DEF IInv
  <2>4. QED
    BY <1>1, <1>2, <1>3, <1>5, <1>6, <1>7, <1>8, <2>1, <2>2, <2>3
    DEF IInv, TypeInv, WritersCame, KeyIsOwn, UnforcedFoundNone, Setup!Readable
<1>9. CASE n = 2
  <2>1. files'["key"] = i /\ files'["pub"] = files["pub"]
    BY <1>5, <1>9 DEF Setup!FileOrder, Setup!Files
  <2>2. i \notin Forced => ~ Setup!Readable("pub")
    BY <1>1 DEF IInv, UnforcedFoundNone
  <2>3. Setup!KeysMatch'
    BY <1>2, <1>3, <1>9, <2>1, <2>2 DEF Setup!KeysMatch, Setup!Readable
  <2>4. QED
    BY <1>1, <1>2, <1>3, <1>5, <1>6, <1>7, <1>9, <2>1, <2>2, <2>3
    DEF IInv, TypeInv, WritersCame, KeyIsOwn, UnforcedFoundNone, Setup!Readable
<1>10. CASE n = 3
  <2>1. files'["pub"] = i /\ files'["key"] = files["key"]
    BY <1>5, <1>10 DEF Setup!FileOrder, Setup!Files
  <2>2. files["key"] = i
    BY <1>1, <1>10 DEF IInv, KeyIsOwn
  <2>3. Setup!KeysMatch'
    BY <2>1, <2>2 DEF Setup!KeysMatch
  <2>4. QED
    BY <1>1, <1>2, <1>3, <1>5, <1>6, <1>7, <1>10, <2>1, <2>2, <2>3
    DEF IInv, TypeInv, WritersCame, KeyIsOwn, UnforcedFoundNone, Setup!Readable
<1>11. QED  BY <1>8, <1>9, <1>10

\* A file is taken away while no init is under way.
LEMMA RemoveKeeps ==
  ASSUME Serial, IInv, NEW f \in Setup!Files, Setup!Remove(f) PROVE IInv'
<1>0. TypeInv
  BY DEF IInv
<1>1. UNCHANGED stage
  BY DEF Setup!Remove
<1>2. /\ files' \in [Setup!Files -> Inits \cup {Absent, Empty}]
      /\ \A g \in Setup!Files : files'[g] = files[g] \/ files'[g] = Absent
  BY <1>0, WriteChanges DEF Setup!Remove
<1>3. \A i \in Inits : stage[i].does \notin {"open", "write"}
  BY DEF Setup!Remove, Setup!Running, Setup!Ended
<1>4. Setup!KeysMatch'
  <2>1. CASE files'["key"] = files["key"] /\ files'["pub"] = files["pub"]
    BY <1>0, <1>1, <2>1, MatchStays DEF IInv
  <2>2. CASE files'["key"] = Absent \/ files'["pub"] = Absent
    BY <2>2 DEF Setup!KeysMatch, Setup!Readable
  <2>3. QED  BY <1>2, <2>1, <2>2 DEF Setup!Files
<1>5. QED
  BY <1>0, <1>1, <1>2, <1>3, <1>4, NamesDiffer
  DEF IInv, TypeInv, OneRuns, Setup!Running, WritersCame, KeyIsOwn, UnforcedFoundNone,
      Setup!Readable, Setup!Files

\* Every step keeps the invariant.
LEMMA StepKeepsInvariant == ASSUME Serial, IInv, [Setup!Next]_(Setup!vars) PROVE IInv'
<1>1. ASSUME UNCHANGED <<files, stage>> PROVE IInv'
  BY <1>1 DEF IInv, TypeInv, OneRuns, Setup!Running, WritersCame, KeyIsOwn, UnforcedFoundNone,
              Setup!KeysMatch, Setup!Readable
<1>2. ASSUME NEW i \in Inits, NEW n \in 1 .. 3, Setup!Refuse(i, n) PROVE IInv'
  BY <1>2, EndKeeps DEF Setup!Refuse, Setup!At, Setup!Running, Setup!Ended
<1>3. ASSUME NEW i \in Inits, Setup!Fail(i) PROVE IInv'
  BY <1>3, EndKeeps DEF Setup!Fail, IInv, TypeInv, Steps
<1>4. ASSUME NEW i \in Inits, Setup!Proceed(i) PROVE IInv'
  BY <1>2, <1>3, <1>4, StartKeeps, CheckKeeps, OpenKeeps, WriteKeeps DEF Setup!Proceed
<1>5. ASSUME NEW s \in Sessions,
             \/ Setup!FromFile(s) \/ Setup!ReadLastHash(s) \/ Setup!Append(s)
             \/ Setup!AppendFails(s) \/ Setup!VerifyLedger(s)
      PROVE  IInv'
  BY <1>1, <1>5 DEF Setup!FromFile, Setup!ReadLastHash, Setup!Append, Setup!AppendFails,
                    Setup!VerifyLedger
<1>6. QED  BY <1>1, <1>4, <1>5, RemoveKeeps DEF Setup!Next, Setup!vars

\* The key files are of one pair, or the private key is of a forced run that
\* did not end, for any number of runs of init (cli.py, init).
THEOREM KeyFilesMatch == ASSUME Serial PROVE Spec => []KeysMatch
<1>1. Init => IInv
  BY InitIsGood DEF Init
<1>2. IInv /\ [Next]_vars => IInv'
  BY StepKeepsInvariant, StepsOfSetup
<1>3. IInv => KeysMatch
  BY DEF IInv, KeysMatch
<1>4. QED  BY <1>1, <1>2, <1>3, PTL DEF Spec

-----------------------------------------------------------------------------

\* A run that came to the key has come to it for ever.
LEMMA CameStays ==
  ASSUME IInv, [Setup!Next]_(Setup!vars), NEW i \in Inits, Setup!CameToKey(i)
  PROVE  Setup!CameToKey(i)'
<1>0. TypeInv
  BY DEF IInv
<1>1. ASSUME NEW j \in Inits, Setup!Proceed(j), stage'[i] # stage[i]
      PROVE  Setup!CameToKey(i)'
  <2>1. ASSUME NEW r, stage' = [stage EXCEPT ![j] = r] PROVE i = j /\ stage'[i] = r
    BY <1>0, <1>1, <2>1 DEF TypeInv
  <2>2. CASE Setup!Start(j)
    <3>1. stage[j].n = 1 /\ stage' = [stage EXCEPT ![j] = [does |-> "check", n |-> 1]]
      BY <2>2 DEF Setup!Start, Setup!At, Setup!Goto
    <3>2. QED  BY <2>1, <3>1 DEF Setup!CameToKey
  <2>3. CASE Setup!Fail(j)
    <3>1. stage' = [stage EXCEPT ![j] = [does |-> "failed", n |-> stage[j].n]]
      BY <2>3 DEF Setup!Fail, Setup!Goto
    <3>2. i = j /\ stage'[i] = [does |-> "failed", n |-> stage[j].n]
      BY <2>1, <3>1
    <3>3. QED  BY <3>2 DEF Setup!CameToKey
  <2>4. ASSUME NEW n \in 1 .. 3, Setup!Check(j, n) \/ Setup!Refuse(j, n) PROVE Setup!CameToKey(i)'
    <3>1. stage[j].does = "check" /\ i = j
      BY <2>1, <2>4 DEF Setup!Check, Setup!Refuse, Setup!At, Setup!Goto
    <3>2. QED  BY <3>1 DEF Setup!CameToKey
  <2>5. ASSUME NEW n \in 1 .. 3, Setup!Open(j, n) PROVE Setup!CameToKey(i)'
    <3>1. stage[j].n = n /\ stage' = [stage EXCEPT ![j] = [does |-> "write", n |-> n]]
      BY <2>5 DEF Setup!Open, Setup!At, Setup!Goto
    <3>2. i = j /\ stage'[i] = [does |-> "write", n |-> n]
      BY <2>1, <3>1
    <3>3. QED  BY <3>1, <3>2 DEF Setup!CameToKey
  <2>6. ASSUME NEW n \in 1 .. 3, Setup!Write(j, n) PROVE Setup!CameToKey(i)'
    <3>1. stage[j].n = n
      BY <2>6 DEF Setup!Write, Setup!At
    <3>2. PICK m \in {2, 3}, what \in {"open", "done"} :
            stage' = [stage EXCEPT ![j] = [does |-> what, n |-> m]]
      BY <2>6 DEF Setup!Write, Setup!Goto
    <3>3. stage'[i] = [does |-> what, n |-> m]
      BY <2>1, <3>2
    <3>4. QED  BY <3>3 DEF Setup!CameToKey
  <2>7. QED  BY <1>1, <2>2, <2>3, <2>4, <2>5, <2>6 DEF Setup!Proceed
<1>2. stage'[i] = stage[i] => Setup!CameToKey(i)'
  BY DEF Setup!CameToKey
<1>3. ~ (\E j \in Inits : Setup!Proceed(j)) => stage' = stage
  BY DEF Setup!Next, Setup!Remove, Setup!FromFile, Setup!ReadLastHash, Setup!Append,
         Setup!AppendFails, Setup!VerifyLedger, Setup!vars
<1>4. QED  BY <1>1, <1>2, <1>3

\* A gate stays the gate it is.
LEMMA GateStays ==
  ASSUME SessionsInv, [Setup!Next]_(Setup!vars), NEW s \in Sessions, Setup!HasGate(s)
  PROVE  gateKey'[s] = gateKey[s] /\ Setup!HasGate(s)'
<1>1. ASSUME NEW t \in Sessions, Setup!FromFile(t) PROVE gateKey'[s] = gateKey[s]
  BY <1>1 DEF Setup!FromFile, SessionsInv, Setup!HasGate
<1>2. (\A t \in Sessions : ~ Setup!FromFile(t)) => gateKey' = gateKey
  BY DEF Setup!Next, Setup!Proceed, Setup!Start, Setup!Check, Setup!Refuse, Setup!Open,
         Setup!Write, Setup!Fail, Setup!Remove, Setup!ReadLastHash, Setup!Append,
         Setup!AppendFails, Setup!VerifyLedger, Setup!vars
<1>3. gateKey'[s] = gateKey[s]
  BY <1>1, <1>2
<1>4. QED  BY <1>3 DEF Setup!HasGate

\* The last sequence number and hash of a table that is numbered without gaps.
LEMMA SetupLast ==
  ASSUME NEW n \in Nat, NEW t, t = [q \in 1 .. n |-> t[q]]
  PROVE  /\ Setup!LastSequence(t) = n
         /\ Setup!LastHash(t) = IF n = 0 THEN GENESIS_HASH ELSE t[n].record_hash
<1>1. DOMAIN t = 1 .. n
  OBVIOUS
<1>2. CASE n = 0
  <2>1. t = << >>
    BY <1>1, <1>2
  <2>2. QED  BY <1>2, <2>1 DEF Setup!LastSequence, Setup!LastHash, Setup!EmptyTable
<1>3. CASE n # 0
  <2>1. t # << >> /\ n \in 1 .. n /\ \A q \in 1 .. n : n >= q
    BY <1>1, <1>3
  <2>2. Setup!Max(1 .. n) \in 1 .. n /\ \A q \in 1 .. n : Setup!Max(1 .. n) >= q
    BY <2>1, Zenon DEF Setup!Max
  <2>3. Setup!Max(1 .. n) = n
    BY <2>1, <2>2
  <2>4. QED  BY <1>1, <1>3, <2>1, <2>3 DEF Setup!LastSequence, Setup!LastHash, Setup!EmptyTable
<1>4. QED  BY <1>2, <1>3

\* The hash that the row at a place should link to.
Expected(q) == IF q = 1 THEN GENESIS_HASH ELSE chain[q - 1].record_hash

\* It is what verify_chain expects there.
LEMMA SetupBefore ==
  ASSUME NEW n \in Nat, chain = [q \in 1 .. n |-> chain[q]], NEW q \in 1 .. n
  PROVE  Setup!LastHash(Setup!Before(chain, q)) = Expected(q)
<1> DEFINE m == q - 1
           b == [r \in 1 .. m |-> chain[r]]
<1>1. DOMAIN chain = 1 .. n /\ {r \in 1 .. n : r < q} = 1 .. m /\ m \in Nat
  OBVIOUS
<1>2. Setup!Before(chain, q) = b
  BY <1>1 DEF Setup!Before
<1>3. b = [r \in 1 .. m |-> b[r]] /\ (m # 0 => b[m] = chain[m])
  BY <1>1
<1>4. Expected(q) = IF m = 0 THEN GENESIS_HASH ELSE chain[m].record_hash
  BY DEF Expected
<1> HIDE DEF b, m
<1>5. Setup!LastHash(b) = IF m = 0 THEN GENESIS_HASH ELSE b[m].record_hash
  BY <1>1, <1>3, SetupLast
<1>6. QED  BY <1>2, <1>3, <1>4, <1>5

\* Where no two rows link to one hash, each links to the one before it.
LEMMA UnforkedIsChain ==
  ASSUME NEW n \in Nat, chain = [q \in 1 .. n |-> chain[q]], ~ Setup!Forked,
         \A q \in 1 .. n : chain[q].previous_hash \in Links(q - 1)
  PROVE  \A q \in 1 .. n : chain[q].previous_hash = Expected(q)
<1> DEFINE S == {q \in 1 .. n : chain[q].previous_hash # Expected(q)}
<1>1. SUFFICES ASSUME S # {} PROVE FALSE
  OBVIOUS
<1>2. PICK l \in S : \A q \in S : l <= q
  <2>1. S \in SUBSET Nat
    OBVIOUS
  <2>2. QED  BY <1>1, <2>1, LeastElement
<1>3. l \in 1 .. n /\ chain[l].previous_hash # Expected(l)
  BY <1>2
<1>4. PICK k \in 1 .. l : chain[l].previous_hash = Expected(k)
  <2>1. CASE chain[l].previous_hash = GENESIS_HASH
    BY <1>3, <2>1 DEF Expected
  <2>2. ASSUME NEW r \in 1 .. l - 1, chain[l].previous_hash = chain[r].record_hash
        PROVE  \E k \in 1 .. l : chain[l].previous_hash = Expected(k)
    <3>1. r + 1 \in 1 .. l /\ r + 1 # 1 /\ (r + 1) - 1 = r
      BY <1>3
    <3>2. Expected(r + 1) = chain[r].record_hash
      BY <3>1 DEF Expected
    <3>3. QED  BY <2>2, <3>1, <3>2
  <2>3. QED  BY <1>3, <2>1, <2>2 DEF Links
<1>5. k \in 1 .. n /\ k < l
  BY <1>3, <1>4
<1>6. chain[k].previous_hash = Expected(k)
  BY <1>2, <1>3, <1>5
<1>7. QED  BY <1>3, <1>4, <1>5, <1>6 DEF Setup!Forked

\* Rows are added to, and those that are there stay.
LEMMA RowsStay ==
  ASSUME SessionsInv, [Setup!Next]_(Setup!vars)
  PROVE  \A q \in DOMAIN chain : q \in DOMAIN chain' /\ chain'[q] = chain[q]
<1>1. PICK n \in Nat : chain = [q \in 1 .. n |-> chain[q]]
  BY DEF SessionsInv, RowsOfGates
<1>2. ASSUME NEW s \in Sessions, Setup!Append(s)
      PROVE  \A q \in DOMAIN chain : q \in DOMAIN chain' /\ chain'[q] = chain[q]
  <2> DEFINE row == Setup!NewRecord(s, reading[s], Setup!LastSequence(chain) + 1, gateKey[s])
  <2>1. row.sequence = n + 1
    BY <1>1, SetupLast DEF Setup!NewRecord
  <2>2. chain' = [q \in DOMAIN chain \cup {row.sequence} |->
                   IF q = row.sequence THEN row ELSE chain[q]]
    BY <1>2 DEF Setup!Append, Setup!WithRow
  <2> HIDE DEF row
  <2>3. QED  BY <1>1, <2>1, <2>2
<1>3. (\A s \in Sessions : ~ Setup!Append(s)) => chain' = chain
  BY DEF Setup!Next, Setup!Proceed, Setup!Start, Setup!Check, Setup!Refuse, Setup!Open,
         Setup!Write, Setup!Fail, Setup!Remove, Setup!FromFile, Setup!ReadLastHash,
         Setup!AppendFails, Setup!VerifyLedger, Setup!vars, Setup!ledgers
<1>4. QED  BY <1>2, <1>3

\* What excuses tampering does so for ever.
LEMMA ExcuseStays ==
  ASSUME IInv, SessionsInv, [Setup!Next]_(Setup!vars), Excused
  PROVE  Excused'
<1>1. \A i \in Inits : Setup!CameToKey(i) => Setup!CameToKey(i)'
  BY CameStays
<1>2. \A q \in DOMAIN chain : q \in DOMAIN chain' /\ chain'[q] = chain[q]
  BY RowsStay
<1>3. Setup!Forked => Setup!Forked'
  BY <1>2 DEF Setup!Forked
<1>4. QED  BY <1>1, <1>2, <1>3 DEF Excused

\* Where rows stay what they are, they remain those of gates.
LEMMA RowsOfGatesStay ==
  ASSUME IInv, SessionsInv, [Setup!Next]_(Setup!vars), UNCHANGED chain,
         \A s \in Sessions : reading'[s] = reading[s] \/ reading'[s] = None
  PROVE  RowsOfGates'
<1>1. \A s \in Sessions : Setup!HasGate(s) => Setup!HasGate(s)' /\ gateKey'[s] = gateKey[s]
  BY GateStays
<1>2. \A n : Links(n)' = Links(n)
  BY DEF Links
<1>3. PICK n \in Nat :
        /\ chain = [q \in 1 .. n |-> chain[q]]
        /\ \A q \in 1 .. n : \E s \in Sessions, h \in Links(q - 1) :
             Setup!HasGate(s) /\ chain[q] = Setup!NewRecord(s, h, q, gateKey[s])
        /\ \A s \in Sessions : reading[s] # None => Setup!HasGate(s) /\ reading[s] \in Links(n)
  BY DEF SessionsInv, RowsOfGates
<1>4. ASSUME NEW q \in 1 .. n
      PROVE  \E s \in Sessions, h \in Links(q - 1)' :
               Setup!HasGate(s)' /\ chain'[q] = Setup!NewRecord(s, h, q, gateKey'[s])
  BY <1>1, <1>2, <1>3
<1>5. \A s \in Sessions : reading'[s] # None => Setup!HasGate(s)' /\ reading'[s] \in Links(n)'
  BY <1>1, <1>2, <1>3
<1>6. QED  BY <1>3, <1>4, <1>5 DEF RowsOfGates

\* record reads the hash of the last row, or the genesis hash.
LEMMA ReadKeepsRows ==
  ASSUME SessionsInv, NEW s \in Sessions, Setup!ReadLastHash(s)
  PROVE  RowsOfGates'
<1>1. PICK n \in Nat :
        /\ chain = [q \in 1 .. n |-> chain[q]]
        /\ \A q \in 1 .. n : \E t \in Sessions, h \in Links(q - 1) :
             Setup!HasGate(t) /\ chain[q] = Setup!NewRecord(t, h, q, gateKey[t])
        /\ \A t \in Sessions : reading[t] # None => Setup!HasGate(t) /\ reading[t] \in Links(n)
  BY DEF SessionsInv, RowsOfGates
<1>2. Setup!LastHash(chain) \in Links(n)
  BY <1>1, SetupLast DEF Links
<1>3. /\ UNCHANGED <<gateKey, chain>> /\ Setup!HasGate(s)
      /\ \A t \in Sessions : reading'[t] = IF t = s THEN Setup!LastHash(chain) ELSE reading[t]
  BY DEF Setup!ReadLastHash, SessionsInv
<1>4. \A m : Links(m)' = Links(m)
  BY <1>3 DEF Links
<1>5. \A t \in Sessions : Setup!HasGate(t)' <=> Setup!HasGate(t)
  BY <1>3 DEF Setup!HasGate
<1>6. \A q \in 1 .. n : \E t \in Sessions, h \in Links(q - 1)' :
        Setup!HasGate(t)' /\ chain'[q] = Setup!NewRecord(t, h, q, gateKey'[t])
  BY <1>1, <1>3, <1>4, <1>5
<1>7. \A t \in Sessions : reading'[t] # None => Setup!HasGate(t)' /\ reading'[t] \in Links(n)'
  BY <1>1, <1>2, <1>3, <1>4, <1>5
<1>8. QED  BY <1>1, <1>3, <1>6, <1>7 DEF RowsOfGates

\* The row that is added links to what was read.
LEMMA AppendKeepsRows ==
  ASSUME SessionsInv, NEW s \in Sessions, Setup!Append(s)
  PROVE  RowsOfGates'
<1>1. PICK n \in Nat :
        /\ chain = [q \in 1 .. n |-> chain[q]]
        /\ \A q \in 1 .. n : \E t \in Sessions, h \in Links(q - 1) :
             Setup!HasGate(t) /\ chain[q] = Setup!NewRecord(t, h, q, gateKey[t])
        /\ \A t \in Sessions : reading[t] # None => Setup!HasGate(t) /\ reading[t] \in Links(n)
  BY DEF SessionsInv, RowsOfGates
<1> DEFINE row == Setup!NewRecord(s, reading[s], n + 1, gateKey[s])
<1>2. chain' = Setup!WithRow(chain, row) /\ row.sequence = n + 1
  BY <1>1, SetupLast DEF Setup!Append, Setup!NewRecord
<1>3. /\ UNCHANGED gateKey /\ reading[s] # None
      /\ \A t \in Sessions : reading'[t] = IF t = s THEN None ELSE reading[t]
  BY DEF Setup!Append, SessionsInv
<1>h. \A t \in Sessions : Setup!HasGate(t)' <=> Setup!HasGate(t)
  BY <1>3 DEF Setup!HasGate
<1>4. row = Setup!NewRecord(s, reading[s], n + 1, gateKey'[s])
  BY <1>3
<1> HIDE DEF row
<1>5. /\ chain' = [q \in 1 .. n + 1 |-> chain'[q]]
      /\ \A q \in 1 .. n : chain'[q] = chain[q]
      /\ chain'[n + 1] = row
  <2>1. chain' = [q \in DOMAIN chain \cup {n + 1} |-> IF q = n + 1 THEN row ELSE chain[q]]
    BY <1>2 DEF Setup!WithRow
  <2>2. DOMAIN chain \cup {n + 1} = 1 .. n + 1
    BY <1>1
  <2>3. QED  BY <2>1, <2>2
<1>6. \A m \in 0 .. n : Links(m)' = Links(m)
  BY <1>5 DEF Links
<1>7. Links(n) \subseteq Links(n + 1)'
  BY <1>5 DEF Links
<1>8. ASSUME NEW q \in 1 .. n + 1
      PROVE  \E t \in Sessions, h \in Links(q - 1)' :
               Setup!HasGate(t)' /\ chain'[q] = Setup!NewRecord(t, h, q, gateKey'[t])
  <2>1. CASE q = n + 1
    <3>1. Setup!HasGate(s)' /\ reading[s] \in Links(n)'
      BY <1>1, <1>3, <1>h, <1>6
    <3>2. q - 1 = n
      BY <2>1
    <3>3. QED  BY <1>4, <1>5, <2>1, <3>1, <3>2
  <2>2. CASE q \in 1 .. n
    <3>1. q - 1 \in 0 .. n
      BY <2>2
    <3>2. QED  BY <1>1, <1>3, <1>h, <1>5, <1>6, <2>2, <3>1
  <2>3. QED  BY <2>1, <2>2
<1>9. \A t \in Sessions : reading'[t] # None => Setup!HasGate(t)' /\ reading'[t] \in Links(n + 1)'
  BY <1>1, <1>3, <1>h, <1>7
<1>10. n + 1 \in Nat
  OBVIOUS
<1>11. QED  BY <1>5, <1>8, <1>9, <1>10 DEF RowsOfGates

\* Rows that gates with one key recorded, without a fork, are intact to them.
LEMMA UnexcusedIsIntact ==
  ASSUME SessionsInv, ~ Excused, NEW s \in Keyed, Setup!HasGate(s)
  PROVE  Setup!VerifyChain(chain, gateKey[s])
<1>1. PICK n \in Nat :
        /\ chain = [q \in 1 .. n |-> chain[q]]
        /\ \A q \in 1 .. n : \E t \in Sessions, h \in Links(q - 1) :
             Setup!HasGate(t) /\ chain[q] = Setup!NewRecord(t, h, q, gateKey[t])
  BY DEF SessionsInv, RowsOfGates
<1>2. \A q \in 1 .. n : chain[q].previous_hash \in Links(q - 1)
  BY <1>1 DEF Setup!NewRecord
<1>3. \A q \in 1 .. n : chain[q].previous_hash = Expected(q)
  BY <1>1, <1>2, UnforkedIsChain DEF Excused
<1>4. ASSUME NEW q \in 1 .. n PROVE Setup!RowVerifies(chain, q, gateKey[s])
  <2>1. PICK t \in Sessions, h \in Links(q - 1) :
          Setup!HasGate(t) /\ chain[q] = Setup!NewRecord(t, h, q, gateKey[t])
    BY <1>1
  <2>2. DOMAIN chain = 1 .. n /\ chain[q].decision = t
    BY <1>1, <2>1 DEF Setup!NewRecord
  <2>3. gateKey[t] = gateKey[s]
    BY <2>1, <2>2 DEF SessionsInv, GatesHaveFileKeys, Excused
  <2>4. Setup!Loaded(chain[q].decision) = t
    BY <2>2, NamesDiffer DEF Setup!Loaded
  <2>5. Setup!LastHash(Setup!Before(chain, q)) = chain[q].previous_hash
    BY <1>1, <1>3, SetupBefore
  <2>6. QED  BY <2>1, <2>3, <2>4, <2>5 DEF Setup!RowVerifies, Setup!NewRecord
<1>5. QED  BY <1>1, <1>4 DEF Setup!VerifyChain

\* A new gate, a reading, a new row and a new verdict.
LEMMA SessionsKeep ==
  ASSUME IInv, SessionsInv, [Setup!Next]_(Setup!vars)
  PROVE  SessionsInv'
<1>1. UNCHANGED tampered => TamperedIsExcused'
  BY ExcuseStays DEF SessionsInv, TamperedIsExcused
<1>2. ASSUME UNCHANGED gateKey PROVE GatesHaveFileKeys'
  BY <1>2, CameStays, NamesDiffer DEF SessionsInv, GatesHaveFileKeys, Setup!HasGate
<1>3. ASSUME NEW s \in Sessions, Setup!FromFile(s) PROVE SessionsInv'
  <2>1. \A t \in Sessions : t # s => gateKey'[t] = gateKey[t]
    BY <1>3 DEF SessionsInv, Setup!FromFile
  <2>2. s \in Keyed /\ Setup!HasGate(s)' => gateKey'[s] \in Inits /\ Setup!CameToKey(gateKey'[s])
    <3>1. ASSUME s \in Keyed, Setup!HasGate(s)'
          PROVE  gateKey'[s] = files["key"] /\ Setup!Readable("key")
      BY <1>3, <3>1 DEF SessionsInv, Setup!FromFile, Setup!HasGate
    <3>2. Setup!Readable("key") => files["key"] \in Inits
      BY DEF IInv, TypeInv, Setup!Readable, Setup!Files
    <3>3. Setup!Readable("key") => Setup!CameToKey(files["key"])
      BY <3>2 DEF IInv, WritersCame, Setup!CameToKey
    <3>4. QED  BY <3>1, <3>2, <3>3
  <2>3. UNCHANGED <<stage, chain, reading, tampered>>
    BY <1>3 DEF Setup!FromFile, Setup!ledgers
  <2>4. GatesHaveFileKeys'
    BY <2>1, <2>2, <2>3, NamesDiffer
    DEF SessionsInv, GatesHaveFileKeys, Setup!HasGate, Setup!CameToKey
  <2>5. RowsOfGates'
    BY <2>3, RowsOfGatesStay
  <2>6. QED  BY <1>1, <1>3, <2>3, <2>4, <2>5 DEF SessionsInv, Setup!FromFile
<1>4. ASSUME NEW s \in Sessions, Setup!ReadLastHash(s) PROVE SessionsInv'
  <2>1. UNCHANGED <<gateKey, tampered>> /\ reading' = [t \in Sessions |-> reading'[t]]
    BY <1>4 DEF Setup!ReadLastHash, SessionsInv
  <2>2. QED  BY <1>1, <1>2, <1>4, <2>1, ReadKeepsRows DEF SessionsInv
<1>5. ASSUME NEW s \in Sessions, Setup!Append(s) PROVE SessionsInv'
  <2>1. UNCHANGED <<gateKey, tampered>> /\ reading' = [t \in Sessions |-> reading'[t]]
    BY <1>5 DEF Setup!Append, SessionsInv
  <2>2. QED  BY <1>1, <1>2, <1>5, <2>1, AppendKeepsRows DEF SessionsInv
<1>6. ASSUME NEW s \in Sessions, Setup!AppendFails(s) PROVE SessionsInv'
  <2>1. /\ UNCHANGED <<gateKey, chain, tampered>> /\ reading' = [t \in Sessions |-> reading'[t]]
        /\ \A t \in Sessions : reading'[t] = reading[t] \/ reading'[t] = None
    BY <1>6 DEF Setup!AppendFails, SessionsInv
  <2>2. QED  BY <1>1, <1>2, <2>1, RowsOfGatesStay DEF SessionsInv
<1>7. ASSUME NEW s \in Sessions, Setup!VerifyLedger(s) PROVE SessionsInv'
  <2>1. UNCHANGED <<stage, gateKey, chain, reading>> /\ Setup!HasGate(s)
    BY <1>7 DEF Setup!VerifyLedger
  <2>2. RowsOfGates'
    BY <2>1, RowsOfGatesStay
  <2>3. TamperedIsExcused'
    <3>1. CASE Excused
      BY <3>1, ExcuseStays DEF TamperedIsExcused
    <3>2. CASE ~ Excused /\ s \in Keyed
      BY <1>1, <1>7, <2>1, <3>2, UnexcusedIsIntact DEF Setup!VerifyLedger
    <3>3. CASE ~ Excused /\ s \notin Keyed
      <4>1. tampered' \cap Keyed = {}
        BY <1>7, <3>3 DEF Setup!VerifyLedger, SessionsInv, TamperedIsExcused
      <4>2. QED  BY <4>1 DEF TamperedIsExcused
    <3>4. QED  BY <3>1, <3>2, <3>3
  <2>4. QED  BY <1>2, <2>1, <2>2, <2>3 DEF SessionsInv
<1>8. ASSUME UNCHANGED <<gateKey, chain, reading, tampered>> PROVE SessionsInv'
  BY <1>1, <1>2, <1>8, RowsOfGatesStay DEF SessionsInv
<1>9. QED
  BY <1>3, <1>4, <1>5, <1>6, <1>7, <1>8
  DEF Setup!Next, Setup!Proceed, Setup!Start, Setup!Check, Setup!Refuse, Setup!Open, Setup!Write,
      Setup!Fail, Setup!Remove, Setup!vars, Setup!ledgers

\* Gates made with a key file that one run of init wrote find intact whatever
\* such gates record, for any number of gates, unless they fork the chain
\* (gate.py, from_file and verify_ledger; ledger.py, verify_chain).
THEOREM KeyedGatesVerify == ASSUME Serial PROVE Spec => []KeyedGatesAgree
<1>1. Init => IInv
  BY InitIsGood DEF Init
<1>2. ASSUME Init PROVE SessionsInv
  <2>1. /\ chain = << >> /\ tampered = {}
        /\ gateKey = [s \in Sessions |-> None] /\ reading = [s \in Sessions |-> None]
    BY <1>2 DEF Init, Setup!Init, Setup!EmptyTable
  <2>2. chain = [q \in 1 .. 0 |-> chain[q]]
    BY <2>1
  <2>3. RowsOfGates
    BY <2>1, <2>2 DEF RowsOfGates
  <2>4. QED
    BY <2>1, <2>3, NamesDiffer
    DEF SessionsInv, GatesHaveFileKeys, Setup!HasGate, TamperedIsExcused
<1>3. IInv /\ [Next]_vars => IInv'
  BY StepKeepsInvariant, StepsOfSetup
<1>4. IInv /\ SessionsInv /\ [Next]_vars => SessionsInv'
  BY SessionsKeep, StepsOfSetup
<1>5. SessionsInv => KeyedGatesAgree
  BY DEF SessionsInv, TamperedIsExcused, Excused, KeyedGatesAgree, Setup!KeyedGatesAgree
<1>6. QED  BY <1>1, <1>2, <1>3, <1>4, <1>5, PTL DEF Spec

-----------------------------------------------------------------------------
(***************************************************************************)
(* audit --verify-chain: a chain that verifies, and ends with a hash that  *)
(* record wrote, is one that record wrote.  The hashes pin the rows from   *)
(* the last one back to the first, whose previous hash is no hash.         *)
(***************************************************************************)

\* A chain of hashes: each covers the one before it.
Chained(a, n) ==
  \A i \in 1 .. n : \E c :
    a[i] = <<"sha256", c>> /\ c.previous_hash = IF i = 1 THEN GENESIS_HASH ELSE a[i - 1]

\* Equal hashes are of equal contents.
LEMMA HashIsOfOne == ASSUME NEW c, NEW d, <<"sha256", c>> = <<"sha256", d>> PROVE c = d
OBVIOUS

\* GENESIS_HASH is not the hash of anything.
GenesisIsNoHash == \A content : GENESIS_HASH # <<"sha256", content>>

\* Two chains with the same end are the same.
LEMMA ChainsAgree ==
  ASSUME GenesisIsNoHash, NEW n \in Nat \ {0}, NEW m \in Nat \ {0}, NEW a, NEW h,
         Chained(a, n), Chained(h, m), a[n] = h[m]
  PROVE  n = m /\ \A i \in 1 .. n : a[i] = h[i]
<1> DEFINE S == {k \in Nat : k < n /\ k < m /\ a[n - k] # h[m - k]}
<1>1. ASSUME NEW k \in Nat, k < n, k < m PROVE a[n - k] = h[m - k]
  <2>1. SUFFICES ASSUME S # {} PROVE FALSE
    BY <1>1
  <2>2. PICK l \in S : \A s \in S : l <= s
    BY <2>1, LeastElement
  <2>3. l \in Nat /\ l # 0 /\ l < n /\ l < m /\ a[n - l] # h[m - l]
    <3>1. a[n - 0] = h[m - 0]
      OBVIOUS
    <3>2. QED  BY <2>2, <3>1
  <2>4. l - 1 \in Nat /\ l - 1 < n /\ l - 1 < m /\ ~ l <= l - 1
    BY <2>3
  <2> DEFINE p == n - (l - 1)
             q == m - (l - 1)
  <2>5. a[p] = h[q]
    BY <2>2, <2>4
  <2>6. p \in 1 .. n /\ q \in 1 .. m /\ p # 1 /\ q # 1 /\ p - 1 = n - l /\ q - 1 = m - l
    BY <2>3
  <2> HIDE DEF p, q
  <2>7. PICK c : a[p] = <<"sha256", c>> /\ c.previous_hash = a[p - 1]
    BY <2>6 DEF Chained
  <2>8. PICK d : h[q] = <<"sha256", d>> /\ d.previous_hash = h[q - 1]
    BY <2>6 DEF Chained
  <2>9. c = d
    BY <2>5, <2>7, <2>8, HashIsOfOne, Zenon
  <2>10. QED  BY <2>3, <2>6, <2>7, <2>8, <2>9
<1>2. ~ m < n
  <2>1. SUFFICES ASSUME m < n PROVE FALSE
    OBVIOUS
  <2>2. m - 1 \in Nat /\ m - 1 < n /\ m - 1 < m /\ m - (m - 1) = 1
    BY <2>1
  <2> DEFINE p == n - (m - 1)
  <2>3. a[p] = h[1]
    BY <1>1, <2>2
  <2>4. p \in 1 .. n /\ p # 1 /\ p - 1 \in 1 .. n
    BY <2>1
  <2> HIDE DEF p
  <2>5. PICK c : a[p] = <<"sha256", c>> /\ c.previous_hash = a[p - 1]
    BY <2>4 DEF Chained
  <2>6. PICK d : h[1] = <<"sha256", d>> /\ d.previous_hash = GENESIS_HASH
    BY DEF Chained
  <2>7. PICK e : a[p - 1] = <<"sha256", e>>
    BY <2>4 DEF Chained
  <2>8. c = d
    BY <2>3, <2>5, <2>6, HashIsOfOne, Zenon
  <2>9. QED  BY <2>5, <2>6, <2>7, <2>8 DEF GenesisIsNoHash
<1>3. ~ n < m
  <2>1. SUFFICES ASSUME n < m PROVE FALSE
    OBVIOUS
  <2>2. n - 1 \in Nat /\ n - 1 < n /\ n - 1 < m /\ n - (n - 1) = 1
    BY <2>1
  <2> DEFINE p == m - (n - 1)
  <2>3. a[1] = h[p]
    BY <1>1, <2>2
  <2>4. p \in 1 .. m /\ p # 1 /\ p - 1 \in 1 .. m
    BY <2>1
  <2> HIDE DEF p
  <2>5. PICK c : h[p] = <<"sha256", c>> /\ c.previous_hash = h[p - 1]
    BY <2>4 DEF Chained
  <2>6. PICK d : a[1] = <<"sha256", d>> /\ d.previous_hash = GENESIS_HASH
    BY DEF Chained
  <2>7. PICK e : h[p - 1] = <<"sha256", e>>
    BY <2>4 DEF Chained
  <2>8. c = d
    BY <2>3, <2>5, <2>6, HashIsOfOne, Zenon
  <2>9. QED  BY <2>5, <2>6, <2>7, <2>8 DEF GenesisIsNoHash
<1>4. n = m
  BY <1>2, <1>3
<1>5. ASSUME NEW i \in 1 .. n PROVE a[i] = h[i]
  <2>1. n - i \in Nat /\ n - i < n /\ n - i < m /\ n - (n - i) = i /\ m - (n - i) = i
    BY <1>4
  <2>2. QED  BY <1>1, <2>1
<1>6. QED  BY <1>4, <1>5

\* Cardinality is what it is outside the instance.
LEMMA AuditCardinality == ASSUME NEW S PROVE Audit!Cardinality(S) = Cardinality(S)
BY DEF Audit!Cardinality, Cardinality

\* The columns of a row.
RowFields == {"decision", "record_hash", "previous_hash", "signature", "sequence"}

\* A table of rows, numbered from 1 or more, with gaps or without.
TableOfRows(t) ==
  /\ t = [s \in DOMAIN t |-> t[s]]
  /\ Numbers(DOMAIN t) /\ 0 \notin DOMAIN t
  /\ \A s \in DOMAIN t : DOMAIN t[s] = RowFields

\* The i-th hash is that of the i-th row.
LEMMA AuditHashes ==
  ASSUME NEW t
  PROVE  Audit!Hashes(t) = [i \in 1 .. Cardinality(DOMAIN t) |-> t[Nth(DOMAIN t, i)].record_hash]
<1>1. Audit!Ordered(t) = [i \in 1 .. Cardinality(DOMAIN t) |-> t[Nth(DOMAIN t, i)]]
  BY Zenon DEF Audit!Ordered, Audit!Cardinality, Cardinality, Nth, Place, Below
<1>2. QED  BY <1>1 DEF Audit!Hashes

\* Max is the greatest.
LEMMA AuditMax ==
  ASSUME NEW S \in SUBSET Nat, NEW m \in S, \A s \in S : m >= s
  PROVE  Audit!Max(S) = m
<1>1. Audit!Max(S) \in S /\ \A s \in S : Audit!Max(S) >= s
  BY Zenon DEF Audit!Max
<1>2. m \in Nat /\ Audit!Max(S) \in Nat /\ m >= Audit!Max(S) /\ Audit!Max(S) >= m
  BY <1>1
<1>3. QED  BY <1>2

\* The last sequence number and hash are those of the last row.
LEMMA AuditLast ==
  ASSUME NEW t, Numbers(DOMAIN t), DOMAIN t # {}
  PROVE  /\ Audit!LastSequence(t) = Nth(DOMAIN t, Cardinality(DOMAIN t))
         /\ Audit!LastHash(t) = t[Nth(DOMAIN t, Cardinality(DOMAIN t))].record_hash
<1>1. t # << >>
  OBVIOUS
<1>2. Audit!Max(DOMAIN t) = Nth(DOMAIN t, Cardinality(DOMAIN t))
  <2>1. DOMAIN t \in SUBSET Nat
    BY DEF Numbers
  <2>2. QED  BY <2>1, LastIsMax, AuditMax
<1>3. QED  BY <1>1, <1>2 DEF Audit!LastSequence, Audit!LastHash, Audit!EmptyTable

\* The hash before the i-th row is that of the row at the place before.
LEMMA AuditBefore ==
  ASSUME NEW t, Numbers(DOMAIN t), NEW i \in 1 .. Cardinality(DOMAIN t)
  PROVE  Audit!LastHash(Audit!Before(t, Nth(DOMAIN t, i))) =
           IF i = 1 THEN GENESIS_HASH ELSE t[Nth(DOMAIN t, i - 1)].record_hash
<1> DEFINE D == DOMAIN t
           s == Nth(D, i)
           b == [r \in Below(D, s) |-> t[r]]
<1>1. Audit!Before(t, s) = b
  BY DEF Audit!Before, Below
<1>2. CASE i = 1
  <2>1. Below(D, s) = {}
    <3>1. s \in D /\ Place(D, s) = 0
      BY <1>2, NthExists
    <3>2. Below(D, s) \subseteq D /\ IsFiniteSet(D)
      BY DEF Below, Numbers
    <3>3. QED  BY <3>1, <3>2, FS_Subset, FS_EmptySet DEF Place
  <2>2. b = << >>
    BY <2>1
  <2>3. QED  BY <1>1, <1>2, <2>2 DEF Audit!LastHash, Audit!EmptyTable
<1>3. CASE i # 1
  <2>1. Nth(D, i - 1) \in Below(D, s) /\ \A r \in Below(D, s) : Nth(D, i - 1) >= r
    BY <1>3, MaxBelow
  <2>2. Below(D, s) \in SUBSET Nat
    BY DEF Below, Numbers
  <2>3. Audit!Max(Below(D, s)) = Nth(D, i - 1)
    BY <2>1, <2>2, AuditMax
  <2>4. DOMAIN b = Below(D, s) /\ b # << >> /\ b[Nth(D, i - 1)] = t[Nth(D, i - 1)]
    <3> HIDE DEF s
    <3>1. DOMAIN b = Below(D, s)
      OBVIOUS
    <3>2. b # << >>
      BY <2>1, <3>1
    <3>3. QED  BY <2>1, <3>1, <3>2
  <2> HIDE DEF b, s, D
  <2>5. Audit!LastHash(b) = t[Nth(D, i - 1)].record_hash
    BY <2>3, <2>4 DEF Audit!LastHash, Audit!EmptyTable
  <2>6. QED  BY <1>1, <1>3, <2>5 DEF s, D
<1>4. QED  BY <1>2, <1>3

\* The hashes that record wrote, one after the other.
IsHistory(h) ==
  /\ Len(h) \in Nat
  /\ DOMAIN h = 1 .. Len(h) /\ h = [i \in 1 .. Len(h) |-> h[i]]
  /\ \A i \in 1 .. Len(h) : \E d \in DecisionsOf["audit"] :
       h[i] = Audit!ComputeHash(Audit!Signable(d, IF i = 1 THEN GENESIS_HASH ELSE h[i - 1], i))

\* A chain that verifies and ends with a hash of a history is that history.
LEMMA ChainIsRecorded ==
  ASSUME GenesisIsNoHash, NEW t, TableOfRows(t), NEW k, Audit!VerifyChain(t, k),
         NEW h \in histories, IsHistory(h), Len(h) > 0, h[Len(h)] = Audit!LastHash(t)
  PROVE  Audit!Recorded(t)
<1> DEFINE D == DOMAIN t
           n == Cardinality(D)
           m == Len(h)
           a == [i \in 1 .. n |-> t[Nth(D, i)].record_hash]
<1>0. Numbers(D) /\ n \in Nat /\ m \in Nat \ {0}
  BY FS_CardinalityType DEF TableOfRows, Numbers, IsHistory
<1>1. Chained(h, m)
  BY DEF Chained, IsHistory, Audit!ComputeHash, Audit!Signable
<1>2. ASSUME NEW i \in 1 .. n
      PROVE  a[i] = Audit!ComputeHash(Audit!Signable(Audit!Loaded(t[Nth(D, i)].decision),
                      t[Nth(D, i)].previous_hash, t[Nth(D, i)].sequence))
             /\ t[Nth(D, i)].previous_hash = IF i = 1 THEN GENESIS_HASH ELSE a[i - 1]
  <2>1. Nth(D, i) \in D
    BY <1>0, NthExists
  <2>2. t[Nth(D, i)].previous_hash = IF i = 1 THEN GENESIS_HASH ELSE t[Nth(D, i - 1)].record_hash
    BY <1>0, <2>1, AuditBefore DEF Audit!VerifyChain, Audit!RowVerifies
  <2>3. i # 1 => i - 1 \in 1 .. n
    BY <1>0
  <2>4. QED  BY <2>1, <2>2, <2>3 DEF Audit!VerifyChain, Audit!RowVerifies
<1>3. Chained(a, n)
  <2>1. ASSUME NEW i \in 1 .. n
        PROVE  \E c : a[i] = <<"sha256", c>>
                 /\ c.previous_hash = IF i = 1 THEN GENESIS_HASH ELSE a[i - 1]
    <3> DEFINE c == Audit!Signable(Audit!Loaded(t[Nth(D, i)].decision),
                      t[Nth(D, i)].previous_hash, t[Nth(D, i)].sequence)
    <3>1. a[i] = <<"sha256", c>>
      BY <1>2 DEF Audit!ComputeHash
    <3>2. c.previous_hash = IF i = 1 THEN GENESIS_HASH ELSE a[i - 1]
      BY <1>2 DEF Audit!Signable
    <3> HIDE DEF c, a
    <3>3. QED  BY <3>1, <3>2
  <2> HIDE DEF a, n
  <2>2. QED  BY <2>1 DEF Chained
<1>4. n # 0
  <2>1. SUFFICES ASSUME n = 0 PROVE FALSE
    OBVIOUS
  <2>2. D = {}
    BY <1>0, <2>1, FS_EmptySet DEF Numbers
  <2>3. Audit!LastHash(t) = GENESIS_HASH
    <3>1. t = << >>
      BY <2>2 DEF TableOfRows
    <3>2. QED  BY <3>1 DEF Audit!LastHash, Audit!EmptyTable
  <2>4. PICK c : h[m] = <<"sha256", c>>
    <3>1. m \in 1 .. m
      BY <1>0
    <3> HIDE DEF m
    <3>2. QED  BY <1>1, <3>1 DEF Chained
  <2>5. QED  BY <2>3, <2>4 DEF GenesisIsNoHash
<1>5. a[n] = h[m]
  <2>1. D # {}
    BY <1>0, <1>4, FS_EmptySet
  <2>2. QED  BY <1>0, <1>4, <2>1, AuditLast
<1>6. n = m /\ \A i \in 1 .. n : a[i] = h[i]
  <2> HIDE DEF n, m, a
  <2>1. QED  BY <1>0, <1>1, <1>3, <1>4, <1>5, ChainsAgree
<1>7. Audit!Hashes(t) = h
  BY <1>6, AuditHashes DEF IsHistory
<1>8. ASSUME NEW s \in D PROVE t[s].record_hash = Audit!ComputeHash(Audit!Content(t[s]))
  <2> DEFINE i == Place(D, s) + 1
  <2>1. i \in 1 .. n /\ Nth(D, i) = s
    BY <1>0, NthOfPlace
  <2>2. PICK d \in DecisionsOf["audit"] :
          h[i] = Audit!ComputeHash(Audit!Signable(d, IF i = 1 THEN GENESIS_HASH ELSE h[i - 1], i))
    BY <1>6, <2>1 DEF IsHistory
  <2>3. a[i] = Audit!ComputeHash(Audit!Signable(Audit!Loaded(t[s].decision),
                      t[s].previous_hash, t[s].sequence))
    BY <1>2, <2>1
  <2>4. Audit!Loaded(t[s].decision) = d
    <3> HIDE DEF i, n, a
    <3>1. a[i] = h[i]
      BY <1>6, <2>1
    <3>2. Audit!Signable(Audit!Loaded(t[s].decision), t[s].previous_hash, t[s].sequence)
            = Audit!Signable(d, IF i = 1 THEN GENESIS_HASH ELSE h[i - 1], i)
      BY <2>2, <2>3, <3>1, HashIsOfOne, Zenon DEF Audit!ComputeHash
    <3>3. QED  BY <3>2 DEF Audit!Signable
  <2>5. Audit!Loaded(t[s].decision) = t[s].decision
    BY <2>4, CommandsAssumption DEF Audit!Loaded
  <2>6. QED  BY <2>1, <2>3, <2>5 DEF Audit!Content
<1>9. QED  BY <1>7, <1>8 DEF Audit!Recorded

\* The ledger's key signed only what ends a history.
IsIssued(signature, hashes) ==
  \A c : signature = Audit!Sign(Key, c) =>
    \E h \in hashes : Len(h) > 0 /\ h[Len(h)] = Audit!ComputeHash(c)

\* So it is in every row of a table.
Issued(t, hashes) == \A s \in DOMAIN t : IsIssued(t[s].signature, hashes)

\* What the variables may hold while audit runs.
AuditTypeInv ==
  /\ edits \in Nat
  /\ option \in {NoKey, Key}
  /\ pc \in {"start", "count", "ended"}
  /\ pc \in {"start", "count"} => output = None

\* What record wrote.
HistoriesInv == << >> \in histories /\ \A h \in histories : IsHistory(h)

\* Before there are edits, the table is what record wrote last.
InOrder ==
  edits = 0 =>
    /\ DOMAIN table = 1 .. Cardinality(DOMAIN table)
    /\ Audit!Hashes(table) \in histories

\* The rows that verify_chain accepted, until their count is taken.
VerifiedInv ==
  pc = "count" =>
    /\ TableOfRows(input) /\ Issued(input, histories)
    /\ Audit!VerifyChain(input, option)
    /\ edits = 0 => DOMAIN input \subseteq DOMAIN table

\* The inductive invariant of audit.
AuditInv ==
  /\ AuditTypeInv
  /\ HistoriesInv
  /\ TableOfRows(table) /\ Issued(table, histories)
  /\ InOrder
  /\ VerifiedInv
  /\ Audit!CountCoversVerified

\* There is nothing in the database at first.
LEMMA AuditStarts ==
  ASSUME table = << >>, histories = {<< >>}, edits = 0, Audit!Init
  PROVE  AuditInv
<1>1. DOMAIN table = {} /\ Cardinality({}) = 0 /\ IsFiniteSet({})
  BY FS_EmptySet
<1>2. TableOfRows(table)
  BY <1>1 DEF TableOfRows, Numbers
<1>3. Audit!Hashes(table) = << >>
  BY <1>1, AuditHashes
<1>4. IsHistory(<< >>)
  BY DEF IsHistory
<1>5. QED
  BY <1>1, <1>2, <1>3, <1>4
  DEF Audit!Init, AuditInv, AuditTypeInv, HistoriesInv, Issued, InOrder, VerifiedInv,
      Audit!CountCoversVerified

\* The row that record adds to a table without gaps.
LEMMA AuditStore ==
  ASSUME NEW n \in Nat, DOMAIN table = 1 .. n, NEW d, Audit!Store(d)
  PROVE  LET row == Audit!NewRecord(d, IF n = 0 THEN GENESIS_HASH ELSE table[n].record_hash,
                                    n + 1, Key)
         IN  table' = [s \in 1 .. (n + 1) |-> IF s = n + 1 THEN row ELSE table[s]]
<1>1. Audit!LastSequence(table) = n
      /\ Audit!LastHash(table) = IF n = 0 THEN GENESIS_HASH ELSE table[n].record_hash
  <2>1. CASE n = 0
    BY <2>1 DEF Audit!LastSequence, Audit!LastHash, Audit!EmptyTable
  <2>2. CASE n # 0
    <3>1. Numbers(DOMAIN table) /\ Cardinality(DOMAIN table) = n /\ Nth(DOMAIN table, n) = n
      BY <2>2, NthOfInterval
    <3>2. n \in DOMAIN table
      BY <2>2
    <3>3. QED  BY <2>2, <3>1, <3>2, AuditLast
  <2>3. QED  BY <2>1, <2>2
<1>2. (DOMAIN table) \cup {n + 1} = 1 .. (n + 1)
  OBVIOUS
<1>3. QED  BY <1>1, <1>2 DEF Audit!Store, Audit!WithRow, Audit!NewRecord

\* A record adds a history, and a row that ends it.
LEMMA AuditRecords ==
  ASSUME AuditInv, NEW d \in DecisionsOf["audit"], Audit!Record(d)
  PROVE  AuditInv'
<1> DEFINE n == Cardinality(DOMAIN table)
           previous == IF n = 0 THEN GENESIS_HASH ELSE table[n].record_hash
           row == Audit!NewRecord(d, previous, n + 1, Key)
           content == Audit!Signable(d, previous, n + 1)
           h == Audit!Hashes(table)
           g == Audit!Hashes(table')
<1>0. /\ n \in Nat /\ DOMAIN table = 1 .. n /\ edits = 0 /\ h \in histories
      /\ TableOfRows(table)
  BY FS_CardinalityType DEF AuditInv, TableOfRows, Numbers, InOrder, Audit!Record
<1>1. table' = [s \in 1 .. (n + 1) |-> IF s = n + 1 THEN row ELSE table[s]]
  BY <1>0, AuditStore DEF Audit!Record
<1>2. DOMAIN row = RowFields /\ row.record_hash = Audit!ComputeHash(content)
      /\ row.signature = Audit!Sign(Key, content)
  BY DEF Audit!NewRecord, RowFields
<1>3. DOMAIN table' = 1 .. (n + 1) /\ Numbers(1 .. (n + 1)) /\ Cardinality(1 .. (n + 1)) = n + 1
  <2>1. n + 1 \in Nat /\ 1 \in 1 .. (n + 1)
    BY <1>0
  <2>2. QED  BY <1>1, <2>1, NthOfInterval
<1>4. TableOfRows(table')
  BY <1>0, <1>1, <1>2, <1>3 DEF TableOfRows
<1>5. h = [i \in 1 .. n |-> table[i].record_hash]
  BY <1>0, AuditHashes, NthOfInterval
<1>6. g = [i \in 1 .. (n + 1) |-> IF i = n + 1 THEN row.record_hash ELSE table[i].record_hash]
  <2>1. g = [i \in 1 .. (n + 1) |-> table'[Nth(1 .. (n + 1), i)].record_hash]
    BY <1>3, AuditHashes
  <2>2. \A i \in 1 .. (n + 1) : Nth(1 .. (n + 1), i) = i
    BY <1>0, NthOfInterval
  <2> HIDE DEF g, row
  <2>3. QED  BY <1>0, <1>1, <2>1, <2>2
<1>7. Len(h) = n /\ Len(g) = n + 1
  <2> HIDE DEF h, g
  <2>1. Len(h) = n
    BY <1>0, <1>5, LenOfFunction
  <2>2. n + 1 \in Nat /\ g = [i \in 1 .. (n + 1) |-> g[i]]
    BY <1>0, <1>6
  <2>3. QED  BY <2>1, <2>2, LenOfFunction
<1>8. IsHistory(g)
  <2>1. IsHistory(h)
    BY <1>0 DEF AuditInv, HistoriesInv
  <2>2. ASSUME NEW i \in 1 .. (n + 1)
        PROVE  \E e \in DecisionsOf["audit"] :
                 g[i] = Audit!ComputeHash(
                          Audit!Signable(e, IF i = 1 THEN GENESIS_HASH ELSE g[i - 1], i))
    <3>1. CASE i = n + 1
      <4>1. previous = IF i = 1 THEN GENESIS_HASH ELSE g[i - 1]
        BY <1>0, <1>6, <3>1
      <4>2. g[i] = Audit!ComputeHash(content)
        BY <1>0, <1>2, <1>6, <3>1
      <4>3. QED  BY <3>1, <4>1, <4>2
    <3>2. CASE i # n + 1
      <4>1. i \in 1 .. n /\ g[i] = h[i] /\ (i # 1 => g[i - 1] = h[i - 1])
        BY <1>0, <1>5, <1>6, <3>2
      <4>2. QED  BY <1>7, <2>1, <4>1 DEF IsHistory
    <3>3. QED  BY <3>1, <3>2
  <2> HIDE DEF g
  <2>3. Len(g) \in Nat /\ DOMAIN g = 1 .. Len(g) /\ g = [i \in 1 .. Len(g) |-> g[i]]
    BY <1>0, <1>6, <1>7
  <2>4. QED  BY <1>7, <2>2, <2>3 DEF IsHistory
<1>9. histories' = histories \cup {g}
  BY DEF Audit!Record
<1>10. Issued(table', histories') /\ (Issued(input, histories) => Issued(input, histories'))
  <2>1. \A x : IsIssued(x, histories) => IsIssued(x, histories')
    BY <1>9 DEF IsIssued
  <2>2. IsIssued(row.signature, histories')
    <3>1. g[n + 1] = Audit!ComputeHash(content)
      BY <1>0, <1>2, <1>6
    <3>2. \A c : row.signature = Audit!Sign(Key, c) => c = content
      BY <1>2 DEF Audit!Sign
    <3>3. Len(g) > 0 /\ g[Len(g)] = Audit!ComputeHash(content) /\ g \in histories'
      BY <1>0, <1>7, <1>9, <3>1
    <3> HIDE DEF g, row, content
    <3>4. QED  BY <3>2, <3>3 DEF IsIssued
  <2>3. \A s \in DOMAIN table : IsIssued(table[s].signature, histories')
    BY <2>1 DEF AuditInv, Issued
  <2>4. Issued(table', histories')
    <3> HIDE DEF row
    <3>1. QED  BY <1>0, <1>1, <1>3, <2>2, <2>3 DEF Issued
  <2>5. QED  BY <2>1, <2>4 DEF Issued
<1>11. QED
  <2> HIDE DEF g, h, row
  <2>1. UNCHANGED <<edits, pc, option, input, output>>
    BY DEF Audit!Record, Audit!audit
  <2>2. HistoriesInv'
    BY <1>8, <1>9 DEF AuditInv, HistoriesInv, IsHistory
  <2>3. InOrder'
    BY <1>3, <1>9 DEF InOrder, g
  <2>4. VerifiedInv'
    BY <1>0, <1>3, <1>10, <2>1
    DEF AuditInv, VerifiedInv, TableOfRows, Numbers, Audit!VerifyChain, Audit!RowVerifies
  <2>5. Audit!CountCoversVerified'
    BY <2>1 DEF AuditInv, Audit!CountCoversVerified
  <2>6. AuditTypeInv'
    BY <2>1 DEF AuditInv, AuditTypeInv
  <2>7. QED  BY <1>4, <1>10, <2>2, <2>3, <2>4, <2>5, <2>6 DEF AuditInv, TableOfRows, Numbers

\* Steps of audit itself.
LEMMA AuditReads ==
  ASSUME AuditInv, Audit!Verify \/ Audit!Count \/ Audit!StorageFails
  PROVE  AuditInv'
<1>1. UNCHANGED <<table, histories, edits, option>>
  BY DEF Audit!Verify, Audit!Count, Audit!StorageFails, Audit!database
<1>2. /\ HistoriesInv' /\ TableOfRows(table') /\ Issued(table', histories') /\ InOrder'
      /\ edits' \in Nat /\ option' \in {NoKey, Key}
  BY <1>1 DEF AuditInv, AuditTypeInv, HistoriesInv, IsHistory, InOrder, Audit!Hashes, Audit!Ordered
<1>3. CASE Audit!Verify
  <2>1. input' = table /\ pc = "start" /\ output = None
    BY <1>3 DEF Audit!Verify, AuditInv, AuditTypeInv
  <2>2. CASE Audit!VerifyChain(table, option)
    <3>1. pc' = "count" /\ output' = None
      BY <1>3, <2>1, <2>2 DEF Audit!Verify
    <3>2. VerifiedInv'
      BY <1>1, <1>2, <2>1, <2>2 DEF VerifiedInv, Audit!VerifyChain, Audit!RowVerifies
    <3>3. QED
      BY <1>1, <1>2, <3>1, <3>2 DEF AuditInv, AuditTypeInv, Audit!CountCoversVerified
  <2>3. CASE ~ Audit!VerifyChain(table, option)
    <3>1. pc' = "ended" /\ output' = Audit!Tampered
      BY <1>3, <2>1, <2>3 DEF Audit!Verify, Audit!Finish
    <3>2. QED
      BY <1>1, <1>2, <3>1 DEF AuditInv, AuditTypeInv, VerifiedInv, Audit!CountCoversVerified
  <2>4. QED  BY <2>2, <2>3
<1>4. CASE Audit!Count
  <2>1. /\ pc = "count" /\ pc' = "ended" /\ input' = input
        /\ output' = Audit!Valid(Audit!Cardinality(DOMAIN table))
    BY <1>4 DEF Audit!Count, Audit!Finish
  <2>2. Audit!CountCoversVerified'
    <3>1. SUFFICES ASSUME edits = 0
                   PROVE  Audit!Cardinality(DOMAIN input) <= Audit!Cardinality(DOMAIN table)
      BY <1>1, <2>1 DEF Audit!CountCoversVerified, Audit!Valid
    <3>2. IsFiniteSet(DOMAIN table) /\ DOMAIN input \subseteq DOMAIN table
      BY <2>1, <3>1 DEF AuditInv, VerifiedInv, TableOfRows, Numbers
    <3>3. QED  BY <3>2, FS_Subset, AuditCardinality
  <2>3. QED  BY <1>2, <2>1, <2>2 DEF AuditInv, AuditTypeInv, VerifiedInv
<1>5. CASE Audit!StorageFails
  <2>1. pc' = "ended" /\ output' = Audit!Tampered
    BY <1>5 DEF Audit!StorageFails, Audit!Finish
  <2>2. QED
    BY <1>1, <1>2, <2>1 DEF AuditInv, AuditTypeInv, VerifiedInv, Audit!CountCoversVerified
<1>6. QED  BY <1>3, <1>4, <1>5

\* What an edit makes: a table of rows, of which only those that there were
\* are signed with the ledger's key.
Edited(t) ==
  /\ TableOfRows(t)
  /\ \A s \in DOMAIN t :
       \/ \E r \in DOMAIN table : t[s].signature = table[r].signature
       \/ \E c : t[s].signature = Audit!Sign(OtherKey, c)

\* An edit keeps the invariant.
LEMMA EditKeeps ==
  ASSUME AuditInv, NEW t, Edited(t), Audit!Edit(t)
  PROVE  AuditInv'
<1>1. /\ table' = t /\ edits' = edits + 1
      /\ UNCHANGED <<histories, pc, option, input, output>>
  BY DEF Audit!Edit, Audit!audit
<1>2. edits' \in Nat /\ edits' # 0
  BY <1>1 DEF AuditInv, AuditTypeInv
<1>3. Issued(t, histories)
  <2>1. \A c, e : Audit!Sign(OtherKey, c) # Audit!Sign(Key, e)
    BY CommandsAssumption DEF Audit!Sign
  <2>2. ASSUME NEW s \in DOMAIN t PROVE IsIssued(t[s].signature, histories)
    <3>1. CASE \E r \in DOMAIN table : t[s].signature = table[r].signature
      BY <3>1 DEF AuditInv, Issued
    <3>2. CASE \E c : t[s].signature = Audit!Sign(OtherKey, c)
      BY <2>1, <3>2 DEF IsIssued
    <3>3. QED  BY <3>1, <3>2 DEF Edited
  <2>3. QED  BY <2>2 DEF Issued
<1>4. AuditTypeInv' /\ HistoriesInv'
  BY <1>1, <1>2 DEF AuditInv, AuditTypeInv, HistoriesInv, IsHistory
<1>5. VerifiedInv'
  BY <1>1, <1>2 DEF AuditInv, VerifiedInv, Audit!VerifyChain, Audit!RowVerifies
<1>6. InOrder' /\ Audit!CountCoversVerified'
  BY <1>2 DEF InOrder, Audit!CountCoversVerified
<1>7. QED  BY <1>1, <1>3, <1>4, <1>5, <1>6 DEF AuditInv, Edited

\* A row with one field changed.
LEMMA FieldEdited ==
  ASSUME TableOfRows(table), NEW s \in DOMAIN table, NEW field \in RowFields, NEW value,
         field = "signature" => \E c : value = Audit!Sign(OtherKey, c)
  PROVE  Edited([table EXCEPT ![s] = [@ EXCEPT ![field] = value]])
<1> DEFINE row == [table[s] EXCEPT ![field] = value]
           t == [table EXCEPT ![s] = row]
<1>1. /\ t = [r \in DOMAIN t |-> t[r]] /\ DOMAIN t = DOMAIN table
      /\ t[s] = row /\ \A r \in DOMAIN table : r # s => t[r] = table[r]
  BY DEF TableOfRows
<1>2. DOMAIN row = RowFields
  BY DEF TableOfRows
<1>3. row.signature = table[s].signature \/ \E c : row.signature = Audit!Sign(OtherKey, c)
  BY DEF TableOfRows, RowFields
<1> HIDE DEF row, t
<1>4. TableOfRows(t)
  BY <1>1, <1>2 DEF TableOfRows
<1>5. Edited(t)
  BY <1>1, <1>3, <1>4 DEF Edited
<1>6. QED  BY <1>5 DEF t, row

\* Every edit of a row is one that keeps it.
LEMMA AuditEdits ==
  ASSUME AuditInv, NEW s \in DOMAIN table, Audit!EditRow(s)
  PROVE  AuditInv'
<1>0. TableOfRows(table)
  BY DEF AuditInv
<1>1. ASSUME NEW d \in DecisionsOf["audit"], Audit!Alter(s, d) PROVE AuditInv'
  <2>1. Edited([table EXCEPT ![s].decision = d])
    BY <1>0, FieldEdited DEF RowFields
  <2>2. QED  BY <1>1, <2>1, EditKeeps DEF Audit!Alter
<1>2. CASE Audit!Rehash(s)
  <2> DEFINE hash == Audit!ComputeHash(Audit!Content(table[s]))
  <2>1. Edited([table EXCEPT ![s].record_hash = hash])
    <3> HIDE DEF hash
    <3>1. QED  BY <1>0, FieldEdited DEF RowFields
  <2>2. QED  BY <1>2, <2>1, EditKeeps DEF Audit!Rehash
<1>3. CASE Audit!Relink(s)
  <2> DEFINE hash == Audit!LastHash(Audit!Before(table, s))
  <2>1. Edited([table EXCEPT ![s].previous_hash = hash])
    <3> HIDE DEF hash
    <3>1. QED  BY <1>0, FieldEdited DEF RowFields
  <2>2. QED  BY <1>3, <2>1, EditKeeps DEF Audit!Relink
<1>4. CASE Audit!Resign(s)
  <2> DEFINE signature == Audit!Sign(OtherKey, Audit!Content(table[s]))
  <2>1. Edited([table EXCEPT ![s].signature = signature])
    <3>1. \E c : signature = Audit!Sign(OtherKey, c)
      OBVIOUS
    <3> HIDE DEF signature
    <3>2. QED  BY <1>0, <3>1, FieldEdited DEF RowFields
  <2>2. QED  BY <1>4, <2>1, EditKeeps DEF Audit!Resign
<1>5. CASE Audit!Drop(s)
  <2> DEFINE t == [q \in DOMAIN table \ {s} |-> table[q]]
  <2>1. Numbers(DOMAIN table \ {s})
    BY <1>0, FS_RemoveElement DEF TableOfRows, Numbers
  <2>2. Edited(t)
    BY <1>0, <2>1 DEF Edited, TableOfRows
  <2>3. QED  BY <1>5, <2>2, EditKeeps DEF Audit!Drop
<1>6. ASSUME NEW n \in (1 .. Audit!LastSequence(table) + 1) \ DOMAIN table, Audit!Renumber(s, n)
      PROVE  AuditInv'
  <2> DEFINE D == (DOMAIN table \ {s}) \cup {n}
             t == [q \in D |-> IF q = n THEN table[s] ELSE table[q]]
  <2>1. Audit!LastSequence(table) \in Nat
    <3>1. Numbers(DOMAIN table)
      BY <1>0 DEF TableOfRows
    <3>2. Nth(DOMAIN table, Cardinality(DOMAIN table)) \in Nat
      BY <3>1, LastIsMax DEF Numbers
    <3>3. QED  BY <3>1, <3>2, AuditLast
  <2>2. Numbers(D) /\ 0 \notin D
    <3>1. IsFiniteSet(DOMAIN table \ {s})
      BY <1>0, FS_RemoveElement DEF TableOfRows, Numbers
    <3>2. IsFiniteSet(D)
      BY <3>1, FS_AddElement
    <3>3. QED  BY <1>0, <2>1, <3>2 DEF TableOfRows, Numbers
  <2> HIDE DEF D
  <2>3. TableOfRows(t)
    BY <1>0, <2>2 DEF TableOfRows, D
  <2>4. Edited(t)
    BY <2>3 DEF Edited, D
  <2>5. QED  BY <1>6, <2>4, EditKeeps DEF Audit!Renumber, D
<1>7. QED  BY <1>1, <1>2, <1>3, <1>4, <1>5, <1>6 DEF Audit!EditRow

\* Every step does.
LEMMA AuditStepKeeps ==
  ASSUME AuditInv, [Audit!Next]_(Audit!vars)
  PROVE  AuditInv'
<1>1. ASSUME UNCHANGED Audit!vars PROVE AuditInv'
  BY <1>1
  DEF AuditInv, AuditTypeInv, HistoriesInv, IsHistory, InOrder, VerifiedInv, Audit!vars,
      Audit!database, Audit!audit, Audit!CountCoversVerified, Audit!Hashes, Audit!Ordered,
      Audit!VerifyChain, Audit!RowVerifies
<1>2. QED
  BY <1>1, AuditRecords, AuditReads, AuditEdits DEF Audit!Next

\* A chain that verifies with the ledger's key ends with a hash that record
\* wrote.
LEMMA KeyPinsLast ==
  ASSUME TableOfRows(input), Issued(input, histories), NoKey # Key,
         Audit!VerifyChain(input, Key), DOMAIN input # {}
  PROVE  \E h \in histories : Len(h) > 0 /\ h[Len(h)] = Audit!LastHash(input)
<1> DEFINE s == Nth(DOMAIN input, Cardinality(DOMAIN input))
           content == Audit!Signable(Audit!Loaded(input[s].decision), input[s].previous_hash,
                                     input[s].sequence)
<1>1. s \in DOMAIN input /\ Audit!LastHash(input) = input[s].record_hash
  BY LastIsMax, AuditLast DEF TableOfRows
<1>2. /\ input[s].record_hash = Audit!ComputeHash(content)
      /\ input[s].signature = Audit!Sign(Key, content)
  <2> HIDE DEF s
  <2>1. QED  BY <1>1 DEF Audit!VerifyChain, Audit!RowVerifies
<1> HIDE DEF s, content
<1>3. QED  BY <1>1, <1>2 DEF Issued, IsIssued

\* The invariant implies what audit is for.
LEMMA AuditTells ==
  ASSUME AuditInv, GenesisIsNoHash
  PROVE  Audit!ValidWithKeyIsRecorded /\ Audit!LastHashPinsRows
<1>1. ASSUME pc = "count", NEW h \in histories, Len(h) > 0, h[Len(h)] = Audit!LastHash(input)
      PROVE  Audit!Recorded(input)
  BY <1>1, ChainIsRecorded DEF AuditInv, VerifiedInv, HistoriesInv
<1>2. Audit!LastHashPinsRows
  BY <1>1 DEF Audit!LastHashPinsRows
<1>3. ASSUME pc = "count", option = Key PROVE Audit!Recorded(input)
  <2>1. CASE DOMAIN input = {}
    <3>1. Audit!Hashes(input) = << >>
      BY <2>1, AuditHashes, FS_EmptySet
    <3>2. QED  BY <2>1, <3>1 DEF Audit!Recorded, AuditInv, HistoriesInv
  <2>2. CASE DOMAIN input # {}
    BY <1>1, <1>3, <2>2, KeyPinsLast, CommandsAssumption DEF AuditInv, VerifiedInv
  <2>3. QED  BY <2>1, <2>2
<1>4. Audit!ValidWithKeyIsRecorded
  BY <1>3 DEF Audit!ValidWithKeyIsRecorded
<1>5. QED  BY <1>2, <1>4

\* Other commands take no part.
LEMMA AuditGoesOn ==
  (command = "audit" => AuditInv) /\ [Next]_vars => (command' = "audit" => AuditInv')
<1>1. SUFFICES ASSUME command = "audit", AuditInv, [Next]_vars PROVE AuditInv'
  BY DEF Next, vars
<1>2. [Audit!Next]_(Audit!vars)
  BY <1>1 DEF Next, vars, InitRuns, AuditRuns, ExportRuns, VerifyRuns, Audit!vars, Audit!database,
              Audit!audit, database
<1>3. QED  BY <1>1, <1>2, AuditStepKeeps

\* audit --verify-chain keeps its inductive invariant (cli.py, audit;
\* ledger.py, record and verify_chain).
THEOREM AuditInvariant == Spec => [](command = "audit" => AuditInv)
<1>1. Init => (command = "audit" => AuditInv)
  BY AuditStarts DEF Init, Invoke
<1>2. (command = "audit" => AuditInv) /\ [Next]_vars => (command = "audit" => AuditInv)'
  BY AuditGoesOn
<1>3. QED  BY <1>1, <1>2, PTL DEF Spec

\* A chain that verifies with the ledger's key is one that record wrote, for
\* any number of records and edits (cli.py, audit; ledger.py, verify_chain).
THEOREM ValidAuditIsRecorded == ASSUME GenesisIsNoHash PROVE Spec => []ValidWithKeyIsRecorded
<1>1. (command = "audit" => AuditInv) => ValidWithKeyIsRecorded
  BY AuditTells DEF ValidWithKeyIsRecorded
<1>2. QED  BY <1>1, AuditInvariant, PTL

\* Without a key, a chain whose last hash record wrote is one that record
\* wrote (ledger.py, verify_chain).
THEOREM LastHashPins == ASSUME GenesisIsNoHash PROVE Spec => []LastHashPinsRows
<1>1. (command = "audit" => AuditInv) => LastHashPinsRows
  BY AuditTells DEF LastHashPinsRows
<1>2. QED  BY <1>1, AuditInvariant, PTL

\* The count beside VALID covers the rows that were verified, however many
\* records come in between (cli.py, audit).
THEOREM CountCovers == Spec => []CountCoversVerified
<1>1. (command = "audit" => AuditInv) => CountCoversVerified
  BY DEF CountCoversVerified, AuditInv
<1>2. QED  BY <1>1, AuditInvariant, PTL

-----------------------------------------------------------------------------
(***************************************************************************)
(* export: the i-th row that a query selects stays the i-th, for a row that *)
(* is added comes after all others.                                        *)
(***************************************************************************)

\* The sequence numbers of the rows that a query selects, and how many of
\* them it returns.
Hits(t, q) == {s \in DOMAIN t : Export!Matches(t[s].decision, q)}

Returned(t, q) ==
  LET c == Cardinality(Hits(t, q)) IN IF q.limit < 0 \/ q.limit > c THEN c ELSE q.limit

\* Query, of any table.
QueryOf(t, q) == Export!Limited(Export!Ordered([s \in Hits(t, q) |-> t[s]]), q.limit)

\* What a query returns, row by row.
LEMMA QueryIs ==
  ASSUME NEW t, Numbers(DOMAIN t), NEW q, q.limit \in Int
  PROVE  /\ Numbers(Hits(t, q))
         /\ Returned(t, q) \in 0 .. Cardinality(Hits(t, q)) /\ Cardinality(Hits(t, q)) \in Nat
         /\ QueryOf(t, q) = [i \in 1 .. Returned(t, q) |-> t[Nth(Hits(t, q), i)]]
         /\ Len(QueryOf(t, q)) = Returned(t, q)
<1> DEFINE c == Cardinality(Hits(t, q))
           rows == [s \in Hits(t, q) |-> t[s]]
           all == [i \in 1 .. c |-> t[Nth(Hits(t, q), i)]]
<1>1. Numbers(Hits(t, q))
  BY FS_Subset DEF Hits, Numbers
<1>2. c \in Nat /\ Returned(t, q) \in 0 .. c
  <2>1. c \in Nat
    BY <1>1, FS_CardinalityType DEF Numbers
  <2> HIDE DEF c
  <2>2. QED  BY <2>1 DEF Returned, c
<1>3. Export!Ordered(rows) = all
  <2>1. Export!Ordered(rows) = [i \in 1 .. Cardinality(DOMAIN rows) |-> rows[Nth(DOMAIN rows, i)]]
    BY Zenon DEF Export!Ordered, Export!Cardinality, Cardinality, Nth, Place, Below
  <2>2. DOMAIN rows = Hits(t, q) /\ \A s \in Hits(t, q) : rows[s] = t[s]
    OBVIOUS
  <2> HIDE DEF rows
  <2>3. \A i \in 1 .. c : rows[Nth(DOMAIN rows, i)] = t[Nth(Hits(t, q), i)]
    BY <1>1, <2>2, NthExists
  <2>4. QED  BY <2>1, <2>2, <2>3
<1>4. QueryOf(t, q) = [i \in 1 .. Returned(t, q) |-> t[Nth(Hits(t, q), i)]]
  <2>1. all = [i \in 1 .. c |-> all[i]] /\ \A i \in 1 .. c : all[i] = t[Nth(Hits(t, q), i)]
    OBVIOUS
  <2> HIDE DEF all, c
  <2>2. Len(all) = c
    BY <1>2, <2>1, LenOfFunction
  <2>3. CASE q.limit < 0 \/ q.limit > c
    <3>1. QueryOf(t, q) = all
      BY <1>3, <2>2, <2>3 DEF QueryOf, Export!Limited
    <3>2. QED  BY <2>1, <2>3, <3>1 DEF Returned, c
  <2>4. CASE ~ (q.limit < 0 \/ q.limit > c)
    <3>1. QueryOf(t, q) = SubSeq(all, 1, q.limit) /\ Returned(t, q) = q.limit
      BY <1>3, <2>2, <2>4 DEF QueryOf, Export!Limited, Returned, c
    <3>2. q.limit \in 0 .. c
      BY <1>2, <3>1
    <3>3. SubSeq(all, 1, q.limit) = [i \in 1 .. q.limit |-> all[i]]
      BY <1>2, <2>1, <3>2, SubSeqOfFunction
    <3>4. QED  BY <1>2, <2>1, <3>1, <3>2, <3>3
  <2>5. QED  BY <2>3, <2>4
<1>5. Len(QueryOf(t, q)) = Returned(t, q)
  <2>1. Returned(t, q) \in Nat
    BY <1>2
  <2>2. QueryOf(t, q) = [i \in 1 .. Returned(t, q) |-> QueryOf(t, q)[i]]
    BY <1>4
  <2>3. QED  BY <2>1, <2>2, LenOfFunction
<1>6. QED  BY <1>1, <1>2, <1>4, <1>5

\* Query is that of the table, in this state and in the next.
LEMMA QueryIsOfTable ==
  /\ \A q : Export!Query(q) = QueryOf(table, q)
  /\ Export!Query(option)' = QueryOf(table', option')
BY DEF Export!Query, QueryOf, Export!Selected, Hits

\* A sequence that is a beginning of another one.
Begins(s, t) ==
  /\ Len(s) \in Nat /\ s = [i \in 1 .. Len(s) |-> s[i]]
  /\ Len(t) \in Nat /\ t = [i \in 1 .. Len(t) |-> t[i]]
  /\ Len(s) <= Len(t) /\ \A i \in 1 .. Len(s) : s[i] = t[i]

\* It is a prefix.
LEMMA BeginsIsPrefix == ASSUME NEW s, NEW t, Begins(s, t) PROVE Export!IsPrefix(s, t)
<1>1. SubSeq(s, 1, Len(s)) = [i \in 1 .. Len(s) |-> s[i]]
  BY SubSeqOfFunction DEF Begins
<1>2. SubSeq(t, 1, Len(s)) = [i \in 1 .. Len(s) |-> t[i]]
  BY SubSeqOfFunction DEF Begins
<1>3. QED  BY <1>1, <1>2 DEF Begins, Export!IsPrefix

\* The inductive invariant of export: what was fetched, and what was written,
\* is a beginning of what the query gives now.
ExportInv ==
  /\ table = [s \in DOMAIN table |-> table[s]] /\ Numbers(DOMAIN table)
  /\ \A s \in DOMAIN table : table[s].sequence = s /\ table[s].decision \in DecisionsOf["export"]
  /\ option \in Queries
  /\ pc # "start" => Begins(input, QueryOf(table, option))
  /\ file \notin {Absent, Empty} =>
       file.record_count = Len(file.records) /\ Begins(file.records, QueryOf(table, option))

\* There is nothing to export at first.
LEMMA ExportStarts ==
  ASSUME table = << >>, file = Absent, Export!Init
  PROVE  ExportInv
BY FS_EmptySet DEF ExportInv, Export!Init, Numbers

\* A record adds its row after all others.
LEMMA ExportStore ==
  ASSUME ExportInv, NEW d, Export!Store(d)
  PROVE  \E n \in Nat : \E row :
           /\ row.sequence = n /\ row.decision = d
           /\ \A s \in DOMAIN table : s < n
           /\ table' = [s \in DOMAIN table \cup {n} |-> IF s = n THEN row ELSE table[s]]
<1> DEFINE n == Export!LastSequence(table) + 1
           row == Export!NewRecord(d, Export!LastHash(table), n, Key)
<1>1. n \in Nat /\ \A s \in DOMAIN table : s < n
  <2>1. CASE DOMAIN table = {}
    <3>1. table = << >>
      BY <2>1 DEF ExportInv
    <3>2. QED  BY <2>1, <3>1 DEF Export!LastSequence, Export!EmptyTable
  <2>2. CASE DOMAIN table # {}
    <3> DEFINE m == Nth(DOMAIN table, Cardinality(DOMAIN table))
    <3>1. m \in DOMAIN table /\ \A s \in DOMAIN table : m >= s
      BY <2>2, LastIsMax DEF ExportInv
    <3>2. m \in Nat /\ \A s \in DOMAIN table : s \in Nat
      BY <3>1 DEF ExportInv, Numbers
    <3>3. Export!Max(DOMAIN table) = m
      <4> HIDE DEF m
      <4>1. Export!Max(DOMAIN table) \in DOMAIN table
            /\ \A s \in DOMAIN table : Export!Max(DOMAIN table) >= s
        BY <3>1, Zenon DEF Export!Max
      <4>2. m >= Export!Max(DOMAIN table) /\ Export!Max(DOMAIN table) >= m
        BY <3>1, <4>1
      <4>3. QED  BY <3>2, <4>1, <4>2
    <3>4. table # << >>
      BY <3>1
    <3>5. Export!LastSequence(table) = m
      BY <3>3, <3>4 DEF Export!LastSequence, Export!EmptyTable
    <3> HIDE DEF m
    <3>6. QED  BY <3>1, <3>2, <3>5
  <2>3. QED  BY <2>1, <2>2
<1>2. row.sequence = n /\ row.decision = d
  BY DEF Export!NewRecord
<1>3. table' = [s \in DOMAIN table \cup {n} |-> IF s = n THEN row ELSE table[s]]
  BY <1>2 DEF Export!Store, Export!WithRow
<1> HIDE DEF n, row
<1>4. QED
  BY <1>1, <1>2, <1>3

\* A query gives what it gave, and maybe more, after a record.
LEMMA QueryGrows ==
  ASSUME NEW t, Numbers(DOMAIN t), NEW q, q.limit \in Int,
         NEW n \in Nat, \A s \in DOMAIN t : s < n,
         NEW u, DOMAIN u = DOMAIN t \cup {n}, \A s \in DOMAIN t : u[s] = t[s]
  PROVE  Numbers(DOMAIN u) /\ Begins(QueryOf(t, q), QueryOf(u, q))
<1> DEFINE c == Cardinality(Hits(t, q))
           e == Cardinality(Hits(u, q))
           n1 == Returned(t, q)
           n2 == Returned(u, q)
           a == QueryOf(t, q)
           b == QueryOf(u, q)
<1>1. Numbers(DOMAIN u)
  <2>1. Numbers(DOMAIN t \cup {n})
    BY NthOfMore
  <2>2. QED  BY <2>1
<1>2. Hits(u, q) = Hits(t, q) \/ Hits(u, q) = Hits(t, q) \cup {n}
  BY DEF Hits
<1>3. /\ Numbers(Hits(t, q)) /\ c \in Nat
      /\ n1 \in 0 .. c /\ a = [i \in 1 .. n1 |-> t[Nth(Hits(t, q), i)]] /\ Len(a) = n1
  BY QueryIs
<1>4. /\ e \in Nat
      /\ n2 \in 0 .. e /\ b = [i \in 1 .. n2 |-> u[Nth(Hits(u, q), i)]] /\ Len(b) = n2
  BY <1>1, QueryIs
<1>5. c <= e /\ \A i \in 1 .. c : Nth(Hits(u, q), i) = Nth(Hits(t, q), i)
  <2>1. \A s \in Hits(t, q) : s < n
    BY DEF Hits
  <2>2. CASE Hits(u, q) = Hits(t, q)
    BY <1>3, <2>2
  <2>3. CASE Hits(u, q) = Hits(t, q) \cup {n}
    <3>1. /\ Cardinality(Hits(t, q) \cup {n}) = c + 1
          /\ \A i \in 1 .. c : Nth(Hits(t, q) \cup {n}, i) = Nth(Hits(t, q), i)
      BY <1>3, <2>1, NthOfMore
    <3>2. e = Cardinality(Hits(t, q) \cup {n})
      BY <2>3
    <3> HIDE DEF c, e
    <3>3. c <= e
      BY <1>3, <3>1, <3>2
    <3>4. QED  BY <2>3, <3>1, <3>3
  <2>4. QED  BY <1>2, <2>2, <2>3
<1> HIDE DEF c, e
<1>6. n1 <= n2
  BY <1>3, <1>4, <1>5 DEF Returned, c, e
<1> HIDE DEF n1, n2, a, b
<1>7. ASSUME NEW i \in 1 .. n1 PROVE a[i] = b[i]
  <2>1. i \in 1 .. c /\ i \in 1 .. n2
    BY <1>3, <1>4, <1>6
  <2>2. Nth(Hits(t, q), i) \in DOMAIN t /\ Nth(Hits(u, q), i) = Nth(Hits(t, q), i)
    BY <1>3, <1>5, <2>1, NthExists DEF Hits, c
  <2>3. QED  BY <1>3, <1>4, <2>1, <2>2
<1>8. Begins(a, b)
  <2>1. Len(a) = n1 /\ n1 \in Nat /\ a = [i \in 1 .. n1 |-> a[i]]
    BY <1>3
  <2>2. Len(b) = n2 /\ n2 \in Nat /\ b = [i \in 1 .. n2 |-> b[i]]
    BY <1>4
  <2>3. QED  BY <1>6, <1>7, <2>1, <2>2, Zenon DEF Begins
<1>9. QED  BY <1>1, <1>8 DEF a, b

\* A beginning of a beginning is one.
LEMMA BeginsLonger ==
  ASSUME NEW r, NEW s, NEW t, Begins(r, s), Begins(s, t)
  PROVE  Begins(r, t)
BY DEF Begins

\* Every step keeps the invariant: a record makes the query's answer longer,
\* and a file is written of what was a beginning of it before.
LEMMA ExportStepKeeps ==
  ASSUME ExportInv, [Export!Next]_(Export!vars)
  PROVE  ExportInv'
<1>1. ASSUME UNCHANGED Export!vars PROVE ExportInv'
  BY <1>1 DEF ExportInv, Export!vars
<1>2. ASSUME NEW d \in DecisionsOf["export"], Export!Record(d) PROVE ExportInv'
  <2>1. UNCHANGED <<option, pc, input, file>>
    BY <1>2 DEF Export!Record
  <2>2. PICK n \in Nat : \E row :
          /\ row.sequence = n /\ row.decision = d
          /\ \A s \in DOMAIN table : s < n
          /\ table' = [s \in DOMAIN table \cup {n} |-> IF s = n THEN row ELSE table[s]]
    <3>1. Export!Store(d)
      BY <1>2 DEF Export!Record
    <3>2. QED  BY <3>1, ExportStore
  <2>3. Numbers(DOMAIN table') /\ Begins(QueryOf(table, option), QueryOf(table', option))
    <3>1. option.limit \in Int /\ Numbers(DOMAIN table)
      BY CommandsAssumption DEF ExportInv
    <3>2. PICK row :
            /\ row.sequence = n /\ row.decision = d
            /\ \A s \in DOMAIN table : s < n
            /\ table' = [s \in DOMAIN table \cup {n} |-> IF s = n THEN row ELSE table[s]]
      BY <2>2
    <3>3. DOMAIN table' = DOMAIN table \cup {n} /\ \A s \in DOMAIN table : table'[s] = table[s]
      BY <3>2
    <3>4. QED  BY <2>2, <3>1, <3>3, QueryGrows
  <2>4. \A s \in DOMAIN table' : table'[s].sequence = s
                                 /\ table'[s].decision \in DecisionsOf["export"]
    BY <2>2 DEF ExportInv
  <2>5. table' = [s \in DOMAIN table' |-> table'[s]]
    BY <2>2
  <2>6. QED  BY <2>1, <2>3, <2>4, <2>5, BeginsLonger DEF ExportInv
<1>3. ASSUME Export!Fetch PROVE ExportInv'
  <2>1. Numbers(DOMAIN table) /\ option.limit \in Int
    BY CommandsAssumption DEF ExportInv
  <2>2. Begins(QueryOf(table, option), QueryOf(table, option))
    <3>1. /\ Returned(table, option) \in Nat
          /\ Len(QueryOf(table, option)) = Returned(table, option)
          /\ QueryOf(table, option) =
               [i \in 1 .. Returned(table, option) |-> table[Nth(Hits(table, option), i)]]
      BY <2>1, QueryIs
    <3>2. QED  BY <3>1 DEF Begins
  <2>3. input' = QueryOf(table, option) /\ UNCHANGED <<table, option, file>>
    BY <1>3, QueryIsOfTable DEF Export!Fetch
  <2>4. QED  BY <2>2, <2>3 DEF ExportInv
<1>4. ASSUME Export!OpenFile \/ Export!WriteFails PROVE ExportInv'
  BY <1>4 DEF ExportInv, Export!OpenFile, Export!WriteFails
<1>5. ASSUME Export!WriteFile PROVE ExportInv'
  BY <1>5 DEF ExportInv, Export!WriteFile
<1>6. QED  BY <1>1, <1>2, <1>3, <1>4, <1>5 DEF Export!Next

\* Other commands take no part.
LEMMA ExportSteps ==
  ASSUME command = "export", [Next]_vars PROVE [Export!Next]_(Export!vars) /\ command' = "export"
BY DEF Next, vars, InitRuns, AuditRuns, ExportRuns, VerifyRuns, Export!vars, database

\* export keeps its inductive invariant (cli.py, export; ledger.py, query).
THEOREM ExportInvariant == Spec => [](command = "export" => ExportInv)
<1>1. Init => (command = "export" => ExportInv)
  BY ExportStarts DEF Init, Invoke
<1>2. (command = "export" => ExportInv) /\ [Next]_vars => (command = "export" => ExportInv)'
  <2>1. SUFFICES ASSUME command' = "export", command = "export", ExportInv, [Next]_vars
                 PROVE  ExportInv'
    BY DEF Next, vars
  <2>2. QED  BY <2>1, ExportSteps, ExportStepKeeps
<1>3. QED  BY <1>1, <1>2, PTL DEF Spec

\* A whole export is a beginning of what the same query gives at any later
\* time (cli.py, export; ledger.py, query).
THEOREM ExportsStayPrefixes == Spec => []ExportStaysPrefix
<1>1. (command = "export" => ExportInv) => ExportStaysPrefix
  BY BeginsIsPrefix, QueryIsOfTable DEF ExportStaysPrefix, Export!ExportStaysPrefix, ExportInv
<1>2. QED  BY <1>1, ExportInvariant, PTL

\* Times are asked for in UTC.
QueriesAreUtc ==
  \A q \in Queries :
    /\ q.since # None => q.since = Export!Time(q.since.instant, 0) /\ q.since.instant \in Int
    /\ q.until # None => q.until = Export!Time(q.until.instant, 0) /\ q.until.instant \in Int

\* Then texts compare as the instants do.
LEMMA MatchesIsAsks ==
  ASSUME QueriesAreUtc, NEW q \in Queries, NEW d \in DecisionsOf["export"]
  PROVE  Export!Matches(d, q) <=> Export!Asks(d, q)
<1>1. d.timestamp = Export!Time(d.timestamp.instant, 0) /\ d.timestamp.instant \in Int
  BY CommandsAssumption
<1>2. \A i, j \in Int : Export!TextAtMost(Export!Time(i, 0), Export!Time(j, 0)) <=> i <= j
  BY DEF Export!TextAtMost, Export!Clock, Export!OffsetRank, Export!Time
<1>3. q.since # None =>
        (Export!TextAtMost(q.since, d.timestamp) <=> d.timestamp.instant >= q.since.instant)
  BY <1>1, <1>2 DEF QueriesAreUtc
<1>4. q.until # None =>
        (Export!TextAtMost(d.timestamp, q.until) <=> d.timestamp.instant <= q.until.instant)
  BY <1>1, <1>2 DEF QueriesAreUtc
<1>5. QED  BY <1>3, <1>4 DEF Export!Matches, Export!Asks, Export!Given

\* A query gives what was asked for, and leaves out what comes later.
LEMMA FetchSelects ==
  ASSUME QueriesAreUtc, ExportInv, Export!Fetch
  PROVE  Export!SelectsWhatIsAsked
<1> DEFINE H == Hits(table, option)
           n == Returned(table, option)
           asked == {r \in Export!Rows : Export!Asks(r.decision, option)}
           answered == Export!ToSet(input')
<1>1. /\ Numbers(H) /\ n \in 0 .. Cardinality(H) /\ Cardinality(H) \in Nat
      /\ input' = [i \in 1 .. n |-> table[Nth(H, i)]] /\ Len(input') = n
  BY QueryIs, QueryIsOfTable, CommandsAssumption DEF ExportInv, Export!Fetch
<1>2. \A s \in DOMAIN table : s \in H <=> Export!Asks(table[s].decision, option)
  BY MatchesIsAsks DEF ExportInv, Hits
<1>3. ASSUME NEW i \in 1 .. n
      PROVE  /\ i \in 1 .. Cardinality(H) /\ Nth(H, i) \in H /\ Nth(H, i) \in DOMAIN table
             /\ input'[i] = table[Nth(H, i)] /\ input'[i].sequence = Nth(H, i)
  BY <1>1, NthExists DEF ExportInv, Hits
<1>4. DOMAIN input' = 1 .. n
  BY <1>1
<1>5. answered = {input'[i] : i \in 1 .. n}
  BY <1>4 DEF Export!ToSet
<1> HIDE DEF H, n
<1>6. answered \subseteq asked
  BY <1>2, <1>3, <1>5 DEF Export!Rows
<1>7. \A i, j \in DOMAIN input' : i < j => input'[i].sequence < input'[j].sequence
  BY <1>1, <1>3, <1>4, NthGrows
<1>8. ASSUME NEW r \in asked \ answered
      PROVE  Len(input') = option.limit /\ \A a \in answered : a.sequence < r.sequence
  <2>1. PICK s \in DOMAIN table : r = table[s] /\ s \in H
    BY <1>2 DEF Export!Rows
  <2> DEFINE p == Place(H, s) + 1
  <2>2. p \in 1 .. Cardinality(H) /\ Nth(H, p) = s
    BY <1>1, <2>1, NthOfPlace
  <2>3. p \notin 1 .. n
    BY <1>3, <1>5, <1>8, <2>1, <2>2
  <2> HIDE DEF p
  <2>4. n < p
    BY <1>1, <2>2, <2>3
  <2>5. n # Cardinality(H)
    BY <1>1, <2>2, <2>4
  <2>6. n = option.limit
    BY <2>5 DEF Returned, n, H
  <2>7. ASSUME NEW i \in 1 .. n PROVE input'[i].sequence < r.sequence
    <3>1. i < p
      BY <1>1, <2>2, <2>4
    <3>2. Nth(H, i) < s
      BY <1>1, <1>3, <2>2, <3>1, NthGrows
    <3>3. r.sequence = s
      BY <2>1 DEF ExportInv
    <3>4. QED  BY <1>3, <3>2, <3>3
  <2>8. QED  BY <1>1, <1>5, <2>6, <2>7
<1>9. QED  BY <1>6, <1>7, <1>8 DEF Export!SelectsWhatIsAsked

\* audit and export get the oldest records that were asked for, up to the
\* limit, when times are asked for in UTC (ledger.py, query).
THEOREM ResultsAreSelections == ASSUME QueriesAreUtc PROVE Spec => ResultIsSelection
<1>1. (command = "export" => ExportInv) /\ [Next]_vars
        => [command = "export" /\ input' # input => Export!SelectsWhatIsAsked]_vars
  <2>1. SUFFICES ASSUME ExportInv, [Next]_vars, command = "export", input' # input
                 PROVE  Export!SelectsWhatIsAsked
    OBVIOUS
  <2>2. Export!Fetch
    BY <2>1, ExportSteps
    DEF Export!Next, Export!vars, Export!Record, Export!OpenFile, Export!WriteFile,
        Export!WriteFails
  <2>3. QED  BY <2>1, <2>2, FetchSelects
<1>2. QED  BY <1>1, ExportInvariant, PTL DEF Spec, ResultIsSelection

-----------------------------------------------------------------------------
(***************************************************************************)
(* verify: whatever is in a file, what the ledger's key signed in it is what *)
(* it signed in some row.                                                  *)
(***************************************************************************)

\* A row as record writes it.
IsRow(r) ==
  \E d \in DecisionsOf["verify"] : \E hash, n : r = Verify!NewRecord(d, hash, n, Key)

\* The record of a receipt: what the ledger's key signed in it is what some row
\* says.
IsCopy(record, rows) ==
  /\ DOMAIN record \subseteq RowFields
  /\ record = [f \in DOMAIN record |-> record[f]]
  /\ "signature" \in DOMAIN record =>
       \A c : record.signature = Verify!Sign(Key, c) =>
         \E r \in rows : r.signature = Verify!Sign(Key, c)

\* A receipt, or what is left of it.
IsDocument(doc, rows) ==
  \/ doc = NoMapping
  \/ /\ doc = [format |-> doc.format, record |-> doc.record, public_key |-> doc.public_key]
     /\ doc.record = NoMapping \/ IsCopy(doc.record, rows)

\* The file of a receipt that nobody edited.
Genuine(doc, rows) ==
  \E r \in rows : doc = Verify!Document(Verify!SaveAndLoad(Verify!CreateReceipt(r, Key)))

\* What a file holds, edited or not.
Good(doc, rows, edited) == IsDocument(doc, rows) /\ (edited = 0 => Genuine(doc, rows))

\* The inductive invariant of verify.
VerifyInv ==
  /\ edits \in Nat /\ option \in {NoKey, Key, OtherKey}
  /\ \A r \in Verify!Rows : IsRow(r)
  /\ saving # None => Good(saving, Verify!Rows, edits)
  /\ file \notin {Absent, Partial} => Good(file, Verify!Rows, edits)
  /\ input # None => Good(input, Verify!Rows, edits)
  /\ input = None => output \in {None, "raised"}
  /\ input # None => output \in {None, Verify!Outcome(input)}

\* There is no file at first.
LEMMA VerifyStarts ==
  ASSUME table = << >>, saving = None, file = Absent, edits = 0, Verify!Init
  PROVE  VerifyInv
BY DEF VerifyInv, Verify!Init, Verify!Rows

\* The outcome is of the document and of the key alone.
LEMMA OutcomeStays ==
  ASSUME UNCHANGED <<option, input>>
  PROVE  Verify!Outcome(input)' = Verify!Outcome(input)
BY DEF Verify!Outcome, Verify!WellFormed, Verify!KeyFits, Verify!HasContent, Verify!Verifies,
       Verify!VerifyReceipt

\* A record adds a row and leaves the file as it is.
LEMMA VerifyRecords ==
  ASSUME VerifyInv, NEW d \in DecisionsOf["verify"], Verify!Record(d)
  PROVE  VerifyInv'
<1> DEFINE row == Verify!NewRecord(d, Verify!LastHash(table), Verify!LastSequence(table) + 1, Key)
<1>1. Verify!Rows \subseteq Verify!Rows' /\ \A r \in Verify!Rows' : r \in Verify!Rows \/ r = row
  <2>1. /\ row.sequence \notin DOMAIN table
        /\ table' = [s \in DOMAIN table \cup {row.sequence} |->
                       IF s = row.sequence THEN row ELSE table[s]]
    BY DEF Verify!Record, Verify!Store, Verify!Violates, Verify!WithRow
  <2> HIDE DEF row
  <2>2. QED  BY <2>1 DEF Verify!Rows
<1>2. IsRow(row)
  BY DEF IsRow
<1>3. UNCHANGED <<saving, file, edits, option, input, output>>
  BY DEF Verify!Record
<1> HIDE DEF row
<1>4. \A doc : Good(doc, Verify!Rows, edits) => Good(doc, Verify!Rows', edits)
  BY <1>1 DEF Good, IsDocument, IsCopy, Genuine
<1>5. Verify!Outcome(input)' = Verify!Outcome(input)
  BY <1>3, OutcomeStays
<1>6. \A r \in Verify!Rows' : IsRow(r)
  BY <1>1, <1>2 DEF VerifyInv
<1>7. QED
  BY <1>3, <1>4, <1>5, <1>6 DEF VerifyInv

\* What is saved is good.
LEMMA SavedIsGood ==
  ASSUME NEW rows, NEW r \in rows, IsRow(r), NEW n
  PROVE  Good(Verify!Document(Verify!SaveAndLoad(Verify!CreateReceipt(r, Key))), rows, n)
<1> DEFINE record == [r EXCEPT !.decision = Verify!Loaded(@)]
           doc == Verify!Document(Verify!SaveAndLoad(Verify!CreateReceipt(r, Key)))
<1>1. doc = [format |-> "policybound-receipt", record |-> record, public_key |-> Key]
  BY DEF Verify!Document, Verify!SaveAndLoad, Verify!CreateReceipt
<1>2. DOMAIN r = RowFields
  BY DEF IsRow, Verify!NewRecord, RowFields
<1>3. DOMAIN record = RowFields /\ record.signature = r.signature
  BY <1>2 DEF RowFields
<1>4. record = [f \in DOMAIN record |-> record[f]]
  BY <1>2
<1> HIDE DEF record
<1>5. IsDocument(doc, rows)
  BY <1>1, <1>3, <1>4 DEF IsDocument, IsCopy
<1>6. Genuine(doc, rows)
  BY DEF Genuine
<1>7. QED  BY <1>5, <1>6 DEF Good

\* Saving, loading and verifying.
LEMMA VerifyProceeds ==
  ASSUME VerifyInv,
         \/ \E row \in Verify!Rows : Verify!OpenToSave(row)
         \/ Verify!WriteReceipt \/ Verify!SaveFails
         \/ Verify!LoadReceipt \/ Verify!LoadFails \/ Verify!Verify
  PROVE  VerifyInv'
<1>1. UNCHANGED <<table, edits, option>>
  BY DEF Verify!OpenToSave, Verify!WriteReceipt, Verify!SaveFails, Verify!EndSave,
         Verify!LoadReceipt, Verify!LoadFails, Verify!Verify
<1>2. Verify!Rows' = Verify!Rows
  BY <1>1 DEF Verify!Rows
<1>3. UNCHANGED input => Verify!Outcome(input)' = Verify!Outcome(input)
  BY <1>1, OutcomeStays
<1>4. ASSUME NEW row \in Verify!Rows, Verify!OpenToSave(row) PROVE VerifyInv'
  <2>1. Good(saving', Verify!Rows, edits)
    BY <1>4, SavedIsGood DEF VerifyInv, Verify!OpenToSave
  <2>2. file' = Partial /\ UNCHANGED <<input, output>>
    BY <1>4 DEF Verify!OpenToSave
  <2>3. QED  BY <1>1, <1>2, <1>3, <2>1, <2>2 DEF VerifyInv
<1>5. CASE Verify!WriteReceipt \/ Verify!SaveFails
  <2>1. /\ saving # None /\ saving' = None /\ file' \in {saving, Partial}
        /\ UNCHANGED <<input, output>>
    BY <1>5 DEF Verify!WriteReceipt, Verify!SaveFails, Verify!EndSave
  <2>2. QED  BY <1>1, <1>2, <1>3, <2>1 DEF VerifyInv
<1>6. CASE Verify!LoadReceipt
  <2>1. /\ file \notin {Absent, Partial} /\ input' = file /\ output = None
        /\ UNCHANGED <<saving, file, output>>
    BY <1>6 DEF Verify!LoadReceipt, Verify!Whole
  <2>2. QED  BY <1>1, <1>2, <2>1 DEF VerifyInv
<1>7. CASE Verify!LoadFails
  <2>1. input = None /\ output' = "raised" /\ UNCHANGED <<saving, file, input>>
    BY <1>7 DEF Verify!LoadFails
  <2>2. QED  BY <1>1, <1>2, <2>1 DEF VerifyInv
<1>8. CASE Verify!Verify
  <2>1. input # None /\ output' = Verify!Outcome(input) /\ UNCHANGED <<saving, file, input>>
    BY <1>8 DEF Verify!Verify
  <2>2. QED  BY <1>1, <1>2, <1>3, <2>1 DEF VerifyInv
<1>9. QED  BY <1>4, <1>5, <1>6, <1>7, <1>8

\* An edit of the file keeps the invariant.
LEMMA FileEditKeeps ==
  ASSUME VerifyInv, NEW doc, IsDocument(doc, Verify!Rows), Verify!Edit(doc)
  PROVE  VerifyInv'
<1>1. file' = doc /\ edits' = edits + 1 /\ UNCHANGED <<table, saving, option, input, output>>
  BY DEF Verify!Edit
<1>2. edits' \in Nat /\ edits' # 0
  BY <1>1 DEF VerifyInv
<1>3. Verify!Rows' = Verify!Rows
  BY <1>1 DEF Verify!Rows
<1>4. Verify!Outcome(input)' = Verify!Outcome(input)
  BY <1>1, OutcomeStays
<1>5. \A x : Good(x, Verify!Rows, edits) => Good(x, Verify!Rows', edits')
  BY <1>2, <1>3 DEF Good
<1>6. Good(doc, Verify!Rows', edits')
  BY <1>2, <1>3 DEF Good
<1>7. QED  BY <1>1, <1>2, <1>3, <1>4, <1>5, <1>6 DEF VerifyInv

\* A file whose record is another one.
LEMMA RecordEdited ==
  ASSUME NEW rows, file # NoMapping, IsDocument(file, rows), NEW record,
         record = NoMapping \/ IsCopy(record, rows)
  PROVE  IsDocument([file EXCEPT !.record = record], rows)
<1>1. [file EXCEPT !.record = record] =
        [format |-> file.format, record |-> record, public_key |-> file.public_key]
  BY DEF IsDocument
<1>2. QED  BY <1>1 DEF IsDocument

\* One field of it is another one.
LEMMA FieldOfFileEdited ==
  ASSUME NEW rows, file # NoMapping, IsDocument(file, rows), file.record # NoMapping,
         NEW field \in DOMAIN file.record, NEW value,
         field = "signature" => \E r \in rows : r.signature = value
  PROVE  IsDocument([file EXCEPT !.record = [@ EXCEPT ![field] = value]], rows)
<1> DEFINE record == [file.record EXCEPT ![field] = value]
<1>1. /\ DOMAIN record = DOMAIN file.record
      /\ record = [f \in DOMAIN record |-> record[f]]
      /\ field = "signature" => record.signature = value
      /\ field # "signature" => record.signature = file.record.signature
  BY DEF IsDocument, IsCopy
<1> HIDE DEF record
<1>2. DOMAIN record \subseteq RowFields
  BY <1>1 DEF IsDocument, IsCopy
<1>3. "signature" \in DOMAIN record =>
        \A c : record.signature = Verify!Sign(Key, c) =>
          \E r \in rows : r.signature = Verify!Sign(Key, c)
  BY <1>1 DEF IsDocument, IsCopy
<1>4. IsDocument([file EXCEPT !.record = record], rows)
  BY <1>1, <1>2, <1>3, RecordEdited DEF IsCopy
<1>5. QED  BY <1>4 DEF record, IsDocument

\* Every edit of it is one that keeps it.
LEMMA VerifyEdits ==
  ASSUME VerifyInv, Verify!EditFile
  PROVE  VerifyInv'
<1>0. IsDocument(file, Verify!Rows) /\ file # NoMapping
  BY DEF VerifyInv, Good, Verify!EditFile, Verify!Whole
<1>i. file.record # NoMapping => IsCopy(file.record, Verify!Rows)
  BY <1>0 DEF IsDocument
<1>1. ASSUME file.record # NoMapping, NEW field \in DOMAIN file.record, Verify!Lose(field)
      PROVE  VerifyInv'
  <2> DEFINE record == [f \in DOMAIN file.record \ {field} |-> file.record[f]]
  <2>1. /\ DOMAIN record = DOMAIN file.record \ {field}
        /\ record = [f \in DOMAIN record |-> record[f]]
        /\ "signature" \in DOMAIN record => record.signature = file.record.signature
    OBVIOUS
  <2> HIDE DEF record
  <2>2. IsDocument([file EXCEPT !.record = record], Verify!Rows)
    BY <1>0, <1>i, <1>1, <2>1, RecordEdited DEF IsCopy
  <2>3. QED  BY <1>1, <2>2, FileEditKeeps DEF Verify!Lose, record
<1>2. ASSUME file.record # NoMapping, NEW field \in DOMAIN file.record, NEW row \in Verify!Rows,
             Verify!Transplant(field, row)
      PROVE  VerifyInv'
  <2>1. field = "signature" => row.signature = row[field]
    OBVIOUS
  <2>2. IsDocument([file EXCEPT !.record = [@ EXCEPT ![field] = row[field]]], Verify!Rows)
    BY <1>0, <1>2, <2>1, FieldOfFileEdited
  <2>3. QED  BY <1>2, <2>2, FileEditKeeps DEF Verify!Transplant
<1>3. ASSUME file.record # NoMapping, "decision" \in DOMAIN file.record, NEW d, Verify!Alter(d)
      PROVE  VerifyInv'
  <2>1. IsDocument([file EXCEPT !.record = [@ EXCEPT !["decision"] = d]], Verify!Rows)
    BY <1>0, <1>3, FieldOfFileEdited
  <2>2. QED  BY <1>3, <2>1, FileEditKeeps DEF Verify!Alter
<1>4. CASE Verify!Forge
  <2> DEFINE record == Verify!NewRecord(file.record.decision, file.record.previous_hash,
                                        file.record.sequence, OtherKey)
  <2>1. /\ DOMAIN record = RowFields
        /\ record = [f \in DOMAIN record |-> record[f]]
        /\ \A c : record.signature # Verify!Sign(Key, c)
    BY CommandsAssumption DEF Verify!NewRecord, RowFields, Verify!Sign
  <2> HIDE DEF record
  <2>2. IsDocument([file EXCEPT !.record = record], Verify!Rows)
    BY <1>0, <2>1, RecordEdited DEF IsCopy
  <2>3. QED  BY <1>4, <2>2, FileEditKeeps DEF Verify!Forge, record
<1>5. CASE Verify!Rehash /\ file.record # NoMapping /\ "record_hash" \in DOMAIN file.record
  <2> DEFINE hash == Verify!ComputeHash(Verify!Signable(file.record.decision,
                       file.record.previous_hash, file.record.sequence))
  <2>1. Verify!Edit([file EXCEPT !.record = [@ EXCEPT !["record_hash"] = hash]])
    BY <1>5 DEF Verify!Rehash
  <2> HIDE DEF hash
  <2>2. IsDocument([file EXCEPT !.record = [@ EXCEPT !["record_hash"] = hash]], Verify!Rows)
    BY <1>0, <1>5, FieldOfFileEdited
  <2>3. QED  BY <2>1, <2>2, FileEditKeeps
<1>6. CASE Verify!ReplaceFormat
  <2>1. IsDocument([file EXCEPT !.format = None], Verify!Rows)
    <3>1. [file EXCEPT !.format = None] =
            [format |-> None, record |-> file.record, public_key |-> file.public_key]
      BY <1>0 DEF IsDocument
    <3>2. QED  BY <1>0, <3>1 DEF IsDocument
  <2>2. QED  BY <1>6, <2>1, FileEditKeeps DEF Verify!ReplaceFormat
<1>7. ASSUME NEW key, Verify!ReplaceKey(key) PROVE VerifyInv'
  <2>1. IsDocument([file EXCEPT !.public_key = key], Verify!Rows)
    <3>1. [file EXCEPT !.public_key = key] =
            [format |-> file.format, record |-> file.record, public_key |-> key]
      BY <1>0 DEF IsDocument
    <3>2. QED  BY <1>0, <3>1 DEF IsDocument
  <2>2. QED  BY <1>7, <2>1, FileEditKeeps DEF Verify!ReplaceKey
<1>8. CASE Verify!ReplaceRecord
  <2>1. IsDocument([file EXCEPT !.record = NoMapping], Verify!Rows)
    BY <1>0, RecordEdited
  <2>2. QED  BY <1>8, <2>1, FileEditKeeps DEF Verify!ReplaceRecord
<1>9. CASE Verify!ReplaceDocument
  <2>1. IsDocument(NoMapping, Verify!Rows)
    BY DEF IsDocument
  <2>2. QED  BY <1>9, <2>1, FileEditKeeps DEF Verify!ReplaceDocument
<1>10. QED
  BY <1>1, <1>2, <1>3, <1>4, <1>5, <1>6, <1>7, <1>8, <1>9 DEF Verify!EditFile, Verify!EditRecord

\* Every step does.
LEMMA VerifyStepKeeps ==
  ASSUME VerifyInv, [Verify!Next]_(Verify!vars)
  PROVE  VerifyInv'
<1>1. ASSUME UNCHANGED Verify!vars PROVE VerifyInv'
  <2>1. Verify!Rows' = Verify!Rows /\ Verify!Outcome(input)' = Verify!Outcome(input)
    BY <1>1, OutcomeStays DEF Verify!vars, Verify!Rows
  <2>2. QED  BY <1>1, <2>1 DEF VerifyInv, Verify!vars
<1>2. QED
  BY <1>1, VerifyRecords, VerifyProceeds, VerifyEdits DEF Verify!Next

\* What verifies with the ledger's key is a row.
LEMMA VerifiedIsRow ==
  ASSUME VerifyInv, output = "valid", Key \in {option, input.public_key}
  PROVE  input.record \in Verify!Rows
<1> DEFINE record == input.record
           content == Verify!Signable(record.decision, record.previous_hash, record.sequence)
<1>1. IsDocument(input, Verify!Rows) /\ Verify!Outcome(input) = "valid"
  BY CommandsAssumption DEF VerifyInv, Good
<1>2. /\ Verify!WellFormed(input) /\ Verify!Verifies(input)
      /\ {"decision", "previous_hash", "sequence"} \subseteq DOMAIN record
      /\ input # NoMapping /\ record # NoMapping
  BY <1>1 DEF Verify!Outcome, Verify!HasContent
<1>3. input.public_key = Key
  BY <1>2, CommandsAssumption DEF Verify!WellFormed, Verify!KeyFits
<1>4. /\ record.record_hash = Verify!ComputeHash(content)
      /\ record.signature = Verify!Sign(Key, content)
      /\ DOMAIN record = RowFields /\ record = [f \in RowFields |-> record[f]]
  BY <1>1, <1>2, <1>3 DEF Verify!Verifies, Verify!VerifyReceipt, IsDocument, IsCopy, RowFields
<1>5. PICK r \in Verify!Rows : r.signature = Verify!Sign(Key, content)
  BY <1>1, <1>2, <1>4 DEF IsDocument, IsCopy, RowFields
<1>6. PICK d, hash, n : r = Verify!NewRecord(d, hash, n, Key)
  BY DEF VerifyInv, IsRow
<1>7. content = Verify!Signable(d, hash, n)
  BY <1>5, <1>6 DEF Verify!NewRecord, Verify!Sign
<1>8. record.decision = d /\ record.previous_hash = hash /\ record.sequence = n
  BY <1>7 DEF Verify!Signable
<1>9. record = r
  <2> HIDE DEF record, content
  <2>1. record = [f \in RowFields |-> r[f]] /\ r = [f \in RowFields |-> r[f]]
    BY <1>4, <1>6, <1>7, <1>8 DEF Verify!NewRecord, RowFields
  <2>2. QED  BY <2>1
<1>10. QED  BY <1>9

\* NoMapping is no receipt and no record.
NoMappingIsNone ==
  \A a, b, c, d, e :
    /\ NoMapping # [format |-> a, record |-> b, public_key |-> c]
    /\ NoMapping # [decision |-> a, record_hash |-> b, previous_hash |-> c,
                    signature |-> d, sequence |-> e]

\* What nobody edited verifies.
LEMMA GenuineVerifies ==
  ASSUME NoMappingIsNone, VerifyInv, edits = 0, option # OtherKey, input # None, output # None,
         input.record.decision \in DecisionsOf["verify"]
  PROVE  output = "valid"
<1>1. PICK r \in Verify!Rows :
        input = Verify!Document(Verify!SaveAndLoad(Verify!CreateReceipt(r, Key)))
  BY DEF VerifyInv, Good, Genuine
<1>2. PICK d, hash, n : d \in DecisionsOf["verify"] /\ r = Verify!NewRecord(d, hash, n, Key)
  BY DEF VerifyInv, IsRow
<1>3. input = [format     |-> "policybound-receipt",
               record     |-> [r EXCEPT !.decision = Verify!Loaded(d)],
               public_key |-> Key]
  BY <1>1, <1>2 DEF Verify!Document, Verify!SaveAndLoad, Verify!CreateReceipt, Verify!NewRecord
<1>4. input.record.decision = Verify!Loaded(d)
  BY <1>2, <1>3 DEF Verify!NewRecord
<1>5. Verify!Loaded(d) = d
  BY <1>4, CommandsAssumption DEF Verify!Loaded
<1>6. /\ input.format = "policybound-receipt" /\ input.public_key = Key
      /\ input.record = r
  BY <1>2, <1>3, <1>5 DEF Verify!NewRecord
<1>7. DOMAIN r = RowFields /\ r # << >>
  <2>1. DOMAIN r = RowFields
    BY <1>2 DEF Verify!NewRecord, RowFields
  <2>2. "decision" \in DOMAIN r
    BY <2>1 DEF RowFields
  <2>3. QED  BY <2>1, <2>2
<1>8. Verify!KeyFits(input) /\ option \in {NoKey, Key}
  BY <1>6 DEF VerifyInv, Verify!KeyFits
<1>9. Verify!WellFormed(input)
  BY <1>6, <1>7, <1>8 DEF Verify!WellFormed
<1>10. Verify!Verifies(input)
  BY <1>2, <1>6, <1>7, <1>8 DEF Verify!Verifies, Verify!VerifyReceipt, Verify!NewRecord, RowFields
<1>11. input # NoMapping /\ r # NoMapping /\ r.decision # NoMapping
  <2>1. r.decision = d /\ d # NoMapping
    BY <1>2, CommandsAssumption DEF Verify!NewRecord
  <2>2. QED  BY <1>2, <1>3, <2>1 DEF NoMappingIsNone, Verify!NewRecord
<1>12. Verify!Outcome(input) = "valid"
  BY <1>6, <1>7, <1>9, <1>10, <1>11 DEF Verify!Outcome, Verify!HasContent, RowFields
<1>13. QED  BY <1>12 DEF VerifyInv

\* Other commands take no part.
LEMMA VerifyGoesOn ==
  (command = "verify" => VerifyInv) /\ [Next]_vars => (command' = "verify" => VerifyInv')
<1>1. SUFFICES ASSUME command = "verify", VerifyInv, [Next]_vars PROVE VerifyInv'
  BY DEF Next, vars
<1>2. [Verify!Next]_(Verify!vars)
  BY <1>1 DEF Next, vars, InitRuns, AuditRuns, ExportRuns, VerifyRuns, Verify!vars, database
<1>3. QED  BY <1>1, <1>2, VerifyStepKeeps

\* verify keeps its inductive invariant (cli.py, verify; receipt.py).
THEOREM VerifyInvariant == Spec => [](command = "verify" => VerifyInv)
<1>1. Init => (command = "verify" => VerifyInv)
  BY VerifyStarts DEF Init, Invoke
<1>2. (command = "verify" => VerifyInv) /\ [Next]_vars => (command = "verify" => VerifyInv)'
  BY VerifyGoesOn
<1>3. QED  BY <1>1, <1>2, PTL DEF Spec

\* A receipt that verifies with the ledger's key is of a row, for any number
\* of saves and edits (receipt.py, verify_receipt).
THEOREM ValidReceiptIsRecorded == Spec => []ValidIsRecorded
<1>1. (command = "verify" => VerifyInv) => ValidIsRecorded
  BY VerifiedIsRow DEF ValidIsRecorded, Verify!ValidIsRecorded
<1>2. QED  BY <1>1, VerifyInvariant, PTL

\* A receipt that nobody edited verifies (receipt.py, save_receipt and
\* verify_receipt).
THEOREM UneditedReceiptVerifies == ASSUME NoMappingIsNone PROVE Spec => []UneditedVerifies
<1>1. (command = "verify" => VerifyInv) => UneditedVerifies
  BY GenuineVerifies DEF UneditedVerifies, Verify!UneditedVerifies
<1>2. QED  BY <1>1, VerifyInvariant, PTL

=============================================================================
