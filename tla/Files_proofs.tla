------------------------------ MODULE Files_proofs ------------------------------
(*******************************************************************************)
(* The files the core writes: the archive of a collection (CollectionArchive), *)
(* the queue of archives (ArchiveQueue) and the cut of a stream copy           *)
(* (EditList).                                                                 *)
(*                                                                             *)
(* The entries of an archived collection are true when no call is under way,   *)
(* however many shots are added, removed and trimmed and whichever encodes     *)
(* fail.  What a commit lets go is deleted unless a deletion fails or a kill   *)
(* cuts it short, and what it names never is, although copies, moves, encodes  *)
(* and commits fail.                                                           *)
(*                                                                             *)
(* Files are named by the number of a shot, and removals shift the numbers:    *)
(* copies run from the front, over files that later copies still need.  They   *)
(* do no harm because shots only move towards the front (Behind): the file of  *)
(* a shot is at its number or behind it, so no copy made before its own wrote  *)
(* there.  A fingerprint is one shot's, wherever it is listed (OwnInv), and    *)
(* the ledger knows no file of a listed shot that the entries do not know      *)
(* (RestInv); a call under way has ready all that was up to date (WorkInv).    *)
(*                                                                             *)
(* What the copies and the moves leave is a recursive function; what holds of  *)
(* it step by step is a set of numbers that has 0 and the successors of its    *)
(* members, and so has them all, as the least number it lacked could not be    *)
(* (UpTo).                                                                     *)
(*                                                                             *)
(* A cut of a stream copy shows its shot and nothing else.  Sorting by rank    *)
(* puts the members of a set in the one order there is (InOrderSorts,          *)
(* InOrderIs), so the sorted times of a file end with those of its visible     *)
(* pictures (TimesEndWithTheView).  Rounding to a unit of a frame or less      *)
(* leaves half a frame between two of them (RoundedLieApart), which is more    *)
(* than a tick of the movie: a span that ends between the last picture and     *)
(* the next, rounded down, still divides them (SpanReaches).  The grid gives   *)
(* the pictures of the shot their frames back (TheGridIsRegained) and changes  *)
(* neither what is visible nor its order (ConformedKeepsTheView).              *)
(*                                                                             *)
(* The queue of archives keeps what it announced.  Identities are not used     *)
(* twice while they are listed (Queue), and what is kept of a list stood in    *)
(* it, each entry once (KeptPicks); so the one entry that is marked is the one *)
(* under way, and what the history drops is finished (HistoryKeeps).           *)
(*******************************************************************************)
EXTENDS CollectionArchive, ArchiveQueue, EditList, FiniteSetTheorems, SequenceTheorems,
        WellFoundedInduction, TLAPS

Shot == [id : Ids, content : Contents]
Filed == [file : Files, key : Contents \cup {NoKey}]
Filings == UNION {[S -> Filed] : S \in SUBSET Ids}
Ledgers == UNION {[S -> Files] : S \in SUBSET Contents}
Disks == [Files -> Contents \cup {Absent, Partial}]
Places == SUBSET (1 .. MaxShots)
Progress == [disk : Disks, ledger : Ledgers, outs : Places]
Work ==
  [op : {"archive", "relocate"}, shots : Seq(Shot), prev : Filings, dir : Dirs, outs : Places,
   todo : Places, made : Places, processed : BOOLEAN]

\* Shots in the order they were added, so that none has a number above its identity.
Listing(ss) ==
  /\ ss \in Seq(Shot)
  /\ \A i \in 1 .. Len(ss) : i <= ss[i].id
  /\ \A i, j \in 1 .. Len(ss) : i < j => ss[i].id < ss[j].id

ShotsOK ==
  /\ Listing(shots) /\ nextId \in Nat \ {0} /\ nextNew \in Nat \ {0}
  /\ \A i \in 1 .. Len(shots) : shots[i].id < nextId
EntriesOK ==
  /\ collEntries \in Filings /\ folder \in Dirs \cup {NoDir}
  /\ \A s \in DOMAIN collEntries : s < nextId /\ collEntries[s].file[1] = folder
  /\ \A s, t \in DOMAIN collEntries : collEntries[s].file = collEntries[t].file => s = t
  /\ DOMAIN files \subseteq 1 .. MaxShots
  /\ \A i \in DOMAIN files : files[i] = <<folder, i>>
StoreOK ==
  /\ ledger \in Ledgers /\ disk \in Disks
  /\ failures \in Nat /\ accidents \in Nat /\ deleted \in Nat
TasksOK == task \in [Archives -> Work \cup {Idle}]

\* A shot moves only towards the front: it is not behind the file of its entry.
Behind ==
  \A i \in 1 .. Len(shots) : shots[i].id \in DOMAIN collEntries =>
    i <= collEntries[shots[i].id].file[2]

WorkOK(c) ==
  /\ Listing(c.shots) /\ \A j \in 1 .. Len(c.shots) : c.shots[j].id < nextId
  /\ c.prev = collEntries
  /\ c.outs \subseteq 1 .. Len(c.shots) /\ c.todo \subseteq 1 .. Len(c.shots)
  /\ c.outs \cap c.todo = {} /\ c.made \subseteq c.outs
  /\ IF c.op = "archive" THEN folder \in {c.dir, NoDir}
     ELSE folder \notin {c.dir, NoDir} /\ ~ c.processed
  /\ \A i \in 1 .. Len(shots), j \in 1 .. Len(c.shots) : shots[i].id = c.shots[j].id => i <= j

Occupied(r) == task[r] # Idle
StructInv ==
  /\ ShotsOK /\ EntriesOK /\ StoreOK /\ TasksOK /\ Behind
  /\ \A r \in Archives : Occupied(r) => WorkOK(task[r])

\* A content is one shot's, wherever it is listed, and not new any more.
Made(s, k) ==
  \/ \E i \in 1 .. Len(shots) : shots[i].id = s /\ shots[i].content = k
  \/ s \in DOMAIN collEntries /\ collEntries[s].key = k
  \/ \E r \in Archives : Occupied(r) /\ \E j \in 1 .. Len(task[r].shots) :
       task[r].shots[j].id = s /\ task[r].shots[j].content = k
OwnInv ==
  /\ \A s, t \in Ids, k \in Contents : Made(s, k) /\ Made(t, k) => s = t
  /\ \A s \in Ids, k \in Contents : Made(s, k) => k < nextNew

\* Between two calls, the entries of what has not changed are true, and the
\* ledger knows no more than they do.
UpToDate(s) == s.id \in DOMAIN collEntries /\ collEntries[s.id].key = s.content
RestInv ==
  \A i \in 1 .. Len(shots) :
    /\ UpToDate(shots[i]) => disk[collEntries[shots[i].id].file] = shots[i].content
    /\ shots[i].content \in DOMAIN ledger => UpToDate(shots[i])

\* What a call has ready is true, and holds all that was up to date.
MadeReady(c, s) == \E j \in c.outs : c.shots[j] = s
WorkInv(c) ==
  /\ \A j \in c.outs : c.op = "archive" \/ EntryKey(c.prev, c.shots[j].id) = c.shots[j].content =>
       disk[<<c.dir, j>>] = c.shots[j].content
  /\ \A i \in 1 .. Len(shots) :
       /\ UpToDate(shots[i]) => MadeReady(c, shots[i])
       /\ shots[i].content \in DOMAIN ledger =>
            IF c.op = "archive" THEN MadeReady(c, shots[i]) ELSE UpToDate(shots[i])
Calm == accidents = 0 /\ deleted = 0
TruthInv ==
  Calm => /\ \A k \in DOMAIN ledger : k < nextNew
          /\ AtRest => RestInv
          /\ \A r \in Archives : Occupied(r) => WorkInv(task[r])

\* The calls for the collection come one after the other.
OneCall == \A r, q \in Archives : Occupied(r) /\ Occupied(q) => r = q
-----------------------------------------------------------------------------
LEMMA LeastNat ==
  ASSUME NEW T \in SUBSET Nat, T # {} PROVE \E x \in T : \A y \in T : x <= y
<1> DEFINE Under(x) == 0 .. x - 1
           B == {Under(x) : x \in T}
<1>1. \A x \in Nat : IsFiniteSet(Under(x))
  BY FS_Interval
<1>2. B \subseteq FiniteSubsetsOf(Nat) /\ B # {}
  <2>1. ASSUME NEW x \in T PROVE Under(x) \in FiniteSubsetsOf(Nat)
    <3>1. Under(x) \in SUBSET Nat /\ IsFiniteSet(Under(x))
      BY <1>1
    <3> QED
      BY <3>1 DEF FiniteSubsetsOf
  <2> QED
    BY <2>1
<1>3. PICK b \in B : \A c \in B : <<c, b>> \notin StrictSubsetOrdering(Nat)
  <2> HIDE DEF B
  <2> QED
    BY <1>2, FS_StrictSubsetOrderingWellFounded, WFMin, Zenon
<1>4. PICK x \in T : b = Under(x)
  OBVIOUS
<1>5. ASSUME NEW y \in T, y < x PROVE FALSE
  <2>1. Under(y) \in B /\ Under(y) \subseteq b /\ b \in SUBSET Nat
    BY <1>4, <1>5
  <2>2. y \in b /\ y \notin Under(y)
    BY <1>4, <1>5
  <2>3. <<Under(y), b>> \in StrictSubsetOrdering(Nat)
    BY <2>1, <2>2 DEF StrictSubsetOrdering
  <2> QED
    BY <1>3, <2>1, <2>3
<1> QED
  BY <1>5

\* What holds of 0, and of a number if it does of the one before, holds up to N.
LEMMA UpTo ==
  ASSUME NEW N \in Nat, NEW S, 0 \in S, \A n \in 1 .. N : n - 1 \in S => n \in S
  PROVE  \A n \in 0 .. N : n \in S
<1> DEFINE T == {n \in 0 .. N : n \notin S}
<1>1. SUFFICES ASSUME T # {} PROVE FALSE
  OBVIOUS
<1>2. PICK m \in T : \A y \in T : m <= y
  <2>1. T \in SUBSET Nat
    OBVIOUS
  <2> HIDE DEF T
  <2> QED
    BY <1>1, <2>1, LeastNat
<1>3. m \in 1 .. N /\ m - 1 \in 0 .. N /\ ~ (m <= m - 1) /\ m \notin S
  BY <1>2
<1> QED
  BY <1>2, <1>3
-----------------------------------------------------------------------------

\* What the recursion of the copies, and of the moves, says of each step.
LEMMA CopiedIs ==
  ASSUME NEW dir, NEW ss, NEW es, NEW fate, Len(ss) \in Nat, DOMAIN ss = 1 .. Len(ss)
  PROVE  LET f == Copied(dir, ss, es, fate) IN
         /\ f[0] = CopyStart(ss, es)
         /\ \A n \in 1 .. Len(ss) :
              f[n] = CopyOne(f[n - 1], PlanItem(es, ss[n], <<dir, n>>), dir, n, ss[n].content, fate[n])
<1> DEFINE N == Len(ss)
           g == Copied(dir, ss, es, fate)
           plan == [i \in DOMAIN ss |-> PlanItem(es, ss[i], <<dir, i>>)]
           Val(f, n) == IF n = 0 THEN CopyStart(ss, es)
                        ELSE CopyOne(f[n - 1], plan[n], dir, n, ss[n].content, fate[n])
           Is(f, m) == f = [n \in 0 .. m |-> Val(f, n)]
           T == {m \in Nat : \E f : Is(f, m)}
<1>1. g = CHOOSE f : Is(f, N)
  BY DEF Copied
<1>2. N \in T
  <2>1. 0 \in T
    <3>1. Is([n \in 0 .. 0 |-> CopyStart(ss, es)], 0)
      OBVIOUS
    <3> QED
      BY <3>1
  <2>2. ASSUME NEW m \in 1 .. N, m - 1 \in T PROVE m \in T
    <3>1. PICK f : Is(f, m - 1)
      BY <2>2
    <3> DEFINE h == [n \in 0 .. m |-> IF n = m THEN Val(f, m) ELSE f[n]]
    <3>2. ASSUME NEW n \in 0 .. m PROVE h[n] = Val(h, n)
      <4>1. CASE n = m
        BY <2>2, <4>1
      <4>2. CASE n # m
        <5>1. n \in 0 .. m - 1
          BY <4>2
        <5>2. f[n] = Val(f, n)
          BY <5>1, <3>1
        <5>3. n # 0 => f[n - 1] = h[n - 1]
          BY <5>1
        <5> QED
          BY <4>2, <5>2, <5>3
      <4> QED
        BY <4>1, <4>2
    <3>3. \A n \in 0 .. m : h[n] = Val(h, n)
      BY <3>2
    <3>4. Is(h, m) /\ m \in Nat
      <4> HIDE DEF Val
      <4> QED
        BY <3>3
    <3> QED
      BY <3>4
  <2>3. N \in Nat /\ N \in 0 .. N
    OBVIOUS
  <2> HIDE DEF T, N
  <2>4. \A n \in 0 .. N : n \in T
    BY <2>1, <2>2, <2>3, UpTo
  <2> QED
    BY <2>3, <2>4
<1> HIDE DEF Val
<1>3. Is(g, N)
  BY <1>1, <1>2
<1> HIDE DEF g
<1>4. g[0] = Val(g, 0)
  BY <1>3
<1>5. ASSUME NEW n \in 1 .. N
      PROVE  g[n] = CopyOne(g[n - 1], PlanItem(es, ss[n], <<dir, n>>), dir, n, ss[n].content,
                            fate[n])
  <2>1. g[n] = Val(g, n) /\ n # 0
    BY <1>3
  <2> QED
    BY <2>1 DEF Val
<1> QED
  BY <1>4, <1>5 DEF Val, g

\* The same of the moves.
LEMMA MovedIs ==
  ASSUME NEW dir, NEW ss, NEW es, NEW fate, Len(ss) \in Nat, DOMAIN ss = 1 .. Len(ss)
  PROVE  LET f == Moved(dir, ss, es, fate) IN
         /\ f[0] = [disk |-> disk, ledger |-> ledger, outs |-> {}]
         /\ \A n \in 1 .. Len(ss) :
              f[n] = MoveOne(f[n - 1], MoveFrom(ss, es, n), <<dir, n>>, n, EntryKey(es, ss[n].id),
                             fate[n])
<1> DEFINE N == Len(ss)
           g == Moved(dir, ss, es, fate)
           Val(f, n) == IF n = 0 THEN [disk |-> disk, ledger |-> ledger, outs |-> {}]
                        ELSE MoveOne(f[n - 1], MoveFrom(ss, es, n), <<dir, n>>, n,
                                     EntryKey(es, ss[n].id), fate[n])
           Is(f, m) == f = [n \in 0 .. m |-> Val(f, n)]
           T == {m \in Nat : \E f : Is(f, m)}
<1>1. g = CHOOSE f : Is(f, N)
  BY DEF Moved
<1>2. N \in T
  <2>1. 0 \in T
    <3>1. Is([n \in 0 .. 0 |-> [disk |-> disk, ledger |-> ledger, outs |-> {}]], 0)
      OBVIOUS
    <3> QED
      BY <3>1
  <2>2. ASSUME NEW m \in 1 .. N, m - 1 \in T PROVE m \in T
    <3>1. PICK f : Is(f, m - 1)
      BY <2>2
    <3> DEFINE h == [n \in 0 .. m |-> IF n = m THEN Val(f, m) ELSE f[n]]
    <3>2. ASSUME NEW n \in 0 .. m PROVE h[n] = Val(h, n)
      <4>1. CASE n = m
        BY <2>2, <4>1
      <4>2. CASE n # m
        <5>1. n \in 0 .. m - 1
          BY <4>2
        <5>2. f[n] = Val(f, n)
          BY <5>1, <3>1
        <5>3. n # 0 => f[n - 1] = h[n - 1]
          BY <5>1
        <5> QED
          BY <4>2, <5>2, <5>3
      <4> QED
        BY <4>1, <4>2
    <3>3. \A n \in 0 .. m : h[n] = Val(h, n)
      BY <3>2
    <3>4. Is(h, m) /\ m \in Nat
      <4> HIDE DEF Val
      <4> QED
        BY <3>3
    <3> QED
      BY <3>4
  <2>3. N \in Nat /\ N \in 0 .. N
    OBVIOUS
  <2> HIDE DEF T, N
  <2>4. \A n \in 0 .. N : n \in T
    BY <2>1, <2>2, <2>3, UpTo
  <2> QED
    BY <2>3, <2>4
<1> HIDE DEF Val
<1>3. Is(g, N)
  BY <1>1, <1>2
<1> HIDE DEF g
<1>4. g[0] = Val(g, 0)
  BY <1>3
<1>5. ASSUME NEW n \in 1 .. N
      PROVE  g[n] = MoveOne(g[n - 1], MoveFrom(ss, es, n), <<dir, n>>, n, EntryKey(es, ss[n].id),
                             fate[n])
  <2>1. g[n] = Val(g, n) /\ n # 0
    BY <1>3
  <2> QED
    BY <2>1 DEF Val
<1> QED
  BY <1>4, <1>5 DEF Val, g
-----------------------------------------------------------------------------
\* The shots of a list are in its bounds, and no two have one identity.
LEMMA ListingFacts ==
  ASSUME NEW ss, Listing(ss)
  PROVE  /\ Len(ss) \in Nat /\ DOMAIN ss = 1 .. Len(ss) /\ Len(ss) <= MaxShots
         /\ \A i \in 1 .. Len(ss) : ss[i] \in Shot /\ i \in 1 .. MaxShots
              /\ ss[i].id \in Ids /\ ss[i].content \in Contents
              /\ \A dir \in Dirs : <<dir, i>> \in Files
         /\ \A i, j \in 1 .. Len(ss) : ss[i].id = ss[j].id => i = j
<1>1. Len(ss) \in Nat /\ DOMAIN ss = 1 .. Len(ss) /\ MaxShots \in Nat
  <2>1. ss \in Seq(Shot)
    BY DEF Listing
  <2>2. MaxShots \in Nat
    BY CollectionAssumption
  <2> QED
    BY <2>1, <2>2
<1>2. ASSUME NEW i \in 1 .. Len(ss)
      PROVE ss[i] \in Shot /\ i \in 1 .. MaxShots /\ ss[i].id \in Ids /\ ss[i].content \in Contents
  <2>1. ss[i] \in Shot /\ i <= ss[i].id
    BY <1>1, <1>2 DEF Listing
  <2>2. ss[i].id \in 1 .. MaxShots /\ ss[i].content \in Contents
    BY <2>1 DEF Shot, Ids
  <2> QED
    BY <1>1, <2>1, <2>2 DEF Ids
<1>3. Len(ss) <= MaxShots
  <2>1. CASE Len(ss) = 0
    BY <1>1, <2>1
  <2>2. CASE Len(ss) # 0
    <3>1. Len(ss) \in 1 .. Len(ss)
      BY <1>1, <2>2
    <3> QED
      BY <1>2, <3>1
  <2> QED
    BY <2>1, <2>2
<1>4. ASSUME NEW i \in 1 .. Len(ss), NEW j \in 1 .. Len(ss), ss[i].id = ss[j].id PROVE i = j
  <2>1. ss[i].id \in Nat /\ ss[j].id \in Nat
    BY <1>1, <1>2 DEF Ids
  <2>2. ~ (i < j) /\ ~ (j < i)
    BY <1>4, <2>1 DEF Listing
  <2> QED
    BY <1>1, <2>2
<1> QED
  BY <1>1, <1>2, <1>3, <1>4 DEF Files

\* The members of Ledgers, and what an update and a purge leave of one.
LEMMA LedgerFacts ==
  ASSUME NEW l \in Ledgers
  PROVE  /\ DOMAIN l \subseteq Contents /\ \A k \in DOMAIN l : l[k] \in Files
         /\ \A k \in Contents, f \in Files :
              Update(l, k, f) \in Ledgers /\ DOMAIN Update(l, k, f) = DOMAIN l \cup {k}
         /\ \A S : Without(l, S) \in Ledgers /\ DOMAIN Without(l, S) \subseteq DOMAIN l
<1>1. PICK D \in SUBSET Contents : l \in [D -> Files]
  BY DEF Ledgers
<1>2. ASSUME NEW k \in Contents, NEW f \in Files
      PROVE Update(l, k, f) \in Ledgers /\ DOMAIN Update(l, k, f) = DOMAIN l \cup {k}
  <2>1. Update(l, k, f) \in [D \cup {k} -> Files]
    BY <1>1 DEF Update
  <2> QED
    BY <1>1, <2>1 DEF Ledgers
<1>3. ASSUME NEW S
      PROVE Without(l, S) \in Ledgers /\ DOMAIN Without(l, S) \subseteq DOMAIN l
  <2>1. Without(l, S) \in [D \ S -> Files]
    BY <1>1 DEF Without
  <2>2. D \ S \in SUBSET Contents
    OBVIOUS
  <2> QED
    BY <1>1, <2>1, <2>2 DEF Ledgers
<1> QED
  BY <1>1, <1>2, <1>3

\* The members of Filings.
LEMMA EntryFacts ==
  ASSUME NEW es \in Filings
  PROVE  /\ DOMAIN es \subseteq Ids
         /\ \A s \in DOMAIN es : es[s] \in Filed /\ es[s].file \in Files
              /\ es[s].key \in Contents \cup {NoKey}
<1>1. PICK D \in SUBSET Ids : es \in [D -> Filed]
  BY DEF Filings
<1> QED
  BY <1>1 DEF Filed

\* A copy or a move that is not done leaves files as well.
LEMMA LeftTyped ==
  ASSUME NEW d \in Disks, NEW src \in Files, NEW dst \in Files, NEW how
  PROVE  LeftAfter(d, src, dst, how) \in Disks
<1> DEFINE x == CASE how = "torn" -> Partial
                  [] how = "cleared" -> Absent
                  [] how = "whole" -> d[src]
                  [] OTHER -> d[dst]
<1>1. x \in Contents \cup {Absent, Partial}
  BY DEF Disks
<1>2. LeftAfter(d, src, dst, how) = [d EXCEPT ![dst] = x]
  BY DEF LeftAfter
<1> HIDE DEF x
<1> QED
  BY <1>1, <1>2 DEF Disks

\* A copy, and a move, leave files, a ledger and a set of shots.
LEMMA CopyKeepsTypes ==
  ASSUME NEW b \in Progress, NEW p, NEW dir, NEW n \in 1 .. MaxShots, NEW k \in Contents,
         NEW how, <<dir, n>> \in Files, p.do = "copy" => p.from \in Files
  PROVE  LET c == CopyOne(b, p, dir, n, k, how) IN
         /\ c \in Progress /\ c.outs \subseteq b.outs \cup {n}
         /\ DOMAIN c.ledger \subseteq DOMAIN b.ledger \cup (IF n \in c.outs THEN {k} ELSE {})
<1> DEFINE c == CopyOne(b, p, dir, n, k, how)
<1>0. /\ b = [disk |-> b.disk, ledger |-> b.ledger, outs |-> b.outs]
      /\ b.disk \in Disks /\ b.ledger \in Ledgers /\ b.outs \in Places /\ b.outs \cup {n} \in Places
  BY DEF Progress, Places
<1>1. CASE p.do = "skip"
  <2>1. c = [disk |-> b.disk, ledger |-> b.ledger, outs |-> b.outs \cup {n}]
    BY <1>0, <1>1 DEF CopyOne
  <2> HIDE DEF c
  <2>2. c \in Progress /\ c.ledger = b.ledger /\ c.outs = b.outs \cup {n}
    BY <1>0, <2>1 DEF Progress
  <2> QED
    BY <2>2 DEF c
<1>2. CASE p.do = "copy" /\ Exists(b.disk, p.from) /\ how = "done"
  <2>1. c = [disk |-> [b.disk EXCEPT ![<<dir, n>>] = b.disk[p.from]],
             ledger |-> Update(b.ledger, k, <<dir, n>>), outs |-> b.outs \cup {n}]
    BY <1>2 DEF CopyOne
  <2>2. [b.disk EXCEPT ![<<dir, n>>] = b.disk[p.from]] \in Disks
    BY <1>0, <1>2 DEF Disks
  <2>3. /\ Update(b.ledger, k, <<dir, n>>) \in Ledgers
        /\ DOMAIN Update(b.ledger, k, <<dir, n>>) = DOMAIN b.ledger \cup {k}
    BY <1>0, LedgerFacts
  <2> HIDE DEF c
  <2>4. /\ c \in Progress /\ c.ledger = Update(b.ledger, k, <<dir, n>>)
        /\ c.outs = b.outs \cup {n}
    BY <1>0, <2>1, <2>2, <2>3 DEF Progress
  <2> QED
    BY <2>3, <2>4 DEF c
<1>3. CASE p.do # "skip" /\ ~ (p.do = "copy" /\ Exists(b.disk, p.from))
  BY <1>3 DEF CopyOne
<1>4. CASE p.do = "copy" /\ Exists(b.disk, p.from) /\ how # "done"
  <2> DEFINE d == LeftAfter(b.disk, p.from, <<dir, n>>, how)
  <2>1. d \in Disks
    BY <1>0, <1>4, LeftTyped
  <2>2. c = [b EXCEPT !.disk = d]
    BY <1>4 DEF CopyOne
  <2> HIDE DEF c, d
  <2>3. c = [disk |-> d, ledger |-> b.ledger, outs |-> b.outs]
    BY <1>0, <2>2
  <2>4. c \in Progress /\ c.ledger = b.ledger /\ c.outs = b.outs
    BY <1>0, <2>1, <2>3 DEF Progress
  <2> QED
    BY <2>4 DEF c
<1> QED
  BY <1>1, <1>2, <1>3, <1>4

LEMMA MoveKeepsTypes ==
  ASSUME NEW b \in Progress, NEW src \in Files, NEW dst \in Files, NEW n \in 1 .. MaxShots,
         NEW key \in Contents \cup {NoKey}, NEW how
  PROVE  LET c == MoveOne(b, src, dst, n, key, how) IN
         /\ c \in Progress /\ c.outs \subseteq b.outs \cup {n}
         /\ DOMAIN c.ledger \subseteq DOMAIN b.ledger \cup {key}
<1> DEFINE c == MoveOne(b, src, dst, n, key, how)
           d == IF Exists(b.disk, src)
                THEN [b.disk EXCEPT ![dst] = b.disk[src], ![src] = Absent] ELSE b.disk
<1>0. /\ b = [disk |-> b.disk, ledger |-> b.ledger, outs |-> b.outs]
      /\ b.disk \in Disks /\ b.ledger \in Ledgers /\ b.outs \in Places /\ b.outs \cup {n} \in Places
  BY DEF Progress, Places
<1>1. CASE ~ Exists(b.disk, src) /\ ~ Exists(b.disk, dst)
  BY <1>1 DEF MoveOne
<1>2. CASE /\ ~ (~ Exists(b.disk, src) /\ ~ Exists(b.disk, dst))
           /\ ~ (Exists(b.disk, src) /\ how # "done")
  <2>1. c = [disk |-> d, ledger |-> RecordMoved(b.ledger, key, dst), outs |-> b.outs \cup {n}]
    BY <1>2 DEF MoveOne
  <2>2. d \in Disks
    BY <1>0 DEF Disks
  <2>3. /\ RecordMoved(b.ledger, key, dst) \in Ledgers
        /\ DOMAIN RecordMoved(b.ledger, key, dst) \subseteq DOMAIN b.ledger \cup {key}
    <3>1. CASE key = NoKey
      BY <1>0, <3>1 DEF RecordMoved
    <3>2. CASE key # NoKey
      <4>1. key \in Contents
        BY <3>2
      <4>2. RecordMoved(b.ledger, key, dst) = Update(b.ledger, key, dst)
        BY <3>2 DEF RecordMoved
      <4>3. /\ Update(b.ledger, key, dst) \in Ledgers
            /\ DOMAIN Update(b.ledger, key, dst) = DOMAIN b.ledger \cup {key}
        BY <1>0, <4>1, LedgerFacts
      <4> QED
        BY <4>2, <4>3
    <3> QED
      BY <3>1, <3>2
  <2> HIDE DEF c, d
  <2>4. /\ c \in Progress /\ c.ledger = RecordMoved(b.ledger, key, dst)
        /\ c.outs = b.outs \cup {n}
    BY <1>0, <2>1, <2>2, <2>3 DEF Progress
  <2> QED
    BY <2>3, <2>4 DEF c
<1>3. CASE Exists(b.disk, src) /\ how # "done"
  <2> DEFINE e == LeftAfter(b.disk, src, dst, how)
  <2>1. e \in Disks
    BY <1>0, LeftTyped
  <2>2. c = [b EXCEPT !.disk = e]
    BY <1>3 DEF MoveOne
  <2> HIDE DEF c, e
  <2>3. c = [disk |-> e, ledger |-> b.ledger, outs |-> b.outs]
    BY <1>0, <2>2
  <2>4. c \in Progress /\ c.ledger = b.ledger /\ c.outs = b.outs
    BY <1>0, <2>1, <2>3 DEF Progress
  <2> QED
    BY <2>4 DEF c
<1> QED
  BY <1>1, <1>2, <1>3

\* Planned copies are of files.
LEMMA PlannedFiles ==
  ASSUME EntriesOK, StoreOK, NEW s, NEW out
  PROVE  LET p == PlanItem(collEntries, s, out) IN p.do = "copy" => p.from \in Files
<1> DEFINE from == IF Known(collEntries, s) THEN collEntries[s.id].file ELSE ledger[s.content]
<1>1. Known(collEntries, s) => collEntries[s.id].file \in Files
  BY EntryFacts DEF Known, EntriesOK
<1>2. Listed(s) => ledger[s.content] \in Files
  BY LedgerFacts DEF Listed, StoreOK
<1>3. CASE ~ Known(collEntries, s) /\ ~ Listed(s)
  BY <1>3 DEF PlanItem
<1>4. CASE Known(collEntries, s) \/ Listed(s)
  BY <1>1, <1>2, <1>4 DEF PlanItem
<1> QED
  BY <1>3, <1>4

\* Every stage of the copies, and of the moves, is typed.
LEMMA CopiesTyped ==
  ASSUME ShotsOK, EntriesOK, StoreOK, NEW dir \in Dirs, NEW fate
  PROVE  \A n \in 0 .. Len(shots) : LET b == Copied(dir, shots, collEntries, fate)[n] IN
           b \in Progress /\ b.outs \subseteq 1 .. n
<1> DEFINE N == Len(shots)
           g == Copied(dir, shots, collEntries, fate)
           S == {n \in 0 .. N : g[n] \in Progress /\ g[n].outs \subseteq 1 .. n}
<1>1. /\ N \in Nat /\ DOMAIN shots = 1 .. N
      /\ \A n \in 1 .. N : n \in 1 .. MaxShots /\ shots[n].content \in Contents /\ <<dir, n>> \in Files
  BY ListingFacts DEF ShotsOK
<1>2. 0 \in S
  <2>1. g[0] = CopyStart(shots, collEntries)
    BY <1>1, CopiedIs
  <2>2. CopyStart(shots, collEntries) \in Progress /\ CopyStart(shots, collEntries).outs = {}
    BY LedgerFacts DEF CopyStart, StoreOK, Progress, Places
  <2> QED
    BY <1>1, <2>1, <2>2
<1>3. ASSUME NEW n \in 1 .. N, n - 1 \in S PROVE n \in S
  <2> DEFINE p == PlanItem(collEntries, shots[n], <<dir, n>>)
  <2>1. g[n] = CopyOne(g[n - 1], p, dir, n, shots[n].content, fate[n])
    BY <1>1, CopiedIs
  <2>2. g[n - 1] \in Progress /\ n \in 0 .. N /\ g[n - 1].outs \cup {n} \subseteq 1 .. n
    BY <1>1, <1>3
  <2>3. p.do = "copy" => p.from \in Files
    BY PlannedFiles
  <2> HIDE DEF p, g, N
  <2>4. /\ CopyOne(g[n - 1], p, dir, n, shots[n].content, fate[n]) \in Progress
        /\ CopyOne(g[n - 1], p, dir, n, shots[n].content, fate[n]).outs \subseteq g[n - 1].outs \cup {n}
    BY <1>1, <2>2, <2>3, CopyKeepsTypes
  <2> QED
    BY <2>1, <2>2, <2>4
<1> HIDE DEF S, N
<1>4. \A n \in 0 .. N : n \in S
  BY <1>1, <1>2, <1>3, UpTo
<1> QED
  BY <1>4 DEF S, N

LEMMA MovedFiles ==
  ASSUME ShotsOK, EntriesOK, folder # NoDir, NEW n \in 1 .. Len(shots)
  PROVE  /\ MoveFrom(shots, collEntries, n) \in Files
         /\ EntryKey(collEntries, shots[n].id) \in Contents \cup {NoKey}
         /\ shots[n].id \in DOMAIN collEntries =>
              MoveFrom(shots, collEntries, n) = collEntries[shots[n].id].file
         /\ shots[n].id \notin DOMAIN collEntries =>
              MoveFrom(shots, collEntries, n) = <<folder, n>>
<1>1. n \in 1 .. MaxShots /\ folder \in Dirs
  BY ListingFacts DEF ShotsOK, EntriesOK
<1>2. <<folder, n>> \in Files
  BY <1>1 DEF Files
<1>3. n \in DOMAIN files => files[n] = <<folder, n>>
  BY DEF EntriesOK
<1>4. shots[n].id \in DOMAIN collEntries =>
        /\ collEntries[shots[n].id].file \in Files
        /\ collEntries[shots[n].id].key \in Contents \cup {NoKey}
  BY EntryFacts DEF EntriesOK
<1> QED
  BY <1>2, <1>3, <1>4 DEF MoveFrom, EntryKey

LEMMA MovesTyped ==
  ASSUME ShotsOK, EntriesOK, StoreOK, NEW dir \in Dirs, NEW fate, folder # NoDir
  PROVE  \A n \in 0 .. Len(shots) : LET b == Moved(dir, shots, collEntries, fate)[n] IN
           b \in Progress /\ b.outs \subseteq 1 .. n
<1> DEFINE N == Len(shots)
           g == Moved(dir, shots, collEntries, fate)
           S == {n \in 0 .. N : g[n] \in Progress /\ g[n].outs \subseteq 1 .. n}
<1>1. /\ N \in Nat /\ DOMAIN shots = 1 .. N
      /\ \A n \in 1 .. N : n \in 1 .. MaxShots /\ <<dir, n>> \in Files
  BY ListingFacts DEF ShotsOK
<1>2. 0 \in S
  <2>1. g[0] = [disk |-> disk, ledger |-> ledger, outs |-> {}]
    BY <1>1, MovedIs
  <2> QED
    BY <1>1, <2>1 DEF StoreOK, Progress, Places
<1>3. ASSUME NEW n \in 1 .. N, n - 1 \in S PROVE n \in S
  <2> DEFINE src == MoveFrom(shots, collEntries, n)
             key == EntryKey(collEntries, shots[n].id)
  <2>1. g[n] = MoveOne(g[n - 1], src, <<dir, n>>, n, key, fate[n])
    BY <1>1, MovedIs
  <2>2. g[n - 1] \in Progress /\ n \in 0 .. N /\ g[n - 1].outs \cup {n} \subseteq 1 .. n
    BY <1>1, <1>3
  <2>3. src \in Files /\ key \in Contents \cup {NoKey}
    BY MovedFiles
  <2> HIDE DEF src, key, g, N
  <2>4. /\ MoveOne(g[n - 1], src, <<dir, n>>, n, key, fate[n]) \in Progress
        /\ MoveOne(g[n - 1], src, <<dir, n>>, n, key, fate[n]).outs \subseteq g[n - 1].outs \cup {n}
    BY <1>1, <2>2, <2>3, MoveKeepsTypes
  <2> QED
    BY <2>1, <2>2, <2>4
<1> HIDE DEF S, N
<1>4. \A n \in 0 .. N : n \in S
  BY <1>1, <1>2, <1>3, UpTo
<1> QED
  BY <1>4 DEF S, N

\* After n copies, what was up to date is copied or still to be found.
CopyTrue(b, dir, n) ==
  /\ \A i \in b.outs : b.disk[<<dir, i>>] = shots[i].content
  /\ \A i \in 1 .. n : UpToDate(shots[i]) => i \in b.outs
  /\ \A i \in n + 1 .. Len(shots) : UpToDate(shots[i]) =>
       b.disk[collEntries[shots[i].id].file] = shots[i].content
  /\ DOMAIN b.ledger \subseteq DOMAIN ledger \cup {shots[i].content : i \in b.outs}

\* The file of an entry that is up to date lies at or behind its shot.
LEMMA EntryPlace ==
  ASSUME ShotsOK, EntriesOK, Behind, NEW i \in 1 .. Len(shots), shots[i].id \in DOMAIN collEntries
  PROVE  LET f == collEntries[shots[i].id].file IN
         f \in Files /\ f[1] = folder /\ f[2] \in 1 .. MaxShots /\ i <= f[2]
<1>1. collEntries[shots[i].id].file \in Files
  BY EntryFacts DEF EntriesOK
<1> QED
  BY <1>1 DEF EntriesOK, Behind, Files

LEMMA CopyStaysTrue ==
  ASSUME ShotsOK, EntriesOK, StoreOK, Behind, RestInv, NEW dir \in Dirs,
         NEW n \in 1 .. Len(shots), NEW b \in Progress, b.outs \subseteq 1 .. n - 1,
         CopyTrue(b, dir, n - 1)
  PROVE  CopyTrue(CopyOne(b, PlanItem(collEntries, shots[n], <<dir, n>>), dir, n, shots[n].content,
                          "done"), dir, n)
<1> DEFINE file == collEntries[shots[n].id].file
           p == PlanItem(collEntries, shots[n], <<dir, n>>)
           c == CopyOne(b, p, dir, n, shots[n].content, "done")
<1>1. /\ Len(shots) \in Nat /\ n \in 1 .. MaxShots /\ shots[n].content \in Contents
      /\ <<dir, n>> \in Files /\ \A i \in 1 .. Len(shots) : <<dir, i>> \in Files
  BY ListingFacts DEF ShotsOK
<1>2. /\ b = [disk |-> b.disk, ledger |-> b.ledger, outs |-> b.outs]
      /\ b.disk \in Disks /\ b.ledger \in Ledgers
  BY DEF Progress
<1>3. CASE ~ UpToDate(shots[n])
  <2>1. ~ Known(collEntries, shots[n])
    BY <1>3 DEF Known, UpToDate
  <2>2. ~ Listed(shots[n])
    BY <1>3 DEF Listed, RestInv
  <2>3. p = [do |-> "render"]
    BY <2>1, <2>2 DEF PlanItem
  <2>4. c = b
    BY <2>3 DEF CopyOne
  <2>5. \A i \in 1 .. n : UpToDate(shots[i]) => i \in 1 .. n - 1
    BY <1>1, <1>3
  <2>6. \A i \in n + 1 .. Len(shots) : i \in n - 1 + 1 .. Len(shots)
    BY <1>1
  <2> HIDE DEF c, p
  <2> QED
    BY <2>4, <2>5, <2>6 DEF CopyTrue, c, p
<1>4. CASE UpToDate(shots[n])
  <2>1. file \in Files /\ disk[file] = shots[n].content /\ shots[n].id \in DOMAIN collEntries
    BY <1>4, EntryPlace DEF RestInv, UpToDate
  <2>2. Known(collEntries, shots[n])
    BY <1>1, <1>4, <2>1 DEF Known, Exists, UpToDate, Absent, Contents
  <2>3. b.disk[file] = shots[n].content /\ Exists(b.disk, file)
    <3>1. n \in n - 1 + 1 .. Len(shots)
      BY <1>1
    <3> QED
      BY <1>1, <1>4, <3>1 DEF CopyTrue, Exists, Absent, Contents
  <2>4. p = IF file = <<dir, n>> THEN [do |-> "skip"] ELSE [do |-> "copy", from |-> file]
    BY <2>2 DEF PlanItem
  <2>5. /\ c.disk = [b.disk EXCEPT ![<<dir, n>>] = shots[n].content]
        /\ c.outs = b.outs \cup {n}
        /\ DOMAIN c.ledger \subseteq DOMAIN b.ledger \cup {shots[n].content}
    <3>1. CASE file = <<dir, n>>
      <4>1. p.do = "skip"
        BY <2>4, <3>1
      <4>2. c = [disk |-> b.disk, ledger |-> b.ledger, outs |-> b.outs \cup {n}]
        BY <1>2, <4>1 DEF CopyOne
      <4> HIDE DEF c
      <4>3. c.disk = b.disk /\ c.ledger = b.ledger /\ c.outs = b.outs \cup {n}
        BY <4>2
      <4>4. b.disk = [b.disk EXCEPT ![<<dir, n>>] = shots[n].content]
        BY <1>1, <1>2, <2>3, <3>1 DEF Disks
      <4> QED
        BY <4>3, <4>4
    <3>2. CASE file # <<dir, n>>
      <4>1. p.do = "copy" /\ p.from = file
        BY <2>4, <3>2
      <4>2. c = [disk |-> [b.disk EXCEPT ![<<dir, n>>] = b.disk[file]],
                 ledger |-> Update(b.ledger, shots[n].content, <<dir, n>>), outs |-> b.outs \cup {n}]
        BY <2>3, <4>1 DEF CopyOne
      <4> HIDE DEF c
      <4>3. DOMAIN Update(b.ledger, shots[n].content, <<dir, n>>)
              = DOMAIN b.ledger \cup {shots[n].content}
        BY <1>1, <1>2, LedgerFacts
      <4> QED
        BY <2>3, <4>2, <4>3
    <3> QED
      BY <3>1, <3>2
  <2> HIDE DEF c, p
  <2>6. ASSUME NEW i \in c.outs PROVE c.disk[<<dir, i>>] = shots[i].content
    <3>1. CASE i = n
      BY <1>1, <1>2, <2>5, <3>1 DEF Disks
    <3>2. CASE i # n
      <4>1. i \in b.outs /\ i \in 1 .. Len(shots)
        BY <1>1, <2>5, <2>6, <3>2
      <4>2. <<dir, i>> \in Files /\ <<dir, i>> # <<dir, n>>
        BY <1>1, <3>2, <4>1
      <4> QED
        BY <1>2, <2>5, <4>1, <4>2 DEF Disks, CopyTrue
    <3> QED
      BY <3>1, <3>2
  <2>7. ASSUME NEW i \in 1 .. n, UpToDate(shots[i]) PROVE i \in c.outs
    <3>1. CASE i = n
      BY <2>5, <3>1
    <3>2. CASE i # n
      <4>1. i \in 1 .. n - 1
        BY <1>1, <3>2
      <4> QED
        BY <2>5, <2>7, <4>1 DEF CopyTrue
    <3> QED
      BY <3>1, <3>2
  <2>8. ASSUME NEW i \in n + 1 .. Len(shots), UpToDate(shots[i])
        PROVE c.disk[collEntries[shots[i].id].file] = shots[i].content
    <3> DEFINE f == collEntries[shots[i].id].file
    <3>1. i \in 1 .. Len(shots) /\ i \in n - 1 + 1 .. Len(shots) /\ i > n
      BY <1>1
    <3>2. f \in Files /\ f[2] \in 1 .. MaxShots /\ i <= f[2]
      BY <2>8, <3>1, EntryPlace DEF UpToDate
    <3> HIDE DEF f
    <3>3. f # <<dir, n>>
      <4>1. <<dir, n>>[2] = n
        OBVIOUS
      <4>2. f[2] # n
        BY <3>1, <3>2
      <4> QED
        BY <4>1, <4>2
    <3>4. c.disk[f] = b.disk[f]
      BY <1>2, <2>5, <3>2, <3>3 DEF Disks
    <3> QED
      BY <2>8, <3>1, <3>4 DEF CopyTrue, f
  <2>9. DOMAIN c.ledger \subseteq DOMAIN ledger \cup {shots[i].content : i \in c.outs}
    BY <2>5 DEF CopyTrue
  <2>10. CopyTrue(c, dir, n)
    BY <2>6, <2>7, <2>8, <2>9 DEF CopyTrue
  <2> QED
    BY <2>10 DEF c, p
<1> QED
  BY <1>3, <1>4

\* The copies of a call that nothing disturbed before it.
LEMMA CopiesTrue ==
  ASSUME ShotsOK, EntriesOK, StoreOK, Behind, RestInv, NEW dir \in Dirs
  PROVE  CopyTrue(Copied(dir, shots, collEntries, AllDone)[Len(shots)], dir, Len(shots))
<1> DEFINE N == Len(shots)
           g == Copied(dir, shots, collEntries, AllDone)
           S == {n \in 0 .. N : CopyTrue(g[n], dir, n)}
<1>0. \A n \in 1 .. N : n \in Ids
  BY ListingFacts DEF ShotsOK, Ids
<1>1. N \in Nat /\ DOMAIN shots = 1 .. N
  BY ListingFacts DEF ShotsOK
<1>2. 0 \in S
  <2>1. g[0] = CopyStart(shots, collEntries)
    BY <1>1, CopiedIs
  <2>2. /\ g[0].disk = disk /\ g[0].outs = {}
        /\ DOMAIN g[0].ledger \subseteq DOMAIN ledger
    BY <2>1, LedgerFacts DEF CopyStart, StoreOK
  <2> HIDE DEF g
  <2>3. CopyTrue(g[0], dir, 0)
    BY <1>1, <2>2 DEF CopyTrue, RestInv
  <2> QED
    BY <1>1, <2>3
<1>3. ASSUME NEW n \in 1 .. N, n - 1 \in S PROVE n \in S
  <2>1. g[n] = CopyOne(g[n - 1], PlanItem(collEntries, shots[n], <<dir, n>>), dir, n, shots[n].content,
                       "done")
    BY <1>0, <1>1, CopiedIs DEF AllDone
  <2>2. n - 1 \in 0 .. N /\ n \in 0 .. N /\ CopyTrue(g[n - 1], dir, n - 1)
    BY <1>1, <1>3
  <2>3. g[n - 1] \in Progress /\ g[n - 1].outs \subseteq 1 .. n - 1
    BY <2>2, CopiesTyped
  <2> HIDE DEF g
  <2>4. CopyTrue(g[n], dir, n)
    BY <2>1, <2>2, <2>3, CopyStaysTrue
  <2> QED
    BY <2>2, <2>4
<1>4. N \in 0 .. N
  BY <1>1
<1> HIDE DEF S, N
<1>5. \A n \in 0 .. N : n \in S
  BY <1>1, <1>2, <1>3, UpTo
<1> QED
  BY <1>4, <1>5 DEF S, N

\* The same of the moves from one folder to another.
MoveTrue(b, dir, n) ==
  /\ \A i \in 1 .. n : UpToDate(shots[i]) => i \in b.outs /\ b.disk[<<dir, i>>] = shots[i].content
  /\ \A i \in n + 1 .. Len(shots) : UpToDate(shots[i]) =>
       b.disk[collEntries[shots[i].id].file] = shots[i].content
  /\ DOMAIN b.ledger \subseteq DOMAIN ledger
       \cup {EntryKey(collEntries, shots[i].id) : i \in 1 .. Len(shots)}

LEMMA MoveStaysTrue ==
  ASSUME ShotsOK, EntriesOK, StoreOK, Behind, NEW dir \in Dirs, folder \notin {dir, NoDir},
         NEW n \in 1 .. Len(shots), NEW b \in Progress, MoveTrue(b, dir, n - 1)
  PROVE  MoveTrue(MoveOne(b, MoveFrom(shots, collEntries, n), <<dir, n>>, n,
                          EntryKey(collEntries, shots[n].id), "done"), dir, n)
<1> DEFINE src == MoveFrom(shots, collEntries, n)
           dst == <<dir, n>>
           key == EntryKey(collEntries, shots[n].id)
           c == MoveOne(b, src, dst, n, key, "done")
<1>1. /\ Len(shots) \in Nat /\ n \in 1 .. MaxShots
      /\ \A i \in 1 .. Len(shots) : <<dir, i>> \in Files /\ shots[i].content \in Contents
      /\ \A i \in 1 .. Len(shots) : shots[i].id = shots[n].id => i = n
  BY ListingFacts DEF ShotsOK
<1>2. b.disk \in Disks /\ b.ledger \in Ledgers
  BY DEF Progress
<1>3. /\ src \in Files /\ key \in Contents \cup {NoKey} /\ src[1] = folder /\ src # dst
      /\ shots[n].id \in DOMAIN collEntries => src = collEntries[shots[n].id].file
      /\ shots[n].id \notin DOMAIN collEntries => src = <<folder, n>>
  <2>1. /\ src \in Files /\ key \in Contents \cup {NoKey}
        /\ shots[n].id \in DOMAIN collEntries => src = collEntries[shots[n].id].file
        /\ shots[n].id \notin DOMAIN collEntries => src = <<folder, n>>
    BY MovedFiles
  <2>2. src[1] = folder
    BY <2>1 DEF EntriesOK
  <2>3. dst[1] = dir
    OBVIOUS
  <2> HIDE DEF src, dst
  <2> QED
    BY <2>1, <2>2, <2>3
<1>4. UpToDate(shots[n]) => b.disk[src] = shots[n].content /\ Exists(b.disk, src)
  <2>1. n \in n - 1 + 1 .. Len(shots)
    BY <1>1
  <2>2. UpToDate(shots[n]) =>
          /\ shots[n].id \in DOMAIN collEntries
          /\ b.disk[collEntries[shots[n].id].file] = shots[n].content
    BY <2>1 DEF MoveTrue, UpToDate
  <2>3. shots[n].content # Absent
    <3>1. shots[n].content \in Contents
      BY <1>1
    <3> QED
      BY <3>1 DEF Absent, Contents
  <2> QED
    BY <1>3, <2>2, <2>3 DEF Exists
<1>5. c \in Progress /\ DOMAIN c.ledger \subseteq DOMAIN b.ledger \cup {key}
  BY <1>1, <1>3, MoveKeepsTypes
<1>6. \/ ~ UpToDate(shots[n]) /\ c = b
      \/ /\ c.outs = b.outs \cup {n}
         /\ c.disk = IF Exists(b.disk, src)
                     THEN [b.disk EXCEPT ![dst] = b.disk[src], ![src] = Absent] ELSE b.disk
  BY <1>4 DEF MoveOne
<1> HIDE DEF c
<1>7. ASSUME NEW i \in 1 .. Len(shots), UpToDate(shots[i]), i > n
      PROVE LET f == collEntries[shots[i].id].file IN f \in Files /\ f # src /\ f # dst
  <2> DEFINE f == collEntries[shots[i].id].file
  <2>1. f \in Files /\ f[1] = folder /\ f[2] \in 1 .. MaxShots /\ i <= f[2]
    BY <1>7, EntryPlace DEF UpToDate
  <2>2. shots[n].id \in DOMAIN collEntries => f # src
    <3>1. shots[n].id \in DOMAIN collEntries => collEntries[shots[n].id].file # f
      BY <1>1, <1>7 DEF EntriesOK, UpToDate
    <3> QED
      BY <1>3, <3>1
  <2>3. shots[n].id \notin DOMAIN collEntries => f # src
    <3>1. <<folder, n>>[2] = n
      OBVIOUS
    <3> HIDE DEF f
    <3>2. f[2] # n
      BY <1>1, <1>7, <2>1
    <3> QED
      BY <1>3, <3>1, <3>2
  <2>4. dst[1] = dir /\ dir # folder
    OBVIOUS
  <2> HIDE DEF f, dst, src
  <2>5. f # dst
    BY <2>1, <2>4
  <2> QED
    BY <2>1, <2>2, <2>3, <2>5 DEF f
<1>8. ASSUME NEW i \in 1 .. n, UpToDate(shots[i])
      PROVE i \in c.outs /\ c.disk[<<dir, i>>] = shots[i].content
  <2>1. CASE i = n
    <3>1. c.outs = b.outs \cup {n} /\ c.disk = [b.disk EXCEPT ![dst] = b.disk[src], ![src] = Absent]
      BY <1>4, <1>6, <1>8, <2>1
    <3>2. dst \in Files
      BY <1>1
    <3> HIDE DEF src
    <3>3. c.disk[dst] = b.disk[src]
      BY <1>2, <1>3, <3>1, <3>2 DEF Disks
    <3> QED
      BY <1>4, <1>8, <2>1, <3>1, <3>3
  <2>2. CASE i # n
    <3>1. i \in 1 .. n - 1 /\ i \in 1 .. Len(shots)
      BY <1>1, <2>2
    <3>2. i \in b.outs /\ b.disk[<<dir, i>>] = shots[i].content /\ <<dir, i>> \in Files
      BY <1>1, <1>8, <3>1 DEF MoveTrue
    <3>3. <<dir, i>> # dst /\ <<dir, i>>[1] = dir /\ dir # folder
      BY <2>2
    <3>4. <<dir, i>> # src
      BY <1>3, <3>3
    <3> HIDE DEF src, dst
    <3> QED
      BY <1>2, <1>3, <1>6, <3>2, <3>3, <3>4 DEF Disks
  <2> QED
    BY <2>1, <2>2
<1>9. ASSUME NEW i \in n + 1 .. Len(shots), UpToDate(shots[i])
      PROVE c.disk[collEntries[shots[i].id].file] = shots[i].content
  <2> DEFINE f == collEntries[shots[i].id].file
  <2>1. i \in 1 .. Len(shots) /\ i > n /\ i \in n - 1 + 1 .. Len(shots)
    BY <1>1
  <2>2. f \in Files /\ f # src /\ f # dst
    BY <1>7, <1>9, <2>1
  <2>3. b.disk[f] = shots[i].content
    BY <1>9, <2>1 DEF MoveTrue
  <2> HIDE DEF f, src, dst
  <2>4. c.disk[f] = b.disk[f]
    BY <1>2, <1>6, <2>2 DEF Disks
  <2> QED
    BY <2>3, <2>4 DEF f
<1>10. key \in {EntryKey(collEntries, shots[i].id) : i \in 1 .. Len(shots)}
  OBVIOUS
<1>11. DOMAIN c.ledger \subseteq DOMAIN ledger
          \cup {EntryKey(collEntries, shots[i].id) : i \in 1 .. Len(shots)}
  BY <1>5, <1>10 DEF MoveTrue
<1> QED
  BY <1>8, <1>9, <1>11 DEF MoveTrue, c

LEMMA MovesTrue ==
  ASSUME ShotsOK, EntriesOK, StoreOK, Behind, RestInv, NEW dir \in Dirs, folder \notin {dir, NoDir}
  PROVE  MoveTrue(Moved(dir, shots, collEntries, AllDone)[Len(shots)], dir, Len(shots))
<1> DEFINE N == Len(shots)
           g == Moved(dir, shots, collEntries, AllDone)
           S == {n \in 0 .. N : MoveTrue(g[n], dir, n)}
<1>0. \A n \in 1 .. N : n \in Ids
  BY ListingFacts DEF ShotsOK, Ids
<1>1. N \in Nat /\ DOMAIN shots = 1 .. N
  BY ListingFacts DEF ShotsOK
<1>2. 0 \in S
  <2>1. g[0] = [disk |-> disk, ledger |-> ledger, outs |-> {}]
    BY <1>1, MovedIs
  <2> HIDE DEF g
  <2>2. MoveTrue(g[0], dir, 0)
    BY <1>1, <2>1 DEF MoveTrue, RestInv
  <2> QED
    BY <1>1, <2>2
<1>3. ASSUME NEW n \in 1 .. N, n - 1 \in S PROVE n \in S
  <2>1. g[n] = MoveOne(g[n - 1], MoveFrom(shots, collEntries, n), <<dir, n>>, n,
                       EntryKey(collEntries, shots[n].id), "done")
    BY <1>0, <1>1, MovedIs DEF AllDone
  <2>2. n - 1 \in 0 .. N /\ n \in 0 .. N /\ MoveTrue(g[n - 1], dir, n - 1)
    BY <1>1, <1>3
  <2>3. g[n - 1] \in Progress
    BY <2>2, MovesTyped
  <2> HIDE DEF g
  <2>4. MoveTrue(g[n], dir, n)
    BY <2>1, <2>2, <2>3, MoveStaysTrue
  <2> QED
    BY <2>2, <2>4
<1>4. N \in 0 .. N
  BY <1>1
<1> HIDE DEF S, N
<1>5. \A n \in 0 .. N : n \in S
  BY <1>1, <1>2, <1>3, UpTo
<1> QED
  BY <1>4, <1>5 DEF S, N
-----------------------------------------------------------------------------
\* What an edit of the user leaves: shots nearer to the front, as they were or
\* with a new content, and perhaps a new shot.
NewContent(k) == MayReturn \/ (k = nextNew /\ nextNew' = nextNew + 1)
Edited ==
  /\ \E m \in Nat : \A i \in 1 .. Len(shots') :
       \/ \E j \in 1 .. Len(shots) : i <= j /\ shots'[i] = shots[j]
       \/ /\ i = m /\ NewContent(shots'[i].content)
          /\ \/ shots'[i].id = nextId
             \/ \E j \in 1 .. Len(shots) : i <= j /\ shots'[i].id = shots[j].id
  /\ nextId <= nextId' /\ nextNew <= nextNew'
  /\ UNCHANGED archiveState

LEMMA Adds ==
  ASSUME ShotsOK, NEW k \in Contents, AddShot(k) PROVE ShotsOK' /\ Edited
<1> DEFINE N == Len(shots)
           new == [id |-> nextId, content |-> k]
<1>0. MaxShots \in Nat /\ nextId \in Nat \ {0} /\ nextNew \in Nat \ {0} /\ nextId <= MaxShots
  BY CollectionAssumption DEF ShotsOK, AddShot
<1>1. /\ N \in Nat /\ shots \in Seq(Shot)
      /\ \A i \in 1 .. N : shots[i] \in Shot /\ shots[i].id \in Nat /\ i <= shots[i].id
           /\ shots[i].id < nextId
      /\ \A i, j \in 1 .. N : i < j => shots[i].id < shots[j].id
  BY ListingFacts DEF ShotsOK, Listing, Ids
<1>2. N < nextId
  <2>1. CASE N = 0
    BY <1>0, <2>1
  <2>2. CASE N # 0
    <3>1. N \in 1 .. N
      BY <1>1, <2>2
    <3>2. N <= shots[N].id /\ shots[N].id < nextId /\ shots[N].id \in Nat
      BY <1>1, <3>1
    <3> QED
      BY <1>0, <1>1, <3>2
  <2> QED
    BY <2>1, <2>2
<1>3. new \in Shot
  BY <1>0 DEF Shot, Ids
<1>4. shots' = Append(shots, new)
  BY DEF AddShot
<1> HIDE DEF new
<1>5. /\ shots' \in Seq(Shot) /\ Len(shots') = N + 1
      /\ \A i \in 1 .. N : shots'[i] = shots[i]
      /\ shots'[N + 1] = new
  BY <1>1, <1>3, <1>4
<1>6. nextId' = nextId + 1
  BY DEF AddShot
<1>7. nextNew' \in Nat \ {0} /\ nextNew <= nextNew' /\ (k = nextNew => nextNew' = nextNew + 1)
  BY <1>0 DEF AddShot, Seen
<1>8. new.id = nextId /\ new.content = k
  BY DEF new
<1>9. ASSUME NEW i \in 1 .. Len(shots')
      PROVE i <= shots'[i].id /\ shots'[i].id < nextId'
  BY <1>0, <1>1, <1>2, <1>5, <1>6, <1>8
<1>10. ASSUME NEW i \in 1 .. Len(shots'), NEW j \in 1 .. Len(shots'), i < j
       PROVE shots'[i].id < shots'[j].id
  BY <1>0, <1>1, <1>5, <1>8, <1>10
<1>11. ShotsOK'
  <2>1. nextId' \in Nat \ {0} /\ nextNew' \in Nat \ {0}
    BY <1>0, <1>6, <1>7
  <2>2. Listing(shots')
    BY <1>5, <1>9, <1>10 DEF Listing
  <2> QED
    BY <2>1, <2>2, <1>9 DEF ShotsOK
<1>12. NewContent(k)
  BY <1>7 DEF NewContent, AddShot, Fresh
<1>13. ASSUME NEW i \in 1 .. Len(shots')
       PROVE \/ \E j \in 1 .. N : i <= j /\ shots'[i] = shots[j]
             \/ i = N + 1 /\ shots'[i].id = nextId /\ shots'[i].content = k
  <2>1. CASE i = N + 1
    BY <1>5, <1>8, <2>1
  <2>2. CASE i # N + 1
    <3>1. i \in 1 .. N
      BY <1>1, <1>5, <2>2
    <3> QED
      BY <1>1, <1>5, <3>1
  <2> QED
    BY <2>1, <2>2
<1>14. nextId <= nextId' /\ nextNew <= nextNew'
  BY <1>0, <1>6, <1>7
<1>15. N + 1 \in Nat
  BY <1>1
<1> QED
  BY <1>11, <1>12, <1>13, <1>14, <1>15 DEF Edited, AddShot

LEMMA Removes ==
  ASSUME ShotsOK, NEW s, RemoveShot(s) PROVE ShotsOK' /\ Edited
<1> DEFINE N == Len(shots)
<1>1. /\ N \in Nat /\ shots \in Seq(Shot) /\ DOMAIN shots = 1 .. N
      /\ \A i \in 1 .. N : shots[i] \in Shot /\ shots[i].id \in Nat /\ i <= shots[i].id
           /\ shots[i].id < nextId
      /\ \A i, j \in 1 .. N : i < j => shots[i].id < shots[j].id
  BY ListingFacts DEF ShotsOK, Listing, Ids
<1>2. PICK d \in 1 .. N : shots' = Shortened(shots, d)
  BY <1>1 DEF RemoveShot
<1> DEFINE Old(i) == IF i < d THEN i ELSE i + 1
<1>3. N - 1 \in Nat /\ \A i \in 1 .. N - 1 : Old(i) \in 1 .. N /\ i <= Old(i)
  BY <1>1
<1>4. \A i, j \in 1 .. N - 1 : i < j => Old(i) < Old(j)
  OBVIOUS
<1>5. shots' = [i \in 1 .. N - 1 |-> shots[Old(i)]]
  BY <1>2 DEF Shortened
<1> HIDE DEF Old
<1>6. shots' \in Seq(Shot) /\ Len(shots') = N - 1
  <2>1. shots' \in [1 .. N - 1 -> Shot]
    BY <1>1, <1>3, <1>5
  <2> QED
    BY <1>3, <2>1, SeqDef
<1>7. \A i \in 1 .. Len(shots') : Old(i) \in 1 .. N /\ i <= Old(i) /\ shots'[i] = shots[Old(i)]
  BY <1>3, <1>5, <1>6
<1>8. nextId' = nextId /\ nextNew' = nextNew /\ nextId \in Nat \ {0} /\ nextNew \in Nat \ {0}
  BY DEF RemoveShot, ShotsOK
<1>9. ASSUME NEW i \in 1 .. Len(shots')
      PROVE i <= shots'[i].id /\ shots'[i].id < nextId'
  <2>1. Old(i) \in 1 .. N /\ i <= Old(i) /\ shots'[i] = shots[Old(i)]
    BY <1>7
  <2>2. Old(i) <= shots[Old(i)].id /\ shots[Old(i)].id \in Nat /\ shots[Old(i)].id < nextId
    BY <1>1, <2>1
  <2> QED
    BY <1>8, <2>1, <2>2
<1>10. ASSUME NEW i \in 1 .. Len(shots'), NEW j \in 1 .. Len(shots'), i < j
       PROVE shots'[i].id < shots'[j].id
  <2>1. /\ Old(i) \in 1 .. N /\ Old(j) \in 1 .. N
        /\ shots'[i] = shots[Old(i)] /\ shots'[j] = shots[Old(j)]
    BY <1>7
  <2>2. Old(i) < Old(j)
    BY <1>4, <1>6, <1>10
  <2> QED
    BY <1>1, <2>1, <2>2
<1>11. ShotsOK'
  BY <1>6, <1>8, <1>9, <1>10 DEF ShotsOK, Listing
<1>12. nextId <= nextId' /\ nextNew <= nextNew'
  BY <1>8
<1>13. \A i \in 1 .. Len(shots') : \E j \in 1 .. N : i <= j /\ shots'[i] = shots[j]
  BY <1>7
<1>14. 0 \in Nat
  OBVIOUS
<1> QED
  BY <1>11, <1>12, <1>13, <1>14 DEF Edited, RemoveShot

LEMMA Updates ==
  ASSUME ShotsOK, NEW n, NEW k \in Contents, UpdateShot(n, k) PROVE ShotsOK' /\ Edited
<1> DEFINE N == Len(shots)
<1>1. /\ N \in Nat /\ shots \in Seq(Shot) /\ DOMAIN shots = 1 .. N
      /\ \A i \in 1 .. N : shots[i] \in Shot /\ shots[i].id \in Nat /\ i <= shots[i].id
           /\ shots[i].id < nextId
      /\ \A i, j \in 1 .. N : i < j => shots[i].id < shots[j].id
  BY ListingFacts DEF ShotsOK, Listing, Ids
<1>2. n \in 1 .. N /\ shots' = [shots EXCEPT ![n].content = k]
  BY <1>1 DEF UpdateShot
<1>3. /\ shots' \in Seq(Shot) /\ Len(shots') = N
      /\ \A i \in 1 .. N : shots'[i] = IF i = n THEN [id |-> shots[i].id, content |-> k] ELSE shots[i]
  <2>1. /\ shots' = [i \in 1 .. N |-> IF i = n THEN [shots[i] EXCEPT !.content = k] ELSE shots[i]]
    BY <1>1, <1>2
  <2>2. [shots[n] EXCEPT !.content = k] = [id |-> shots[n].id, content |-> k]
    BY <1>1, <1>2 DEF Shot
  <2>3. [id |-> shots[n].id, content |-> k] \in Shot
    BY <1>1, <1>2 DEF Shot
  <2>4. shots' = [i \in 1 .. N |-> IF i = n THEN [id |-> shots[i].id, content |-> k] ELSE shots[i]]
    BY <2>1, <2>2
  <2>5. shots' \in [1 .. N -> Shot]
    BY <1>1, <2>3, <2>4
  <2>6. shots' \in Seq(Shot) /\ Len(shots') = N
    BY <1>1, <2>5, SeqDef
  <2> QED
    BY <2>4, <2>6
<1>4. ASSUME NEW i \in 1 .. N
      PROVE shots'[i].id = shots[i].id /\ (shots'[i] = shots[i] \/ (i = n /\ shots'[i].content = k))
  <2>1. CASE i = n
    <3>1. shots'[i] = [id |-> shots[i].id, content |-> k]
      BY <1>3, <2>1
    <3> QED
      BY <2>1, <3>1
  <2>2. CASE i # n
    BY <1>3, <2>2
  <2> QED
    BY <2>1, <2>2
<1>5. /\ nextId' = nextId /\ nextNew' \in Nat \ {0} /\ nextNew <= nextNew'
      /\ nextId \in Nat \ {0} /\ nextId <= nextId'
      /\ k = nextNew => nextNew' = nextNew + 1
  BY DEF UpdateShot, Seen, ShotsOK
<1>6. ShotsOK'
  BY <1>1, <1>3, <1>4, <1>5 DEF ShotsOK, Listing
<1>7. NewContent(k)
  BY <1>5 DEF NewContent, UpdateShot, Fresh
<1>8. ASSUME NEW i \in 1 .. Len(shots')
      PROVE \/ \E j \in 1 .. N : i <= j /\ shots'[i] = shots[j]
            \/ /\ i = n /\ shots'[i].content = k
               /\ \E j \in 1 .. N : i <= j /\ shots'[i].id = shots[j].id
  <2>1. i \in 1 .. N /\ i <= i
    BY <1>1, <1>3
  <2> QED
    BY <1>4, <2>1
<1>9. n \in Nat
  BY <1>1, <1>2
<1> QED
  BY <1>5, <1>6, <1>7, <1>8, <1>9 DEF Edited, UpdateShot

\* An edit moves no shot behind its file or behind its number in a call.
LEMMA EditsKeepStructure ==
  ASSUME StructInv, ShotsOK', Edited PROVE StructInv'
<1>1. /\ nextId \in Nat /\ nextId' \in Nat /\ nextId <= nextId' /\ UNCHANGED archiveState
      /\ Len(shots) \in Nat /\ Len(shots') \in Nat
  BY ListingFacts DEF StructInv, ShotsOK, Edited, Listing
<1>2. ASSUME NEW i \in 1 .. Len(shots')
      PROVE \/ \E j \in 1 .. Len(shots) : i <= j /\ shots'[i].id = shots[j].id
            \/ shots'[i].id = nextId
  BY <1>2 DEF Edited
<1>3. ASSUME NEW s \in DOMAIN collEntries PROVE s \in Nat /\ s < nextId /\ s < nextId'
  <2>1. s \in Nat /\ s < nextId
    BY EntryFacts DEF StructInv, EntriesOK, Ids
  <2> QED
    BY <1>1, <2>1
<1>4. EntriesOK' /\ StoreOK' /\ TasksOK'
  BY <1>1, <1>3 DEF StructInv, EntriesOK, StoreOK, TasksOK, archiveState
<1>5. Behind'
  <2> SUFFICES ASSUME NEW i \in 1 .. Len(shots'), shots'[i].id \in DOMAIN collEntries
               PROVE  i <= collEntries[shots'[i].id].file[2]
    BY <1>1 DEF Behind, archiveState
  <2>1. PICK j \in 1 .. Len(shots) : i <= j /\ shots'[i].id = shots[j].id
    BY <1>1, <1>2, <1>3
  <2>2. collEntries[shots[j].id].file[2] \in Nat /\ j <= collEntries[shots[j].id].file[2]
    BY <2>1, EntryPlace DEF StructInv
  <2> QED
    BY <1>1, <2>1, <2>2
<1>6. ASSUME NEW r \in Archives, Occupied(r)' PROVE WorkOK(task[r])'
  <2> DEFINE c == task[r]
  <2>1. task' = task /\ Occupied(r) /\ WorkOK(c) /\ collEntries' = collEntries /\ folder' = folder
    BY <1>1, <1>6 DEF archiveState, Occupied, StructInv
  <2>2. /\ Len(c.shots) \in Nat
        /\ \A j \in 1 .. Len(c.shots) : c.shots[j].id \in Nat /\ c.shots[j].id < nextId
    BY <2>1, ListingFacts DEF WorkOK, Ids
  <2>3. ASSUME NEW i \in 1 .. Len(shots'), NEW j \in 1 .. Len(c.shots), shots'[i].id = c.shots[j].id
        PROVE  i <= j
    <3>1. PICK k \in 1 .. Len(shots) : i <= k /\ shots'[i].id = shots[k].id
      BY <1>1, <1>2, <2>2, <2>3
    <3>2. k <= j
      BY <2>1, <2>3, <3>1 DEF WorkOK
    <3> QED
      BY <1>1, <2>2, <3>1, <3>2
  <2>4. \A j \in 1 .. Len(c.shots) : c.shots[j].id < nextId'
    BY <1>1, <2>2
  <2> QED
    BY <2>1, <2>3, <2>4 DEF WorkOK
<1> QED
  BY <1>4, <1>5, <1>6 DEF StructInv

\* A content that is new is nobody's yet.
LEMMA EditsKeepOwners ==
  ASSUME StructInv, OwnInv, ShotsOK', Edited, ~ MayReturn PROVE OwnInv'
<1>1. /\ nextNew \in Nat /\ nextNew' \in Nat /\ nextNew <= nextNew' /\ UNCHANGED archiveState
  BY DEF StructInv, ShotsOK, Edited
<1>2. PICK m \in Nat : \A i \in 1 .. Len(shots') :
         \/ \E j \in 1 .. Len(shots) : i <= j /\ shots'[i] = shots[j]
         \/ i = m /\ NewContent(shots'[i].content)
  BY DEF Edited
<1>3. ASSUME NEW s \in Ids, NEW k \in Contents, Made(s, k)'
      PROVE \/ Made(s, k) /\ k < nextNew
            \/ k = nextNew /\ nextNew' = nextNew + 1 /\ s = shots'[m].id
  <2>1. CASE \E i \in 1 .. Len(shots') : shots'[i].id = s /\ shots'[i].content = k
    <3>1. PICK i \in 1 .. Len(shots') : shots'[i].id = s /\ shots'[i].content = k
      BY <2>1
    <3>2. CASE \E j \in 1 .. Len(shots) : i <= j /\ shots'[i] = shots[j]
      <4>1. Made(s, k)
        BY <3>1, <3>2 DEF Made
      <4> QED
        BY <4>1 DEF OwnInv
    <3>3. CASE i = m /\ NewContent(shots'[i].content)
      BY <3>1, <3>3 DEF NewContent
    <3> QED
      BY <1>2, <3>2, <3>3
  <2>2. CASE ~ \E i \in 1 .. Len(shots') : shots'[i].id = s /\ shots'[i].content = k
    <3>1. Made(s, k)
      BY <1>1, <1>3, <2>2 DEF Made, Occupied, archiveState
    <3> QED
      BY <3>1 DEF OwnInv
  <2> QED
    BY <2>1, <2>2
<1>4. ASSUME NEW s \in Ids, NEW t \in Ids, NEW k \in Contents, Made(s, k)', Made(t, k)' PROVE s = t
  <2>1. k \in Nat
    BY DEF Contents
  <2> QED
    BY <1>1, <1>3, <1>4, <2>1 DEF OwnInv
<1>5. ASSUME NEW s \in Ids, NEW k \in Contents, Made(s, k)' PROVE k < nextNew'
  <2>1. k \in Nat
    BY DEF Contents
  <2> QED
    BY <1>1, <1>3, <1>5, <2>1
<1> QED
  BY <1>4, <1>5 DEF OwnInv

\* What was not edited stays true; what has a new content is neither up to date
\* nor known to the ledger.
LEMMA EditsKeepTruth ==
  ASSUME StructInv, OwnInv, TruthInv, ShotsOK', Edited, ~ MayReturn PROVE TruthInv'
<1> SUFFICES ASSUME Calm' PROVE TruthInv'
  BY DEF TruthInv
<1>1. /\ nextNew \in Nat /\ nextNew' \in Nat /\ nextNew <= nextNew'
      /\ collEntries' = collEntries /\ ledger' = ledger /\ disk' = disk /\ task' = task /\ Calm
  BY DEF StructInv, ShotsOK, Edited, archiveState, Calm
<1>2. \A k \in DOMAIN ledger : k \in Nat /\ k < nextNew
  <2>1. DOMAIN ledger \subseteq Contents
    BY LedgerFacts DEF StructInv, StoreOK
  <2> QED
    BY <1>1, <2>1 DEF TruthInv, Contents
<1>3. ASSUME NEW i \in 1 .. Len(shots'),
             UpToDate(shots'[i]) \/ shots'[i].content \in DOMAIN ledger
      PROVE \E j \in 1 .. Len(shots) : shots'[i] = shots[j]
  <2>1. CASE NewContent(shots'[i].content)
    <3>1. shots'[i].content = nextNew
      BY <2>1 DEF NewContent
    <3>2. shots'[i].content \notin DOMAIN ledger
      BY <1>1, <1>2, <3>1
    <3>3. shots'[i].id \in Ids /\ shots'[i].content \in Contents
      BY ListingFacts DEF ShotsOK
    <3>4. Made(shots'[i].id, shots'[i].content)
      BY <1>3, <3>2 DEF UpToDate, Made
    <3>5. nextNew < nextNew
      BY <3>1, <3>3, <3>4 DEF OwnInv
    <3> QED
      BY <1>1, <3>5
  <2>2. CASE ~ NewContent(shots'[i].content)
    BY <2>2 DEF Edited
  <2> QED
    BY <2>1, <2>2
<1>4. \A s : UpToDate(s)' <=> UpToDate(s)
  BY <1>1 DEF UpToDate
<1>5. ASSUME AtRest' PROVE RestInv'
  <2>1. RestInv
    BY <1>1, <1>5 DEF AtRest, TruthInv
  <2>2. ASSUME NEW i \in 1 .. Len(shots')
        PROVE /\ UpToDate(shots'[i]) => disk[collEntries[shots'[i].id].file] = shots'[i].content
              /\ shots'[i].content \in DOMAIN ledger => UpToDate(shots'[i])
    BY <1>3, <2>1 DEF RestInv
  <2> QED
    BY <1>1, <2>2 DEF RestInv, UpToDate
<1>6. ASSUME NEW r \in Archives, Occupied(r)' PROVE WorkInv(task[r])'
  <2> DEFINE c == task[r]
  <2>1. WorkInv(c)
    BY <1>1, <1>6 DEF Occupied, TruthInv
  <2>2. ASSUME NEW i \in 1 .. Len(shots')
        PROVE /\ UpToDate(shots'[i]) => MadeReady(c, shots'[i])
              /\ shots'[i].content \in DOMAIN ledger =>
                   IF c.op = "archive" THEN MadeReady(c, shots'[i]) ELSE UpToDate(shots'[i])
    BY <1>3, <2>1 DEF WorkInv
  <2> QED
    BY <1>1, <2>1, <2>2 DEF WorkInv, UpToDate, MadeReady
<1> QED
  BY <1>1, <1>2, <1>5, <1>6 DEF TruthInv

-----------------------------------------------------------------------------
\* The state of a call, once it is under way.
LEMMA BusyFacts ==
  ASSUME StructInv, NEW r \in Archives, Occupied(r)
  PROVE  LET c == task[r] IN
         /\ c \in Work /\ WorkOK(c) /\ c # Idle
         /\ Len(c.shots) \in Nat /\ DOMAIN c.shots = 1 .. Len(c.shots)
         /\ \A j \in 1 .. Len(c.shots) : j \in 1 .. MaxShots /\ <<c.dir, j>> \in Files
              /\ c.shots[j].id \in Ids /\ c.shots[j].content \in Contents
<1>1. task[r] \in Work /\ WorkOK(task[r]) /\ task[r] # Idle
  BY DEF StructInv, TasksOK, Occupied
<1>2. task[r].dir \in Dirs /\ Listing(task[r].shots)
  BY <1>1 DEF Work, WorkOK
<1> QED
  BY <1>1, <1>2, ListingFacts

LEMMA WorkIsNoRest == \A c \in Work : c # Idle
  BY DEF Work, Idle

\* A call begins with a list of the shots and what it could do at once.
LEMMA Begins ==
  ASSUME StructInv, OneCall', NEW r \in Archives, NEW op \in {"archive", "relocate"},
         NEW dir \in Dirs, NEW b \in Progress, NEW now \in BOOLEAN,
         b.outs \subseteq 1 .. Len(shots), GoesOn(r, op, dir, b, now),
         UNCHANGED <<collection, collEntries, files, folder, failures>>,
         deleted' \in Nat, accidents' \in Nat,
         IF op = "archive" THEN folder \in {dir, NoDir} ELSE folder \notin {dir, NoDir} /\ ~ now
  PROVE  /\ StructInv' /\ \A q \in Archives : Occupied(q)' => q = r
         /\ task'[r].op = op /\ task'[r].shots = shots /\ task'[r].prev = collEntries
         /\ task'[r].dir = dir /\ task'[r].outs = b.outs
         /\ OwnInv => OwnInv'
<1> DEFINE c == [op |-> op, shots |-> shots, prev |-> collEntries, dir |-> dir,
                 outs |-> b.outs, todo |-> DOMAIN shots \ b.outs, made |-> {}, processed |-> now]
<1>1. /\ shots \in Seq(Shot) /\ Len(shots) \in Nat /\ Len(shots) <= MaxShots
      /\ DOMAIN shots = 1 .. Len(shots) /\ MaxShots \in Nat
      /\ b.outs \in Places /\ b.disk \in Disks /\ b.ledger \in Ledgers
  <2>1. MaxShots \in Nat
    BY CollectionAssumption
  <2> QED
    BY <2>1, ListingFacts DEF StructInv, ShotsOK, Listing, Progress
<1>2. c \in Work
  <2>1. DOMAIN shots \ b.outs \in Places /\ {} \in Places
    BY <1>1 DEF Places
  <2>2. collEntries \in Filings
    BY DEF StructInv, EntriesOK
  <2> QED
    BY <1>1, <2>1, <2>2 DEF Work
<1>3. /\ task' = [task EXCEPT ![r] = c] /\ task \in [Archives -> Work \cup {Idle}]
  BY DEF GoesOn, StructInv, TasksOK
<1>4. /\ c.op = op /\ c.shots = shots /\ c.prev = collEntries /\ c.dir = dir /\ c.outs = b.outs
      /\ c.todo = DOMAIN shots \ b.outs /\ c.made = {} /\ c.processed = now
  OBVIOUS
<1> HIDE DEF c
<1>5. TasksOK' /\ task'[r] = c
  BY <1>2, <1>3 DEF TasksOK
<1>6. Occupied(r)'
  BY <1>2, <1>5, WorkIsNoRest DEF Occupied
<1>7. \A q \in Archives : Occupied(q)' => q = r
  BY <1>6 DEF OneCall
<1>8. /\ shots' = shots /\ nextId' = nextId /\ nextNew' = nextNew /\ collEntries' = collEntries
      /\ files' = files /\ folder' = folder
  BY DEF collection
<1>9. ShotsOK' /\ EntriesOK' /\ Behind' /\ StoreOK'
  BY <1>1, <1>8 DEF GoesOn, StructInv, ShotsOK, EntriesOK, Behind, StoreOK
<1>10. WorkOK(task[r])'
  <2>1. \A i, j \in 1 .. Len(shots) : shots[i].id = shots[j].id => i <= j
    BY <1>1, ListingFacts DEF StructInv, ShotsOK
  <2>2. Listing(shots) /\ \A j \in 1 .. Len(shots) : shots[j].id < nextId
    BY DEF StructInv, ShotsOK
  <2>3. /\ b.outs \subseteq 1 .. Len(shots) /\ DOMAIN shots \ b.outs \subseteq 1 .. Len(shots)
        /\ b.outs \cap (DOMAIN shots \ b.outs) = {} /\ {} \subseteq b.outs
    BY <1>1
  <2> QED
    BY <1>4, <1>5, <1>8, <2>1, <2>2, <2>3 DEF WorkOK
<1>11. StructInv'
  <2>1. ASSUME NEW q \in Archives, Occupied(q)' PROVE WorkOK(task[q])'
    BY <1>7, <1>10, <2>1
  <2> QED
    BY <1>5, <1>9, <2>1 DEF StructInv
<1>12. ASSUME OwnInv PROVE OwnInv'
  <2>1. ASSUME NEW s, NEW k, Made(s, k)' PROVE Made(s, k)
    BY <1>4, <1>5, <1>7, <1>8, <2>1 DEF Made
  <2> QED
    BY <1>8, <1>12, <2>1 DEF OwnInv
<1> QED
  BY <1>4, <1>5, <1>7, <1>11, <1>12

\* archive() begins: what was up to date is ready at once.
LEMMA StartsArchive ==
  ASSUME StructInv, OneCall', NEW r \in Archives, NEW dir \in Dirs, StartArchive(r, dir)
  PROVE  StructInv' /\ (OwnInv => OwnInv') /\ (OwnInv /\ TruthInv => TruthInv')
<1>0. PICK fate \in MayFail(CopyFails), now \in BOOLEAN :
        /\ Counted(fate)
        /\ GoesOn(r, "archive", dir, Copied(dir, shots, collEntries, fate)[Len(shots)], now)
  BY DEF StartArchive
<1> DEFINE b == Copied(dir, shots, collEntries, fate)[Len(shots)]
<1>1. Len(shots) \in Nat /\ Len(shots) \in 0 .. Len(shots)
  BY ListingFacts DEF StructInv, ShotsOK
<1>2. b \in Progress /\ b.outs \subseteq 1 .. Len(shots)
  BY <1>1, CopiesTyped DEF StructInv
<1>3. fate = AllDone => CopyTrue(b, dir, Len(shots)) \/ ~ RestInv
  BY CopiesTrue DEF StructInv
<1>4. /\ disk' = b.disk /\ ledger' = b.ledger /\ task[r] = Idle /\ folder \in {dir, NoDir}
      /\ UNCHANGED <<collection, collEntries, files, folder, failures, deleted>>
  BY <1>0 DEF StartArchive, GoesOn
<1>5. GoesOn(r, "archive", dir, b, now)
  BY <1>0
<1> HIDE DEF b
<1>6. /\ deleted' \in Nat /\ accidents' \in Nat
      /\ Calm' => Calm /\ fate = AllDone
  BY <1>0, <1>4 DEF StructInv, StoreOK, Counted, Calm
<1>7. /\ StructInv' /\ \A q \in Archives : Occupied(q)' => q = r
      /\ task'[r].op = "archive" /\ task'[r].shots = shots /\ task'[r].prev = collEntries
      /\ task'[r].dir = dir /\ task'[r].outs = b.outs
      /\ OwnInv => OwnInv'
  BY <1>2, <1>4, <1>5, <1>6, Begins
<1>8. ASSUME OwnInv, TruthInv, Calm' PROVE TruthInv'
  <2>1. Calm /\ AtRest
    <3>1. ASSUME NEW q \in Archives PROVE task[q] = Idle
      <4>1. CASE q = r
        BY <1>4, <4>1
      <4>2. CASE q # r
        BY <1>5, <1>7, <4>2 DEF GoesOn, Occupied, StructInv, TasksOK
      <4> QED
        BY <4>1, <4>2
    <3> QED
      BY <1>6, <1>8, <3>1 DEF AtRest
  <2>2. RestInv /\ CopyTrue(b, dir, Len(shots))
    BY <1>3, <1>6, <1>8, <2>1 DEF TruthInv
  <2>3. /\ shots' = shots /\ nextNew' = nextNew /\ collEntries' = collEntries
        /\ \A s : UpToDate(s)' <=> UpToDate(s)
    BY <1>4 DEF collection, UpToDate
  <2>4. \A i \in 1 .. Len(shots) :
          /\ shots[i].id \in Ids /\ shots[i].content \in Contents
          /\ Made(shots[i].id, shots[i].content)
    BY ListingFacts DEF StructInv, ShotsOK, Made
  <2>5. ASSUME NEW k \in DOMAIN ledger' PROVE k < nextNew'
    BY <1>2, <1>4, <1>8, <2>1, <2>2, <2>3, <2>4 DEF CopyTrue, TruthInv, OwnInv
  <2>6. ~ AtRest'
    BY <1>7 DEF AtRest, Idle
  <2>7. ASSUME NEW i \in 1 .. Len(shots), UpToDate(shots[i]) PROVE i \in b.outs
    BY <2>2, <2>7 DEF CopyTrue
  <2>8. ASSUME NEW i \in 1 .. Len(shots), shots[i].content \in DOMAIN ledger' PROVE i \in b.outs
    <3>1. CASE shots[i].content \in DOMAIN ledger
      BY <2>2, <2>7, <3>1 DEF RestInv
    <3>2. CASE shots[i].content \notin DOMAIN ledger
      <4>1. PICK j \in b.outs : shots[i].content = shots[j].content
        BY <1>4, <2>2, <2>8, <3>2 DEF CopyTrue
      <4>2. shots[i].id = shots[j].id
        BY <1>2, <1>8, <2>4, <4>1 DEF OwnInv
      <4> QED
        BY <1>2, <4>1, <4>2, ListingFacts DEF StructInv, ShotsOK
    <3> QED
      BY <3>1, <3>2
  <2>9. WorkInv(task[r])'
    <3>1. \A j \in b.outs : disk'[<<dir, j>>] = shots[j].content
      BY <1>4, <2>2 DEF CopyTrue
    <3>2. \A i \in b.outs : MadeReady(task[r], shots[i])'
      BY <1>7, <2>3 DEF MadeReady
    <3>3. \A i \in 1 .. Len(shots) :
            /\ UpToDate(shots[i])' => MadeReady(task[r], shots[i])'
            /\ shots[i].content \in DOMAIN ledger' => MadeReady(task[r], shots[i])'
      BY <2>3, <2>7, <2>8, <3>2
    <3> QED
      BY <1>7, <2>3, <3>1, <3>3 DEF WorkInv
  <2> QED
    BY <1>7, <2>5, <2>6, <2>9 DEF TruthInv
<1>9. ASSUME ~ Calm' PROVE TruthInv'
  BY <1>9 DEF TruthInv
<1> QED
  BY <1>7, <1>8, <1>9

\* relocate() begins: what was up to date has moved along.
LEMMA StartsRelocate ==
  ASSUME StructInv, OneCall', NEW r \in Archives, NEW dir \in Dirs, StartRelocate(r, dir)
  PROVE  StructInv' /\ (OwnInv => OwnInv') /\ (OwnInv /\ TruthInv => TruthInv')
<1>0. PICK fate \in MayFail(MoveFails) :
        /\ Counted(fate)
        /\ GoesOn(r, "relocate", dir, Moved(dir, shots, collEntries, fate)[Len(shots)], FALSE)
  BY DEF StartRelocate
<1> DEFINE b == Moved(dir, shots, collEntries, fate)[Len(shots)]
<1>1. Len(shots) \in Nat /\ Len(shots) \in 0 .. Len(shots) /\ folder \notin {dir, NoDir}
  BY ListingFacts DEF StructInv, ShotsOK, StartRelocate
<1>2. b \in Progress /\ b.outs \subseteq 1 .. Len(shots)
  BY <1>1, MovesTyped DEF StructInv
<1>3. fate = AllDone => MoveTrue(b, dir, Len(shots)) \/ ~ RestInv
  BY <1>1, MovesTrue DEF StructInv
<1>4. /\ disk' = b.disk /\ ledger' = b.ledger /\ task[r] = Idle
      /\ UNCHANGED <<collection, collEntries, files, folder, failures, deleted>>
  BY <1>0 DEF StartRelocate, GoesOn
<1>5. GoesOn(r, "relocate", dir, b, FALSE)
  BY <1>0
<1> HIDE DEF b
<1>6. /\ deleted' \in Nat /\ accidents' \in Nat
      /\ Calm' => Calm /\ fate = AllDone
  BY <1>0, <1>4 DEF StructInv, StoreOK, Counted, Calm
<1>7. /\ StructInv' /\ \A q \in Archives : Occupied(q)' => q = r
      /\ task'[r].op = "relocate" /\ task'[r].shots = shots /\ task'[r].prev = collEntries
      /\ task'[r].dir = dir /\ task'[r].outs = b.outs
      /\ OwnInv => OwnInv'
  BY <1>1, <1>2, <1>4, <1>5, <1>6, Begins
<1>8. ASSUME OwnInv, TruthInv, Calm' PROVE TruthInv'
  <2>1. Calm /\ AtRest
    <3>1. ASSUME NEW q \in Archives PROVE task[q] = Idle
      <4>1. CASE q = r
        BY <1>4, <4>1
      <4>2. CASE q # r
        BY <1>5, <1>7, <4>2 DEF GoesOn, Occupied, StructInv, TasksOK
      <4> QED
        BY <4>1, <4>2
    <3> QED
      BY <1>6, <1>8, <3>1 DEF AtRest
  <2>2. RestInv /\ MoveTrue(b, dir, Len(shots))
    BY <1>3, <1>6, <1>8, <2>1 DEF TruthInv
  <2>3. /\ shots' = shots /\ nextNew' = nextNew /\ collEntries' = collEntries
        /\ \A s : UpToDate(s)' <=> UpToDate(s)
    BY <1>4 DEF collection, UpToDate
  <2>4. \A i \in 1 .. Len(shots) :
          /\ shots[i].id \in Ids /\ shots[i].content \in Contents /\ shots[i].content # NoKey
          /\ Made(shots[i].id, shots[i].content)
    <3>1. \A i \in 1 .. Len(shots) : shots[i].id \in Ids /\ shots[i].content \in Contents
      BY ListingFacts DEF StructInv, ShotsOK
    <3>2. \A k \in Contents : k # NoKey
      BY DEF Contents, NoKey
    <3> QED
      BY <3>1, <3>2 DEF Made
  <2>5. DOMAIN ledger' \subseteq Contents
    BY <1>2, <1>4, LedgerFacts DEF Progress
  <2>6. ASSUME NEW k \in DOMAIN ledger', k \notin DOMAIN ledger
        PROVE  \E j \in 1 .. Len(shots) :
                 shots[j].id \in DOMAIN collEntries /\ collEntries[shots[j].id].key = k
    <3>1. PICK j \in 1 .. Len(shots) : k = EntryKey(collEntries, shots[j].id)
      BY <1>4, <2>2, <2>6 DEF MoveTrue
    <3>2. k # NoKey
      BY <2>5 DEF Contents, NoKey
    <3> QED
      BY <3>1, <3>2 DEF EntryKey
  <2>7. ASSUME NEW k \in DOMAIN ledger' PROVE k < nextNew'
    <3>1. CASE k \in DOMAIN ledger
      BY <1>8, <2>1, <2>3, <3>1 DEF TruthInv
    <3>2. CASE k \notin DOMAIN ledger
      <4>1. PICK j \in 1 .. Len(shots) :
               shots[j].id \in DOMAIN collEntries /\ collEntries[shots[j].id].key = k
        BY <2>6, <3>2
      <4>2. shots[j].id \in Ids /\ k \in Contents /\ Made(shots[j].id, k)
        BY <2>4, <2>5, <4>1 DEF Made
      <4> QED
        BY <1>8, <2>3, <4>2 DEF OwnInv
    <3> QED
      BY <3>1, <3>2
  <2>8. ASSUME NEW i \in 1 .. Len(shots), shots[i].content \in DOMAIN ledger' PROVE UpToDate(shots[i])
    <3>1. CASE shots[i].content \in DOMAIN ledger
      BY <2>2, <3>1 DEF RestInv
    <3>2. CASE shots[i].content \notin DOMAIN ledger
      <4>1. PICK j \in 1 .. Len(shots) :
               shots[j].id \in DOMAIN collEntries /\ collEntries[shots[j].id].key = shots[i].content
        BY <2>6, <2>8, <3>2
      <4>2. Made(shots[j].id, shots[i].content)
        BY <4>1 DEF Made
      <4>3. shots[i].id = shots[j].id
        BY <1>8, <2>4, <4>2 DEF OwnInv
      <4> QED
        BY <4>1, <4>3 DEF UpToDate
    <3> QED
      BY <3>1, <3>2
  <2>9. ~ AtRest'
    BY <1>7 DEF AtRest, Idle
  <2>10. WorkInv(task[r])'
    <3>1. ASSUME NEW j \in b.outs, EntryKey(collEntries, shots[j].id) = shots[j].content
          PROVE disk'[<<dir, j>>] = shots[j].content
      <4>1. j \in 1 .. Len(shots) /\ shots[j].content # NoKey
        BY <1>2, <2>4
      <4>2. UpToDate(shots[j])
        BY <3>1, <4>1 DEF EntryKey, UpToDate
      <4> QED
        BY <1>4, <2>2, <4>1, <4>2 DEF MoveTrue
    <3>2. \A i \in b.outs : MadeReady(task[r], shots[i])'
      BY <1>7, <2>3 DEF MadeReady
    <3>3. \A i \in 1 .. Len(shots) :
            /\ UpToDate(shots[i])' => MadeReady(task[r], shots[i])'
            /\ shots[i].content \in DOMAIN ledger' => UpToDate(shots[i])'
      BY <2>2, <2>3, <2>8, <3>2 DEF MoveTrue
    <3> QED
      BY <1>7, <2>3, <3>1, <3>3 DEF WorkInv
  <2> QED
    BY <1>7, <2>7, <2>9, <2>10 DEF TruthInv
<1>9. ASSUME ~ Calm' PROVE TruthInv'
  BY <1>9 DEF TruthInv
<1> QED
  BY <1>7, <1>8, <1>9

\* A clip ends, encoded or not: only its own file changes.
EncodeReturns(r, i, outs, made) ==
  /\ Occupied(r) /\ i \in task[r].todo
  /\ task' = [task EXCEPT ![r].todo = @ \ {i}, ![r].outs = outs, ![r].made = made]
  /\ failures' \in {failures, failures + 1}
  /\ UNCHANGED <<collection, collEntries, files, folder, deleted, accidents>>

LEMMA ClipsKeepStructure ==
  ASSUME StructInv, NEW r \in Archives, NEW i,
         NEW outs, outs \in {task[r].outs, task[r].outs \cup {i}},
         NEW made, made \in {task[r].made, task[r].made \cup {i}},
         made \subseteq outs, EncodeReturns(r, i, outs, made), ledger' \in Ledgers, disk' \in Disks
  PROVE  /\ StructInv' /\ (OwnInv => OwnInv')
         /\ \A q \in Archives : q # r => task'[q] = task[q]
         /\ task'[r].op = task[r].op /\ task'[r].shots = task[r].shots
         /\ task'[r].prev = collEntries /\ task'[r].dir = task[r].dir /\ task'[r].outs = outs
<1> DEFINE c == task[r]
           d == [op |-> c.op, shots |-> c.shots, prev |-> c.prev, dir |-> c.dir,
                 outs |-> outs, todo |-> c.todo \ {i}, made |-> made, processed |-> c.processed]
<1>1. c \in Work /\ WorkOK(c) /\ Occupied(r) /\ i \in c.todo /\ i \in 1 .. MaxShots
  <2>1. c \in Work /\ WorkOK(c) /\ Occupied(r) /\ i \in c.todo
    BY BusyFacts DEF EncodeReturns
  <2> QED
    BY <2>1 DEF Work, Places
<1>2. /\ outs \in Places /\ made \in Places /\ c.todo \ {i} \in Places
      /\ c = [op |-> c.op, shots |-> c.shots, prev |-> c.prev, dir |-> c.dir,
              outs |-> c.outs, todo |-> c.todo, made |-> c.made, processed |-> c.processed]
  BY <1>1 DEF Work, Places
<1>3. d \in Work
  BY <1>1, <1>2 DEF Work
<1>4. task' = [task EXCEPT ![r] = d] /\ task \in [Archives -> Work \cup {Idle}]
  <2>1. task \in [Archives -> Work \cup {Idle}]
    BY DEF StructInv, TasksOK
  <2>2. [[[c EXCEPT !.todo = c.todo \ {i}] EXCEPT !.outs = outs] EXCEPT !.made = made] = d
    <3> HIDE DEF c
    <3>1. PICK x \in Work : x = [c EXCEPT !.todo = c.todo \ {i}]
      BY <1>1, <1>2 DEF Work
    <3>2. PICK y \in Work : y = [x EXCEPT !.outs = outs]
      BY <1>2 DEF Work
    <3>3. PICK z \in Work : z = [y EXCEPT !.made = made]
      BY <1>2 DEF Work
    <3>4. z = [op |-> z.op, shots |-> z.shots, prev |-> z.prev, dir |-> z.dir, outs |-> z.outs,
               todo |-> z.todo, made |-> z.made, processed |-> z.processed]
      BY DEF Work
    <3>5. /\ x.op = c.op /\ x.shots = c.shots /\ x.prev = c.prev /\ x.dir = c.dir
          /\ x.todo = c.todo \ {i} /\ x.processed = c.processed
      BY <1>1, <3>1 DEF Work
    <3>6. /\ y.op = x.op /\ y.shots = x.shots /\ y.prev = x.prev /\ y.dir = x.dir
          /\ y.todo = x.todo /\ y.outs = outs /\ y.processed = x.processed
      BY <3>2 DEF Work
    <3>7. /\ z.op = y.op /\ z.shots = y.shots /\ z.prev = y.prev /\ z.dir = y.dir
          /\ z.todo = y.todo /\ z.outs = y.outs /\ z.made = made /\ z.processed = y.processed
      BY <3>3 DEF Work
    <3> QED
      BY <3>1, <3>2, <3>3, <3>4, <3>5, <3>6, <3>7
  <2> HIDE DEF d
  <2> QED
    BY <2>1, <2>2 DEF EncodeReturns
<1>5. /\ d.op = c.op /\ d.shots = c.shots /\ d.prev = c.prev /\ d.dir = c.dir /\ d.outs = outs
      /\ d.todo = c.todo \ {i} /\ d.made = made /\ d.processed = c.processed
  OBVIOUS
<1> HIDE DEF d
<1>6. TasksOK' /\ task'[r] = d /\ \A q \in Archives : q # r => task'[q] = task[q]
  BY <1>3, <1>4 DEF TasksOK
<1>7. /\ shots' = shots /\ nextId' = nextId /\ nextNew' = nextNew /\ collEntries' = collEntries
      /\ files' = files /\ folder' = folder /\ deleted' = deleted /\ accidents' = accidents
  BY DEF EncodeReturns, collection
<1>8. ShotsOK' /\ EntriesOK' /\ Behind' /\ StoreOK'
  <2>1. failures' \in Nat
    BY DEF EncodeReturns, StructInv, StoreOK
  <2> QED
    BY <1>7, <2>1 DEF StructInv, ShotsOK, EntriesOK, Behind, StoreOK
<1>9. WorkOK(task[r])'
  <2>1. outs \subseteq 1 .. Len(c.shots) /\ outs \cap (c.todo \ {i}) = {}
    BY <1>1 DEF WorkOK
  <2> QED
    BY <1>1, <1>5, <1>6, <1>7, <2>1 DEF WorkOK
<1>10. ASSUME NEW q \in Archives, Occupied(q)' PROVE WorkOK(task[q])'
  <2>1. CASE q = r
    BY <1>9, <2>1
  <2>2. CASE q # r
    BY <1>6, <1>7, <1>10, <2>2 DEF StructInv, Occupied, WorkOK
  <2> QED
    BY <2>1, <2>2
<1>11. ASSUME OwnInv PROVE OwnInv'
  <2>1. ASSUME NEW s, NEW k, Made(s, k)' PROVE Made(s, k)
    BY <1>1, <1>5, <1>6, <1>7, <2>1 DEF Made, Occupied
  <2> QED
    BY <1>7, <1>11, <2>1 DEF OwnInv
<1>12. c.prev = collEntries
  BY <1>1 DEF WorkOK
<1> QED
  BY <1>5, <1>6, <1>8, <1>10, <1>11, <1>12 DEF StructInv

\* The end of a clip keeps the truth: what is ready stays so, and what the ledger
\* learns is the clip's own content.
LEMMA ClipsKeepTruth ==
  ASSUME StructInv, OneCall, OwnInv, TruthInv, Calm, NEW r \in Archives, Occupied(r),
         NEW i \in task[r].todo, NEW outs, outs \in {task[r].outs, task[r].outs \cup {i}},
         UNCHANGED <<collection, collEntries>>,
         \A q \in Archives : q # r => task'[q] = task[q],
         task'[r].op = task[r].op, task'[r].shots = task[r].shots,
         task'[r].prev = collEntries, task'[r].dir = task[r].dir, task'[r].outs = outs,
         \A f \in Files : f # <<task[r].dir, i>> => disk'[f] = disk[f],
         i \in outs => disk'[<<task[r].dir, i>>] = task[r].shots[i].content,
         \/ DOMAIN ledger' = DOMAIN ledger
         \/ /\ i \in outs /\ task[r].op = "archive"
            /\ DOMAIN ledger' = DOMAIN ledger \cup {task[r].shots[i].content}
  PROVE  TruthInv'
<1> DEFINE c == task[r]
           d == task'[r]
           N == Len(c.shots)
           key == c.shots[i].content
<1>1. /\ c \in Work /\ WorkOK(c) /\ i \in 1 .. N /\ c.outs \subseteq 1 .. N
      /\ c.op \in {"archive", "relocate"} /\ i \notin c.outs
      /\ \A j \in 1 .. N : c.shots[j] \in Shot /\ c.shots[j].id \in Ids
           /\ c.shots[j].content \in Contents /\ <<c.dir, j>> \in Files
  <2>1. c \in Work /\ WorkOK(c) /\ \A j \in 1 .. N : <<c.dir, j>> \in Files
    BY BusyFacts
  <2>2. Listing(c.shots)
    BY <2>1 DEF WorkOK
  <2> QED
    BY <2>1, <2>2, ListingFacts DEF WorkOK, Work
<1>2. /\ shots' = shots /\ nextNew' = nextNew /\ collEntries' = collEntries
      /\ c.prev = collEntries
  BY <1>1 DEF collection, WorkOK
<1>3. WorkInv(c) /\ \A k \in DOMAIN ledger : k < nextNew
  BY DEF TruthInv
<1>4. d.op = c.op /\ d.shots = c.shots /\ d.prev = c.prev /\ d.dir = c.dir /\ d.outs = outs
  BY <1>2
<1>5. Made(c.shots[i].id, key)
  BY <1>1 DEF Made
<1>6. ~ AtRest'
  BY <1>1, <1>4 DEF AtRest, Idle
<1>7. \A q \in Archives : Occupied(q)' => q = r
  BY DEF OneCall, Occupied
<1>8. \A k \in DOMAIN ledger' : k < nextNew'
  BY <1>1, <1>2, <1>3, <1>5 DEF OwnInv
<1>9. \A s : MadeReady(c, s) => \E j \in outs : c.shots[j] = s
  BY DEF MadeReady
<1>10. WorkInv(task[r])'
  <2>1. ASSUME NEW j \in outs,
               c.op = "archive" \/ EntryKey(collEntries, c.shots[j].id) = c.shots[j].content
        PROVE  disk'[<<c.dir, j>>] = c.shots[j].content
    <3>1. CASE j = i
      BY <2>1, <3>1
    <3>2. CASE j # i
      <4>1. j \in c.outs /\ <<c.dir, j>> \in Files /\ <<c.dir, j>> # <<c.dir, i>>
        BY <1>1, <3>2
      <4>2. disk[<<c.dir, j>>] = c.shots[j].content
        BY <1>2, <1>3, <2>1, <4>1 DEF WorkInv
      <4> QED
        BY <4>1, <4>2
    <3> QED
      BY <3>1, <3>2
  <2>2. ASSUME NEW n \in 1 .. Len(shots), UpToDate(shots[n])
        PROVE  \E j \in outs : c.shots[j] = shots[n]
    BY <1>3, <1>9, <2>2 DEF WorkInv
  <2>3. ASSUME NEW n \in 1 .. Len(shots), shots[n].content \in DOMAIN ledger'
        PROVE  IF c.op = "archive" THEN \E j \in outs : c.shots[j] = shots[n] ELSE UpToDate(shots[n])
    <3>1. CASE shots[n].content \in DOMAIN ledger
      BY <1>3, <1>9, <3>1 DEF WorkInv
    <3>2. CASE shots[n].content \notin DOMAIN ledger
      <4>1. i \in outs /\ c.op = "archive" /\ shots[n].content = key
        BY <2>3, <3>2
      <4>2. shots[n] \in Shot /\ shots[n].id \in Ids /\ shots[n].content \in Contents
        BY ListingFacts DEF StructInv, ShotsOK
      <4>3. Made(shots[n].id, key)
        BY <4>1 DEF Made
      <4>4. shots[n].id = c.shots[i].id
        BY <1>1, <1>5, <4>2, <4>3 DEF OwnInv
      <4>5. shots[n] = c.shots[i]
        BY <1>1, <4>1, <4>2, <4>4 DEF Shot
      <4> QED
        BY <4>1, <4>5
    <3> QED
      BY <3>1, <3>2
  <2>4. \A s : /\ UpToDate(s)' <=> UpToDate(s)
               /\ MadeReady(task[r], s)' <=> \E j \in outs : c.shots[j] = s
    BY <1>2, <1>4 DEF UpToDate, MadeReady
  <2>5. (c.op = "archive")' <=> c.op = "archive"
    BY <1>4
  <2> HIDE DEF c, d, N, key
  <2> QED
    BY <1>2, <1>4, <2>1, <2>2, <2>3, <2>4 DEF WorkInv, c, d
<1> QED
  BY <1>6, <1>7, <1>8, <1>10 DEF TruthInv

LEMMA Encodes ==
  ASSUME StructInv, OneCall, NEW r \in Archives, NEW i, Encode(r, i)
  PROVE  StructInv' /\ (OwnInv => OwnInv') /\ (OwnInv /\ TruthInv => TruthInv')
<1> DEFINE c == task[r]
           key == c.shots[i].content
           out == <<c.dir, i>>
<1>1. /\ c \in Work /\ Occupied(r) /\ i \in c.todo /\ i \in 1 .. Len(c.shots)
      /\ out \in Files /\ key \in Contents /\ c.made \subseteq c.outs
      /\ c.op = "archive" \/ ~ c.processed
  <2>1. Occupied(r) /\ i \in c.todo
    BY DEF Encode, Occupied
  <2> QED
    BY <2>1, BusyFacts DEF WorkOK, Work
<1>2. /\ disk' = [disk EXCEPT ![out] = key]
      /\ ledger' = IF c.processed THEN Update(ledger, key, out) ELSE ledger
      /\ UNCHANGED <<collection, collEntries, files, folder, failures, deleted, accidents>>
  BY DEF Encode
<1>3. disk' \in Disks /\ disk'[out] = key /\ \A f \in Files : f # out => disk'[f] = disk[f]
  BY <1>1, <1>2 DEF StructInv, StoreOK, Disks
<1>4. /\ ledger' \in Ledgers
      /\ \/ DOMAIN ledger' = DOMAIN ledger
         \/ c.op = "archive" /\ DOMAIN ledger' = DOMAIN ledger \cup {key}
  <2>1. ledger \in Ledgers
    BY DEF StructInv, StoreOK
  <2>2. Update(ledger, key, out) \in Ledgers
        /\ DOMAIN Update(ledger, key, out) = DOMAIN ledger \cup {key}
    BY <1>1, <2>1, LedgerFacts
  <2> QED
    BY <1>1, <1>2, <2>1, <2>2
<1>5. EncodeReturns(r, i, c.outs \cup {i}, c.made \cup {i})
  BY <1>1, <1>2 DEF EncodeReturns, Encode, StructInv, TasksOK, Work
<1>6. /\ StructInv' /\ (OwnInv => OwnInv')
      /\ \A q \in Archives : q # r => task'[q] = task[q]
      /\ task'[r].op = c.op /\ task'[r].shots = c.shots
      /\ task'[r].prev = collEntries /\ task'[r].dir = c.dir /\ task'[r].outs = c.outs \cup {i}
  BY <1>1, <1>3, <1>4, <1>5, ClipsKeepStructure
<1>7. i \in c.outs \cup {i} /\ c.outs \cup {i} \in {c.outs, c.outs \cup {i}}
  OBVIOUS
<1>8. ASSUME OwnInv, TruthInv, Calm' PROVE TruthInv'
  <2>1. Calm /\ UNCHANGED <<collection, collEntries>>
    BY <1>2, <1>8 DEF Calm
  <2> QED
    BY <1>1, <1>3, <1>4, <1>6, <1>7, <1>8, <2>1, ClipsKeepTruth
<1>9. ASSUME ~ Calm' PROVE TruthInv'
  BY <1>9 DEF TruthInv
<1> QED
  BY <1>6, <1>8, <1>9

\* A failed encode leaves its file unfinished; nobody had it ready.
LEMMA EncodesFail ==
  ASSUME StructInv, OneCall, NEW r \in Archives, NEW i, EncodeFails(r, i)
  PROVE  StructInv' /\ (OwnInv => OwnInv') /\ (OwnInv /\ TruthInv => TruthInv')
<1> DEFINE c == task[r]
           out == <<c.dir, i>>
<1>1. /\ c \in Work /\ Occupied(r) /\ i \in c.todo /\ out \in Files /\ c.made \subseteq c.outs
      /\ i \notin c.outs
  <2>1. Occupied(r) /\ i \in c.todo
    BY DEF EncodeFails, Occupied
  <2> QED
    BY <2>1, BusyFacts DEF WorkOK
<1>2. /\ disk' = [disk EXCEPT ![out] = Partial] /\ ledger' = ledger
      /\ failures' = failures + 1
      /\ UNCHANGED <<collection, collEntries, files, folder, deleted, accidents>>
  BY DEF EncodeFails
<1>3. /\ disk' \in Disks /\ \A f \in Files : f # out => disk'[f] = disk[f]
      /\ ledger' \in Ledgers /\ DOMAIN ledger' = DOMAIN ledger
  BY <1>1, <1>2 DEF StructInv, StoreOK, Disks
<1>4. EncodeReturns(r, i, c.outs, c.made)
  <2>1. task' = [task EXCEPT ![r] = [c EXCEPT !.todo = c.todo \ {i}]]
    BY DEF EncodeFails
  <2>2. [c EXCEPT !.todo = c.todo \ {i}]
         = [[[c EXCEPT !.todo = c.todo \ {i}] EXCEPT !.outs = c.outs] EXCEPT !.made = c.made]
    BY <1>1 DEF Work
  <2> QED
    BY <1>1, <1>2, <2>1, <2>2 DEF EncodeReturns, StructInv, TasksOK
<1>5. /\ StructInv' /\ (OwnInv => OwnInv')
      /\ \A q \in Archives : q # r => task'[q] = task[q]
      /\ task'[r].op = c.op /\ task'[r].shots = c.shots
      /\ task'[r].prev = collEntries /\ task'[r].dir = c.dir /\ task'[r].outs = c.outs
  BY <1>1, <1>3, <1>4, ClipsKeepStructure
<1>6. ASSUME OwnInv, TruthInv, Calm' PROVE TruthInv'
  <2>1. Calm /\ UNCHANGED <<collection, collEntries>> /\ c.outs \in {c.outs, c.outs \cup {i}}
    BY <1>2, <1>6 DEF Calm
  <2> QED
    BY <1>1, <1>3, <1>5, <1>6, <2>1, ClipsKeepTruth
<1>7. ASSUME ~ Calm' PROVE TruthInv'
  BY <1>7 DEF TruthInv
<1> QED
  BY <1>5, <1>6, <1>7
-----------------------------------------------------------------------------
LEMMA MaxIn ==
  ASSUME NEW N \in Nat, NEW S \in SUBSET (1 .. N), S # {} PROVE Max(S) \in S
<1> DEFINE T == {N - x : x \in S}
<1>1. PICK m \in T : \A y \in T : m <= y
  <2>1. \A x \in S : N - x \in Nat
    OBVIOUS
  <2>2. T \in SUBSET Nat /\ T # {}
    BY <2>1
  <2> HIDE DEF T
  <2> QED
    BY <2>2, LeastNat
<1>2. PICK x \in S : m = N - x
  BY <1>1
<1>3. \A y \in S : x >= y
  <2>1. ASSUME NEW y \in S PROVE x >= y
    <3>1. N - y \in T /\ x \in Nat /\ y \in Nat
      OBVIOUS
    <3> QED
      BY <1>1, <1>2, <3>1
  <2> QED
    BY <2>1
<1> QED
  BY <1>3 DEF Max

\* The commit of a call names, for the shots it has ready, the files it has them
\* in; what else it changes is given.
NamedIn(c, es) ==
  /\ es \in Filings /\ DOMAIN es = {c.shots[j].id : j \in c.outs}
  /\ \A j \in c.outs :
       /\ es[c.shots[j].id].file = <<c.dir, j>>
       /\ es[c.shots[j].id].key \in {c.shots[j].content, EntryKey(collEntries, c.shots[j].id)}

\* The call is over, or the core was killed.
Ended(r) == task' \in {[task EXCEPT ![r] = Idle], [q \in Archives |-> Idle]}

LEMMA Commits ==
  ASSUME StructInv, OneCall, NEW r \in Archives, Occupied(r), Ended(r),
         UNCHANGED <<collection, deleted>>,
         failures' \in Nat, accidents' \in Nat, ledger' \in Ledgers, disk' \in Disks,
         \/ UNCHANGED <<collEntries, files, folder>>
         \/ /\ NamedIn(task[r], collEntries') /\ folder' = task[r].dir
            /\ files' = [i \in task[r].outs |-> <<task[r].dir, i>>]
  PROVE  StructInv' /\ AtRest' /\ (OwnInv => OwnInv')
<1> DEFINE c == task[r]
           N == Len(c.shots)
<1>1. /\ c \in Work /\ WorkOK(c) /\ c.outs \subseteq 1 .. N /\ N \in Nat /\ c.dir \in Dirs
      /\ c.outs \subseteq 1 .. MaxShots
      /\ \A j \in 1 .. N : c.shots[j].id \in Ids /\ c.shots[j].id < nextId
  BY BusyFacts DEF WorkOK, Work, Places
<1>2. /\ shots' = shots /\ nextId' = nextId /\ nextNew' = nextNew
      /\ deleted' = deleted /\ accidents' \in Nat
  BY DEF collection
<1>3. task \in [Archives -> Work \cup {Idle}]
  BY DEF StructInv, TasksOK
<1>4. /\ \A q \in Archives : task'[q] = Idle
      /\ task' \in [Archives -> Work \cup {Idle}]
  BY <1>3 DEF OneCall, Occupied, Ended
<1>5. ShotsOK' /\ StoreOK' /\ TasksOK' /\ AtRest'
  BY <1>2, <1>4 DEF StructInv, ShotsOK, StoreOK, TasksOK, AtRest
<1>6. EntriesOK' /\ Behind'
  <2>1. CASE UNCHANGED <<collEntries, files, folder>>
    BY <1>2, <2>1 DEF StructInv, EntriesOK, Behind
  <2>2. CASE /\ NamedIn(c, collEntries') /\ folder' = c.dir
             /\ files' = [i \in c.outs |-> <<c.dir, i>>]
    <3>1. \A s \in DOMAIN collEntries' : \E j \in c.outs :
            s = c.shots[j].id /\ collEntries'[s].file = <<c.dir, j>>
      <4> HIDE DEF c
      <4>0. NamedIn(c, collEntries')
        BY ONLY <2>2
      <4>1. \A s \in DOMAIN collEntries' : \E j \in c.outs : s = c.shots[j].id
        BY ONLY <4>0 DEF NamedIn
      <4>2. \A j \in c.outs : collEntries'[c.shots[j].id].file = <<c.dir, j>>
        BY ONLY <4>0 DEF NamedIn
      <4> QED
        BY ONLY <4>1, <4>2
    <3>2. \A s \in DOMAIN collEntries' : s < nextId /\ collEntries'[s].file[1] = c.dir
      <4> HIDE DEF c, N
      <4>1. \A j \in c.outs : c.shots[j].id < nextId
        BY ONLY <1>1
      <4> QED
        BY ONLY <3>1, <4>1
    <3>3. ASSUME NEW s \in DOMAIN collEntries', NEW t \in DOMAIN collEntries',
                 collEntries'[s].file = collEntries'[t].file
          PROVE  s = t
      <4> HIDE DEF c
      <4>1. PICK i \in c.outs : s = c.shots[i].id /\ collEntries'[s].file = <<c.dir, i>>
        BY ONLY <3>1, Zenon
      <4>2. PICK j \in c.outs : t = c.shots[j].id /\ collEntries'[t].file = <<c.dir, j>>
        BY ONLY <3>1, Zenon
      <4>3. <<c.dir, i>> = <<c.dir, j>>
        BY ONLY <4>1, <4>2, <3>3
      <4>4. i = j
        BY ONLY <4>3
      <4> QED
        BY ONLY <4>1, <4>2, <4>4
    <3>4. collEntries' \in Filings /\ DOMAIN files' \subseteq 1 .. MaxShots
      BY <1>1, <2>2 DEF NamedIn
    <3>5. EntriesOK'
      BY <1>1, <1>2, <2>2, <3>2, <3>3, <3>4 DEF EntriesOK
    <3>6. ASSUME NEW i \in 1 .. Len(shots), shots[i].id \in DOMAIN collEntries'
          PROVE  i <= collEntries'[shots[i].id].file[2]
      <4>1. PICK j \in c.outs :
               shots[i].id = c.shots[j].id /\ collEntries'[shots[i].id].file = <<c.dir, j>>
        BY <3>1, <3>6
      <4>2. i <= j
        BY <1>1, <4>1 DEF WorkOK
      <4> QED
        BY <4>1, <4>2
    <3>7. Behind'
      <4> HIDE DEF c
      <4>1. \A i \in 1 .. Len(shots') : shots'[i].id \in DOMAIN collEntries' =>
              i <= collEntries'[shots'[i].id].file[2]
        BY <1>2, <3>6
      <4> QED
        BY <4>1 DEF Behind
    <3> QED
      BY <3>5, <3>7
  <2> QED
    BY <2>1, <2>2
<1>7. StructInv'
  BY <1>4, <1>5, <1>6 DEF StructInv, Occupied
<1>8. ASSUME OwnInv PROVE OwnInv'
  <2>1. ASSUME NEW s \in Ids, NEW k \in Contents, Made(s, k)' PROVE Made(s, k)
    <3>1. CASE s \in DOMAIN collEntries' /\ collEntries'[s].key = k /\ NamedIn(c, collEntries')
      <4>1. PICK j \in c.outs :
              s = c.shots[j].id /\ k \in {c.shots[j].content, EntryKey(collEntries, s)}
        BY <3>1 DEF NamedIn
      <4>2. CASE k = c.shots[j].content
        BY <1>1, <4>1, <4>2 DEF Made
      <4>3. CASE k = EntryKey(collEntries, s)
        BY <4>3 DEF EntryKey, Made, Contents, NoKey
      <4>4. k = c.shots[j].content \/ k = EntryKey(collEntries, s)
        BY ONLY <4>1
      <4> QED
        BY ONLY <4>2, <4>3, <4>4, Zenon
    <3>2. CASE ~ (s \in DOMAIN collEntries' /\ collEntries'[s].key = k /\ NamedIn(c, collEntries'))
      BY <1>2, <1>4, <2>1, <3>2 DEF Made, Occupied
    <3> QED
      BY <3>1, <3>2
  <2> QED
    BY <1>2, <1>8, <2>1 DEF OwnInv
<1> QED
  BY <1>5, <1>7, <1>8

\* The number of the shot that has an identity.
LEMMA ShotAt ==
  ASSUME NEW c, Listing(c.shots), NEW n \in 1 .. Len(c.shots)
  PROVE  NumberOf(c, c.shots[n].id) = n
BY ListingFacts DEF NumberOf

\* The prune takes nothing the new entries name, and when the commit is accepted
\* and nothing fails it takes all they do not.
Orphaned ==
  collEntries' # collEntries =>
    /\ \A f \in FilesOf(collEntries') : disk'[f] = disk[f]
    /\ UNCHANGED <<failures, accidents>> =>
         \A f \in FilesOf(collEntries) \ FilesOf(collEntries') : f[1] = folder' => disk'[f] = Absent

\* archive() ends: what it lists is what it made, and of what it does not list any
\* more some is gone.
LEMMA EndsArchive ==
  ASSUME StructInv, OneCall, NEW r \in Archives, Occupied(r), Ended(r),
         NEW accepted \in BOOLEAN, accepted => task[r].outs # {},
         NEW gone, gone \subseteq Orphans(task[r]), EndArchive(task[r], accepted, gone),
         failures' \in {failures, failures + 1},
         \/ accidents' = accidents /\ accepted = (task[r].outs # {})
         \/ accidents' = accidents + 1,
         accepted /\ UNCHANGED <<failures, accidents>> => gone = Orphans(task[r])
  PROVE  StructInv' /\ Orphaned /\ (OwnInv => OwnInv') /\ (OwnInv /\ TruthInv => TruthInv')
<1> DEFINE c == task[r]
           N == Len(c.shots)
           kept == KeptFiles(c)
           held == HeldShots(c)
           made == IF c.processed THEN {} ELSE c.made
           Of(k) == {i \in made : c.shots[i].content = k}
<1>1. /\ c \in Work /\ WorkOK(c) /\ c.prev = collEntries /\ c.op = "archive"
      /\ N \in Nat /\ c.outs \subseteq 1 .. N /\ made \subseteq c.outs /\ c.dir \in Dirs
      /\ \A j \in 1 .. N : /\ c.shots[j].id \in Ids /\ c.shots[j].content \in Contents
                           /\ <<c.dir, j>> \in Files
  <2>1. c.op = "archive"
    BY DEF EndArchive
  <2>2. c \in Work /\ WorkOK(c) /\ N \in Nat
        /\ \A j \in 1 .. N : /\ c.shots[j].id \in Ids /\ c.shots[j].content \in Contents
                             /\ <<c.dir, j>> \in Files
    BY BusyFacts
  <2> QED
    BY <2>1, <2>2 DEF WorkOK, Work
<1>2. \A j \in c.outs : NumberOf(c, c.shots[j].id) = j
  <2>1. Listing(c.shots) /\ \A j \in c.outs : j \in 1 .. Len(c.shots)
    BY <1>1 DEF WorkOK
  <2> HIDE DEF c
  <2> QED
    BY <2>1, ShotAt
<1>3. /\ ledger' = [k \in DOMAIN ledger \cup {c.shots[i].content : i \in made} |->
            IF \E i \in made : c.shots[i].content = k THEN <<c.dir, Max(Of(k))>> ELSE ledger[k]]
      /\ \/ ~ accepted /\ UNCHANGED <<collEntries, files, folder>>
         \/ /\ accepted /\ c.outs # {} /\ collEntries' = ArchivedEntries(c)
            /\ files' = [i \in c.outs |-> <<c.dir, i>>]
            /\ folder' = c.dir
      /\ disk' = [f \in Files |-> IF f \in gone THEN Absent ELSE disk[f]]
      /\ UNCHANGED <<collection, deleted>>
  BY DEF EndArchive, Recorded, MarkArchived
<1>4. ledger' \in Ledgers /\ DOMAIN ledger' = DOMAIN ledger \cup {c.shots[i].content : i \in made}
  <2> DEFINE D == DOMAIN ledger \cup {c.shots[i].content : i \in made}
  <2>1. DOMAIN ledger \subseteq Contents /\ \A k \in DOMAIN ledger : ledger[k] \in Files
    BY LedgerFacts DEF StructInv, StoreOK
  <2>2. ASSUME NEW k, \E i \in made : c.shots[i].content = k PROVE <<c.dir, Max(Of(k))>> \in Files
    <3>1. Of(k) \in SUBSET (1 .. N) /\ Of(k) # {}
      BY <1>1, <2>2
    <3>2. Max(Of(k)) \in 1 .. N
      <4> HIDE DEF Of
      <4> QED
        BY <1>1, <3>1, MaxIn
    <3> QED
      BY <1>1, <3>2
  <2>3. D \in SUBSET Contents
    BY <1>1, <2>1
  <2> HIDE DEF Of
  <2>4. ledger' \in [D -> Files]
    BY <1>3, <2>1, <2>2
  <2> HIDE DEF D
  <2>5. ledger' \in Ledgers /\ DOMAIN ledger' = D
    BY <2>3, <2>4 DEF Ledgers
  <2> QED
    BY <2>5 DEF D
<1>5. disk' \in Disks
  BY <1>3 DEF StructInv, StoreOK, Disks
<1>6. ASSUME accepted
      PROVE  /\ NamedIn(c, collEntries') /\ DOMAIN collEntries' = held
             /\ \A j \in c.outs : /\ collEntries'[c.shots[j].id].file = <<c.dir, j>>
                                  /\ collEntries'[c.shots[j].id].key = c.shots[j].content
  <2> HIDE DEF c
  <2>1. /\ held = {c.shots[j].id : j \in c.outs}
        /\ collEntries' = [s \in held |-> [file |-> <<c.dir, NumberOf(c, s)>>,
                                          key |-> c.shots[NumberOf(c, s)].content]]
    BY <1>3, <1>6 DEF ArchivedEntries, HeldShots
  <2> HIDE DEF held
  <2>2. ASSUME NEW j \in c.outs
        PROVE  collEntries'[c.shots[j].id] = [file |-> <<c.dir, j>>, key |-> c.shots[j].content]
    BY <1>2, <2>1
  <2>3. ASSUME NEW j \in c.outs
        PROVE  /\ collEntries'[c.shots[j].id].file = <<c.dir, j>>
               /\ collEntries'[c.shots[j].id].key = c.shots[j].content
               /\ collEntries'[c.shots[j].id] \in Filed
    <3>1. <<c.dir, j>> \in Files /\ c.shots[j].content \in Contents
      BY <1>1
    <3>2. [file |-> <<c.dir, j>>, key |-> c.shots[j].content] \in Filed
      BY <3>1 DEF Filed
    <3> QED
      BY <2>2, <3>2
  <2>4. held \in SUBSET Ids
    BY <1>1, <2>1
  <2>5. collEntries' \in [held -> Filed]
    BY <2>1, <2>3
  <2>6. collEntries' \in Filings
    BY <2>4, <2>5 DEF Filings
  <2>7. DOMAIN collEntries' = held
    BY <2>1
  <2> QED
    BY <2>1, <2>3, <2>6, <2>7 DEF NamedIn
<1>7. StructInv' /\ AtRest' /\ (OwnInv => OwnInv')
  <2>1. failures' \in Nat /\ accidents' \in Nat
    BY DEF StructInv, StoreOK
  <2>2. UNCHANGED <<collection, deleted>>
    BY <1>3
  <2>3. \/ UNCHANGED <<collEntries, files, folder>>
        \/ /\ NamedIn(c, collEntries') /\ folder' = c.dir
           /\ files' = [i \in c.outs |-> <<c.dir, i>>]
    BY <1>3, <1>6
  <2> QED
    BY <1>4, <1>5, <2>1, <2>2, <2>3, Commits
<1>8. Orphaned
  <2> SUFFICES ASSUME collEntries' # collEntries
               PROVE  /\ \A f \in FilesOf(collEntries') : disk'[f] = disk[f]
                      /\ UNCHANGED <<failures, accidents>> =>
                           \A f \in FilesOf(collEntries) \ FilesOf(collEntries') :
                             f[1] = folder' => disk'[f] = Absent
    BY DEF Orphaned
  <2>1. accepted /\ folder' = c.dir
    BY <1>3
  <2>2. FilesOf(collEntries') = kept
    <3> HIDE DEF c
    <3>1. kept = {<<c.dir, j>> : j \in c.outs} /\ held = {c.shots[j].id : j \in c.outs}
      BY DEF KeptFiles, HeldShots
    <3>2. /\ DOMAIN collEntries' = held
          /\ \A j \in c.outs : collEntries'[c.shots[j].id].file = <<c.dir, j>>
      BY <1>6, <2>1
    <3> HIDE DEF kept, held
    <3>3. ASSUME NEW f \in FilesOf(collEntries') PROVE f \in kept
      <4>1. PICK s \in held : f = collEntries'[s].file
        BY <3>2, <3>3 DEF FilesOf
      <4>2. PICK j \in c.outs : s = c.shots[j].id
        BY <3>1, <4>1
      <4> QED
        BY <3>1, <3>2, <4>1, <4>2
    <3>4. ASSUME NEW f \in kept PROVE f \in FilesOf(collEntries')
      <4>1. PICK j \in c.outs : f = <<c.dir, j>>
        BY <3>1, <3>4
      <4>2. c.shots[j].id \in DOMAIN collEntries' /\ f = collEntries'[c.shots[j].id].file
        BY <3>1, <3>2, <4>1
      <4> QED
        BY <4>2 DEF FilesOf
    <3> QED
      BY <3>3, <3>4
  <2>3. kept \subseteq Files /\ kept \cap gone = {}
    BY <1>1 DEF KeptFiles, Orphans
  <2>4. ASSUME NEW f \in FilesOf(collEntries') PROVE disk'[f] = disk[f]
    <3>1. f \in Files /\ f \notin gone
      BY <2>2, <2>3, <2>4
    <3> QED
      BY <1>3, <3>1
  <2>5. ASSUME UNCHANGED <<failures, accidents>>,
               NEW f \in FilesOf(collEntries) \ FilesOf(collEntries'), f[1] = folder'
        PROVE  disk'[f] = Absent
    <3>1. gone = Orphans(c)
      BY <2>1, <2>5
    <3>2. f \in Orphans(c)
      BY <1>1, <2>1, <2>2, <2>5 DEF Orphans
    <3>3. f \in Files
      BY <2>5, EntryFacts DEF FilesOf, StructInv, EntriesOK
    <3> QED
      BY <1>3, <3>1, <3>2, <3>3
  <2> QED
    BY <2>4, <2>5
<1>9. ASSUME OwnInv, TruthInv, Calm' PROVE TruthInv'
  <2>0. Calm /\ accepted = (c.outs # {})
    BY <1>3, <1>9 DEF Calm, StructInv, StoreOK
  <2>1. /\ WorkInv(c) /\ \A k \in DOMAIN ledger : k < nextNew
        /\ shots' = shots /\ nextNew' = nextNew
    BY <1>1, <1>3, <1>9, <2>0 DEF TruthInv, collection
  <2>2. \A j \in 1 .. N : Made(c.shots[j].id, c.shots[j].content)
    BY <1>1 DEF Made
  <2>3. \A k \in DOMAIN ledger' : k < nextNew'
    BY <1>1, <1>4, <1>9, <2>1, <2>2 DEF OwnInv
  <2>4. \A i \in 1 .. Len(shots) : shots[i].id \in Ids /\ shots[i].content \in Contents
          /\ Made(shots[i].id, shots[i].content)
    BY ListingFacts DEF StructInv, ShotsOK, Made
  <2>5. ASSUME NEW i \in 1 .. Len(shots), shots[i].content \in DOMAIN ledger'
        PROVE  \E j \in c.outs : c.shots[j].id = shots[i].id /\ c.shots[j].content = shots[i].content
    <3>1. CASE shots[i].content \in DOMAIN ledger
      BY <1>1, <2>1, <3>1 DEF WorkInv, MadeReady
    <3>2. CASE shots[i].content \notin DOMAIN ledger
      <4>1. PICK j \in made : shots[i].content = c.shots[j].content
        BY <1>4, <2>5, <3>2
      <4>2. shots[i].id = c.shots[j].id
        BY <1>1, <1>9, <2>2, <2>4, <4>1 DEF OwnInv
      <4> QED
        BY <1>1, <4>1, <4>2
    <3> QED
      BY <3>1, <3>2
  <2>6. RestInv'
    <3>1. CASE c.outs = {}
      <4>1. collEntries' = collEntries
        BY <1>3, <2>0, <3>1
      <4>2. ASSUME NEW i \in 1 .. Len(shots) PROVE ~ UpToDate(shots[i])
        BY <2>1, <3>1 DEF WorkInv, MadeReady
      <4> QED
        BY <2>1, <2>5, <3>1, <4>1, <4>2 DEF RestInv, UpToDate
    <3>2. CASE c.outs # {}
      <4>1. ASSUME NEW i \in 1 .. Len(shots), shots[i].id \in DOMAIN collEntries',
                   collEntries'[shots[i].id].key = shots[i].content
            PROVE  disk'[collEntries'[shots[i].id].file] = shots[i].content
        <5>1. PICK j \in c.outs : c.shots[j].id = shots[i].id
          BY <1>6, <2>0, <3>2, <4>1 DEF HeldShots
        <5>2. collEntries'[shots[i].id].file = <<c.dir, j>> /\ shots[i].content = c.shots[j].content
          BY <1>6, <2>0, <3>2, <4>1, <5>1
        <5>3. disk[<<c.dir, j>>] = c.shots[j].content
          BY <1>1, <2>1 DEF WorkInv
        <5>4. <<c.dir, j>> \in Files /\ <<c.dir, j>> \notin gone
          BY <1>1 DEF Orphans, KeptFiles
        <5> QED
          BY <1>3, <3>2, <5>2, <5>3, <5>4
      <4>2. ASSUME NEW i \in 1 .. Len(shots), shots[i].content \in DOMAIN ledger'
            PROVE  /\ shots[i].id \in DOMAIN collEntries'
                   /\ collEntries'[shots[i].id].key = shots[i].content
        BY <1>6, <2>0, <2>5, <3>2, <4>2 DEF HeldShots
      <4> QED
        BY <2>1, <4>1, <4>2 DEF RestInv, UpToDate
    <3> QED
      BY <3>1, <3>2
  <2>7. \A q \in Archives : ~ Occupied(q)'
    BY <1>7 DEF AtRest, Occupied
  <2> QED
    BY <2>3, <2>6, <2>7 DEF TruthInv
<1>10. ASSUME ~ Calm' PROVE TruthInv'
  BY <1>10 DEF TruthInv
<1> QED
  BY <1>7, <1>8, <1>9, <1>10

\* relocate() ends: what it lists as up to date was so, and has moved along.
LEMMA EndsRelocate ==
  ASSUME StructInv, OneCall, NEW r \in Archives, Occupied(r), Ended(r),
         NEW accepted \in BOOLEAN, accepted => task[r].outs # {}, EndRelocate(task[r], accepted),
         failures' \in {failures, failures + 1},
         \/ accidents' = accidents /\ accepted = (task[r].outs # {})
         \/ accidents' = accidents + 1
  PROVE  StructInv' /\ Orphaned /\ (OwnInv => OwnInv') /\ (OwnInv /\ TruthInv => TruthInv')
<1> DEFINE c == task[r]
           N == Len(c.shots)
           held == HeldShots(c)
<1>1. /\ c \in Work /\ WorkOK(c) /\ c.prev = collEntries /\ c.op = "relocate"
      /\ c.outs \subseteq 1 .. N /\ folder # c.dir
      /\ \A j \in 1 .. N : /\ c.shots[j].id \in Ids /\ c.shots[j].content \in Contents
                           /\ <<c.dir, j>> \in Files
  <2>1. c.op = "relocate"
    BY DEF EndRelocate
  <2>2. c \in Work /\ WorkOK(c)
        /\ \A j \in 1 .. N : /\ c.shots[j].id \in Ids /\ c.shots[j].content \in Contents
                             /\ <<c.dir, j>> \in Files
    BY BusyFacts
  <2> QED
    BY <2>1, <2>2 DEF WorkOK
<1>2. \A j \in c.outs : NumberOf(c, c.shots[j].id) = j
  <2>1. Listing(c.shots) /\ \A j \in c.outs : j \in 1 .. Len(c.shots)
    BY <1>1 DEF WorkOK
  <2> HIDE DEF c
  <2> QED
    BY <2>1, ShotAt
<1>3. /\ \/ ~ accepted /\ UNCHANGED <<collEntries, files, folder>>
         \/ /\ accepted /\ c.outs # {} /\ collEntries' = RelocatedEntries(c)
            /\ files' = [i \in c.outs |-> <<c.dir, i>>]
            /\ folder' = c.dir
      /\ UNCHANGED <<collection, ledger, disk, deleted>>
  BY DEF EndRelocate, MarkArchived
<1>4. ledger' \in Ledgers /\ disk' \in Disks
  BY <1>3 DEF StructInv, StoreOK
<1>5. ASSUME accepted
      PROVE  /\ NamedIn(c, collEntries') /\ DOMAIN collEntries' = held
             /\ \A j \in c.outs :
                  /\ collEntries'[c.shots[j].id].file = <<c.dir, j>>
                  /\ collEntries'[c.shots[j].id].key = EntryKey(collEntries, c.shots[j].id)
  <2> HIDE DEF c
  <2>1. /\ held = {c.shots[j].id : j \in c.outs}
        /\ collEntries' = [s \in held |-> [file |-> <<c.dir, NumberOf(c, s)>>,
                                          key |-> EntryKey(collEntries, s)]]
    BY <1>1, <1>3, <1>5 DEF RelocatedEntries, HeldShots
  <2> HIDE DEF held
  <2>2. ASSUME NEW j \in c.outs
        PROVE  /\ collEntries'[c.shots[j].id].file = <<c.dir, j>>
               /\ collEntries'[c.shots[j].id].key = EntryKey(collEntries, c.shots[j].id)
               /\ collEntries'[c.shots[j].id] \in Filed
    <3>1. collEntries'[c.shots[j].id] =
            [file |-> <<c.dir, j>>, key |-> EntryKey(collEntries, c.shots[j].id)]
      BY <1>2, <2>1
    <3>2. <<c.dir, j>> \in Files /\ EntryKey(collEntries, c.shots[j].id) \in Contents \cup {NoKey}
      BY <1>1, EntryFacts DEF EntryKey, StructInv, EntriesOK
    <3>3. [file |-> <<c.dir, j>>, key |-> EntryKey(collEntries, c.shots[j].id)] \in Filed
      BY <3>2 DEF Filed
    <3> QED
      BY <3>1, <3>3
  <2>3. held \in SUBSET Ids
    BY <1>1, <2>1
  <2>4. collEntries' \in [held -> Filed]
    BY <2>1, <2>2
  <2>5. collEntries' \in Filings
    BY <2>3, <2>4 DEF Filings
  <2>6. DOMAIN collEntries' = held
    BY <2>1
  <2> QED
    BY <2>1, <2>2, <2>5, <2>6 DEF NamedIn
<1>6. StructInv' /\ AtRest' /\ (OwnInv => OwnInv')
  <2>1. failures' \in Nat /\ accidents' \in Nat
    BY DEF StructInv, StoreOK
  <2>2. UNCHANGED <<collection, deleted>>
    BY <1>3
  <2>3. \/ UNCHANGED <<collEntries, files, folder>>
        \/ /\ NamedIn(c, collEntries') /\ folder' = c.dir
           /\ files' = [i \in c.outs |-> <<c.dir, i>>]
    BY <1>3, <1>5
  <2> QED
    BY <1>4, <2>1, <2>2, <2>3, Commits
<1>7. Orphaned
  <2>1. disk' = disk
    BY <1>3
  <2>2. ASSUME collEntries' # collEntries, NEW f \in FilesOf(collEntries), f[1] = folder'
        PROVE  FALSE
    <3>1. folder' = c.dir
      BY <1>3, <2>2
    <3>2. f[1] = folder
      BY <2>2 DEF FilesOf, StructInv, EntriesOK
    <3> QED
      BY <1>1, <2>2, <3>1, <3>2
  <2> QED
    BY <2>1, <2>2 DEF Orphaned
<1>8. ASSUME OwnInv, TruthInv, Calm' PROVE TruthInv'
  <2>0. Calm /\ accepted = (c.outs # {})
    BY <1>3, <1>8 DEF Calm, StructInv, StoreOK
  <2>1. /\ WorkInv(c) /\ \A k \in DOMAIN ledger : k < nextNew
        /\ shots' = shots /\ nextNew' = nextNew /\ ledger' = ledger /\ disk' = disk
    BY <1>1, <1>3, <1>8, <2>0 DEF TruthInv, collection
  <2>2. \A i \in 1 .. Len(shots) : shots[i].content # NoKey
    BY ListingFacts DEF StructInv, ShotsOK, Contents, NoKey
  <2>3. ASSUME NEW i \in 1 .. Len(shots), UpToDate(shots[i])
        PROVE  \E j \in c.outs : c.shots[j] = shots[i]
    BY <2>1, <2>3 DEF WorkInv, MadeReady
  <2>4. ASSUME NEW i \in 1 .. Len(shots), shots[i].content \in DOMAIN ledger
        PROVE  UpToDate(shots[i])
    BY <1>1, <2>1, <2>4 DEF WorkInv
  <2>5. RestInv'
    <3>1. CASE c.outs = {}
      <4>1. collEntries' = collEntries
        BY <1>3, <2>0, <3>1
      <4>2. ASSUME NEW i \in 1 .. Len(shots) PROVE ~ UpToDate(shots[i])
        BY <2>3, <3>1
      <4> QED
        BY <2>1, <2>4, <4>1, <4>2 DEF RestInv, UpToDate
    <3>2. CASE c.outs # {}
      <4>1. ASSUME NEW i \in 1 .. Len(shots), shots[i].id \in DOMAIN collEntries',
                   collEntries'[shots[i].id].key = shots[i].content
            PROVE  disk'[collEntries'[shots[i].id].file] = shots[i].content
        <5>1. PICK j \in c.outs : c.shots[j].id = shots[i].id
          BY <1>5, <2>0, <3>2, <4>1 DEF HeldShots
        <5>2. /\ collEntries'[shots[i].id].file = <<c.dir, j>>
              /\ EntryKey(collEntries, shots[i].id) = shots[i].content
          BY <1>5, <2>0, <3>2, <4>1, <5>1
        <5>3. UpToDate(shots[i])
          BY <2>2, <5>2 DEF EntryKey, UpToDate
        <5>4. PICK n \in c.outs : c.shots[n] = shots[i]
          BY <2>3, <5>3
        <5>5. n = j
          BY <1>1, <5>1, <5>4, ListingFacts DEF WorkOK
        <5>6. EntryKey(c.prev, c.shots[j].id) = c.shots[j].content
          BY <1>1, <5>2, <5>4, <5>5
        <5>7. disk[<<c.dir, j>>] = c.shots[j].content
          BY <2>1, <5>6 DEF WorkInv
        <5> QED
          BY <2>1, <5>2, <5>4, <5>5, <5>7
      <4>2. ASSUME NEW i \in 1 .. Len(shots), shots[i].content \in DOMAIN ledger
            PROVE  /\ shots[i].id \in DOMAIN collEntries'
                   /\ collEntries'[shots[i].id].key = shots[i].content
        <5>1. UpToDate(shots[i])
          BY <2>4, <4>2
        <5>2. PICK j \in c.outs : c.shots[j] = shots[i]
          BY <2>3, <5>1
        <5>3. EntryKey(collEntries, shots[i].id) = shots[i].content
          BY <5>1 DEF EntryKey, UpToDate
        <5> QED
          BY <1>5, <2>0, <3>2, <5>2, <5>3 DEF HeldShots
      <4> QED
        BY <2>1, <4>1, <4>2 DEF RestInv, UpToDate
    <3> QED
      BY <3>1, <3>2
  <2>6. \A q \in Archives : ~ Occupied(q)'
    BY <1>6 DEF AtRest, Occupied
  <2> QED
    BY <2>1, <2>5, <2>6 DEF TruthInv
<1>9. ASSUME ~ Calm' PROVE TruthInv'
  BY <1>9 DEF TruthInv
<1> QED
  BY <1>6, <1>7, <1>8, <1>9

\* The ways a call ends, each with what it accepts and what it deletes.
LEMMA CallsEnd ==
  ASSUME StructInv, OneCall, NEW r \in Archives,
         \/ FinishArchive(r) \/ FinishRelocate(r) \/ LockedFilesStay(r)
         \/ CommitRefused(r) \/ KilledWhileFinishing(r)
  PROVE  StructInv' /\ Orphaned /\ (OwnInv => OwnInv') /\ (OwnInv /\ TruthInv => TruthInv')
<1>1. CASE FinishArchive(r)
  <2> DEFINE any == task[r].outs # {}
             gone == IF any THEN Orphans(task[r]) ELSE {}
  <2>1. /\ Occupied(r) /\ Ended(r) /\ EndArchive(task[r], any, gone) /\ UNCHANGED <<failures, accidents>>
        /\ any \in BOOLEAN /\ gone \subseteq Orphans(task[r]) /\ (any => gone = Orphans(task[r]))
    BY <1>1 DEF FinishArchive, Occupied, Ended
  <2> QED
    BY <2>1, EndsArchive
<1>2. CASE FinishRelocate(r)
  <2> DEFINE any == task[r].outs # {}
  <2>1. /\ Occupied(r) /\ Ended(r) /\ EndRelocate(task[r], any) /\ UNCHANGED <<failures, accidents>>
        /\ any \in BOOLEAN
    BY <1>2 DEF FinishRelocate, Occupied, Ended
  <2> QED
    BY <2>1, EndsRelocate
<1>3. CASE LockedFilesStay(r)
  <2>1. PICK gone \in SUBSET Orphans(task[r]) \ {Orphans(task[r])} : EndArchive(task[r], TRUE, gone)
    BY <1>3 DEF LockedFilesStay
  <2>2. /\ Occupied(r) /\ Ended(r) /\ task[r].outs # {} /\ accidents' = accidents
        /\ failures' = failures + 1
    BY <1>3 DEF LockedFilesStay, Occupied, Ended
  <2>3. failures' # failures
    BY <2>2 DEF StructInv, StoreOK
  <2> QED
    BY <2>1, <2>2, <2>3, EndsArchive
<1>4. CASE CommitRefused(r)
  <2>1. /\ Occupied(r) /\ Ended(r) /\ accidents' = accidents + 1 /\ failures' = failures
        /\ EndArchive(task[r], FALSE, Orphans(task[r])) \/ EndRelocate(task[r], FALSE)
    BY <1>4 DEF CommitRefused, Occupied, Ended
  <2> QED
    BY <2>1, EndsArchive, EndsRelocate
<1>5. CASE KilledWhileFinishing(r)
  <2>1. /\ Occupied(r) /\ Ended(r) /\ task[r].outs # {} /\ accidents' = accidents + 1 /\ failures' = failures
        /\ \/ EndArchive(task[r], FALSE, {})
           \/ \E n \in 0 .. MaxShots :
                EndArchive(task[r], TRUE, {f \in Orphans(task[r]) : f[2] <= n})
    BY <1>5 DEF KilledWhileFinishing, Occupied, Ended
  <2>2. accidents' # accidents
    BY <2>1 DEF StructInv, StoreOK
  <2>3. CASE EndArchive(task[r], FALSE, {})
    BY <2>1, <2>3, EndsArchive
  <2>4. ASSUME NEW n \in 0 .. MaxShots,
               EndArchive(task[r], TRUE, {f \in Orphans(task[r]) : f[2] <= n})
        PROVE  StructInv' /\ Orphaned /\ (OwnInv => OwnInv') /\ (OwnInv /\ TruthInv => TruthInv')
    <3> DEFINE gone == {f \in Orphans(task[r]) : f[2] <= n}
    <3>1. gone \subseteq Orphans(task[r])
      OBVIOUS
    <3> HIDE DEF gone
    <3>2. EndArchive(task[r], TRUE, gone)
      BY <2>4 DEF gone
    <3> QED
      BY <2>1, <2>2, <3>1, <3>2, EndsArchive
  <2> QED
    BY <2>1, <2>3, <2>4
<1> QED
  BY <1>1, <1>2, <1>3, <1>4, <1>5
-----------------------------------------------------------------------------
\* A file deleted and a core killed leave the structure alone.
LEMMA Mishap ==
  ASSUME StructInv, UNCHANGED <<collection, collEntries, files, folder, failures>>,
         task' \in {task, [r \in Archives |-> Idle]}, ledger' \in Ledgers, disk' \in Disks,
         \/ deleted' = deleted + 1 /\ accidents' = accidents
         \/ deleted' = deleted /\ accidents' = accidents + 1
  PROVE  StructInv' /\ (OwnInv => OwnInv') /\ TruthInv'
<1>1. /\ shots' = shots /\ nextId' = nextId /\ nextNew' = nextNew /\ collEntries' = collEntries
      /\ files' = files /\ folder' = folder /\ task \in [Archives -> Work \cup {Idle}]
  BY DEF collection, StructInv, TasksOK
<1>2. deleted' \in Nat /\ accidents' \in Nat /\ ~ (accidents' = 0 /\ deleted' = 0)
  BY DEF StructInv, StoreOK
<1>3. TasksOK' /\ \A r \in Archives : Occupied(r)' => task'[r] = task[r] /\ Occupied(r)
  <2>1. CASE task' = task
    BY <1>1, <2>1 DEF TasksOK, Occupied
  <2>2. CASE task' = [r \in Archives |-> Idle]
    BY <2>2 DEF TasksOK, Occupied
  <2> QED
    BY <2>1, <2>2
<1>4. ShotsOK' /\ EntriesOK' /\ Behind' /\ StoreOK'
  BY <1>1, <1>2 DEF StructInv, ShotsOK, EntriesOK, Behind, StoreOK
<1>5. ASSUME NEW r \in Archives, Occupied(r)' PROVE WorkOK(task[r])'
  BY <1>1, <1>3, <1>5 DEF StructInv, WorkOK
<1>6. ASSUME NEW s, NEW k, Made(s, k)' PROVE Made(s, k)
  BY <1>1, <1>3, <1>6 DEF Made
<1>7. OwnInv => OwnInv'
  BY <1>1, <1>6 DEF OwnInv
<1>8. TruthInv'
  BY <1>2 DEF TruthInv, Calm
<1> QED
  BY <1>3, <1>4, <1>5, <1>7, <1>8 DEF StructInv

LEMMA Deletes ==
  ASSUME StructInv, NEW f, DeleteFile(f)
  PROVE  StructInv' /\ (OwnInv => OwnInv') /\ TruthInv'
<1>1. disk' \in Disks /\ ledger' \in Ledgers
  BY DEF DeleteFile, StructInv, StoreOK, Disks
<1> QED
  BY <1>1, Mishap DEF DeleteFile

LEMMA DiesEncoding ==
  ASSUME StructInv, KilledWhileEncoding
  PROVE  StructInv' /\ (OwnInv => OwnInv') /\ TruthInv'
<1>1. disk' \in Disks /\ ledger' \in Ledgers
  BY DEF KilledWhileEncoding, StructInv, StoreOK, Disks
<1> QED
  BY <1>1, Mishap DEF KilledWhileEncoding

LEMMA DiesCopying ==
  ASSUME StructInv, NEW dir \in Dirs, NEW n, KilledWhileCopying(dir, n)
  PROVE  StructInv' /\ (OwnInv => OwnInv') /\ TruthInv'
<1>1. n \in 0 .. Len(shots)
  BY ListingFacts DEF KilledWhileCopying, StructInv, ShotsOK
<1>0. PICK how \in Fates :
        LET fate == FailedAlike({n}, how)
            b == IF folder \in {dir, NoDir} THEN Copied(dir, shots, collEntries, fate)[n]
                 ELSE Moved(dir, shots, collEntries, fate)[n]
        IN disk' = b.disk /\ ledger' = b.ledger
  BY DEF KilledWhileCopying
<1> DEFINE fate == FailedAlike({n}, how)
<1>2. disk' \in Disks /\ ledger' \in Ledgers
  <2>1. CASE folder \in {dir, NoDir}
    <3> DEFINE b == Copied(dir, shots, collEntries, fate)[n]
    <3>1. b \in Progress /\ disk' = b.disk /\ ledger' = b.ledger
      BY <1>0, <1>1, <2>1, CopiesTyped DEF StructInv
    <3> HIDE DEF b
    <3> QED
      BY <3>1 DEF Progress
  <2>2. CASE folder \notin {dir, NoDir}
    <3> DEFINE b == Moved(dir, shots, collEntries, fate)[n]
    <3>1. b \in Progress /\ disk' = b.disk /\ ledger' = b.ledger
      BY <1>0, <1>1, <2>2, MovesTyped DEF StructInv
    <3> HIDE DEF b
    <3> QED
      BY <3>1 DEF Progress
  <2> QED
    BY <2>1, <2>2
<1> QED
  BY <1>2, Mishap DEF KilledWhileCopying
-----------------------------------------------------------------------------
LEMMA CollectionBegins == CollInit => StructInv /\ OwnInv /\ TruthInv
<1> SUFFICES ASSUME CollInit PROVE StructInv /\ OwnInv /\ TruthInv
  OBVIOUS
<1>1. /\ shots = <<>> /\ nextId = 1 /\ nextNew = 1 /\ collEntries = <<>> /\ files = <<>>
      /\ folder = NoDir /\ ledger = <<>> /\ disk = [f \in Files |-> Absent]
      /\ task = [r \in Archives |-> Idle] /\ deleted = 0 /\ failures = 0 /\ accidents = 0
  BY DEF CollInit
<1>2. /\ Len(shots) = 0 /\ shots \in Seq(Shot)
      /\ \A S : <<>> \in [{} -> S] /\ DOMAIN <<>> = {}
  BY <1>1
<1>3. ShotsOK /\ Behind
  BY <1>1, <1>2 DEF ShotsOK, Listing, Behind
<1>4. collEntries \in Filings /\ ledger \in Ledgers
  <2>1. {} \in SUBSET Ids /\ {} \in SUBSET Contents
    OBVIOUS
  <2>2. collEntries \in [{} -> Filed] /\ ledger \in [{} -> Files]
    BY <1>1, <1>2
  <2> QED
    BY <2>1, <2>2 DEF Filings, Ledgers
<1>5. DOMAIN collEntries = {} /\ DOMAIN files = {} /\ DOMAIN ledger = {}
  BY <1>1, <1>2
<1>6. EntriesOK
  BY <1>1, <1>4, <1>5 DEF EntriesOK
<1>7. StoreOK /\ TasksOK
  BY <1>1, <1>4 DEF StoreOK, TasksOK, Disks
<1>8. \A r \in Archives : ~ Occupied(r)
  BY <1>1 DEF Occupied
<1>9. OwnInv
  <2>1. \A s, k : ~ Made(s, k)
    BY <1>2, <1>5, <1>8 DEF Made
  <2> QED
    BY <2>1 DEF OwnInv
<1>10. TruthInv
  BY <1>2, <1>5, <1>8 DEF TruthInv, RestInv
<1> QED
  BY <1>3, <1>6, <1>7, <1>8, <1>9, <1>10 DEF StructInv

\* What a step keeps, call by call.
Faithful == OwnInv /\ TruthInv

LEMMA CollectionSteps ==
  ASSUME StructInv, OneCall, OneCall', [CollNext]_collVars
  PROVE  StructInv' /\ Orphaned /\ (~ MayReturn /\ Faithful => Faithful')
<1>0. ASSUME UNCHANGED collEntries PROVE Orphaned
  BY <1>0 DEF Orphaned
<1>1. ASSUME ShotsOK', Edited PROVE StructInv' /\ Orphaned /\ (~ MayReturn /\ Faithful => Faithful')
  BY <1>0, <1>1, EditsKeepStructure, EditsKeepOwners, EditsKeepTruth
  DEF Faithful, Edited, archiveState
<1>2. ShotsOK
  BY DEF StructInv
<1>3. CASE \E k \in Contents : AddShot(k)
  BY <1>1, <1>2, <1>3, Adds
<1>4. CASE \E s \in Ids : RemoveShot(s)
  BY <1>1, <1>2, <1>4, Removes
<1>5. CASE \E i \in Ids, k \in Contents : UpdateShot(i, k)
  BY <1>1, <1>2, <1>5, Updates
<1>6. ASSUME NEW r \in Archives, NEW dir \in Dirs, StartArchive(r, dir) \/ StartRelocate(r, dir)
      PROVE  StructInv' /\ Orphaned /\ (~ MayReturn /\ Faithful => Faithful')
  <2>1. UNCHANGED collEntries
    BY <1>6 DEF StartArchive, StartRelocate
  <2> QED
    BY <1>0, <1>6, <2>1, StartsArchive, StartsRelocate DEF Faithful
<1>7. ASSUME NEW r \in Archives, NEW i \in Ids, Encode(r, i) \/ EncodeFails(r, i)
      PROVE  StructInv' /\ Orphaned /\ (~ MayReturn /\ Faithful => Faithful')
  <2>1. UNCHANGED collEntries
    BY <1>7 DEF Encode, EncodeFails
  <2> QED
    BY <1>0, <1>7, <2>1, Encodes, EncodesFail DEF Faithful
<1>8. ASSUME NEW r \in Archives,
             \/ FinishArchive(r) \/ FinishRelocate(r) \/ LockedFilesStay(r)
             \/ CommitRefused(r) \/ KilledWhileFinishing(r)
      PROVE  StructInv' /\ Orphaned /\ (~ MayReturn /\ Faithful => Faithful')
  BY <1>8, CallsEnd DEF Faithful
<1>9. CASE \E f \in Files : DeleteFile(f)
  <2>1. UNCHANGED collEntries
    BY <1>9 DEF DeleteFile
  <2> QED
    BY <1>0, <1>9, <2>1, Deletes DEF Faithful
<1>10. CASE KilledWhileEncoding
  <2>1. UNCHANGED collEntries
    BY <1>10 DEF KilledWhileEncoding
  <2> QED
    BY <1>0, <1>10, <2>1, DiesEncoding DEF Faithful
<1>11. ASSUME NEW dir \in Dirs, NEW n \in Ids, KilledWhileCopying(dir, n)
       PROVE  StructInv' /\ Orphaned /\ (~ MayReturn /\ Faithful => Faithful')
  <2>1. UNCHANGED collEntries
    BY <1>11 DEF KilledWhileCopying
  <2> QED
    BY <1>0, <1>11, <2>1, DiesCopying DEF Faithful
<1>12. CASE UNCHANGED collVars
  <2>1. StructInv'
    BY <1>12 DEF collVars, StructInv, ShotsOK, EntriesOK, StoreOK, TasksOK, Behind, Occupied, WorkOK
  <2>2. OwnInv => OwnInv'
    BY <1>12 DEF collVars, OwnInv, Made, Occupied
  <2>3. TruthInv => TruthInv'
    BY <1>12 DEF collVars, TruthInv, Calm, AtRest, RestInv, UpToDate, Occupied, WorkInv, MadeReady
  <2>4. Orphaned
    BY <1>0, <1>12 DEF collVars
  <2> QED
    BY <2>1, <2>2, <2>3, <2>4 DEF Faithful
<1> QED
  BY <1>3, <1>4, <1>5, <1>6, <1>7, <1>8, <1>9, <1>10, <1>11, <1>12 DEF CollNext

LEMMA StructureTyped == StructInv => CollTypeOK
<1> SUFFICES ASSUME StructInv PROVE CollTypeOK
  OBVIOUS
<1>1. shots \in Seq([id : Ids, content : Contents])
  BY DEF StructInv, ShotsOK, Listing, Shot
<1>2. /\ DOMAIN collEntries \subseteq Ids /\ folder \in Dirs \cup {NoDir}
      /\ \A s \in DOMAIN collEntries : collEntries[s] \in [file : Files, key : Contents \cup {NoKey}]
  BY EntryFacts DEF StructInv, EntriesOK, Filed
<1>3. DOMAIN files \subseteq Nat
  BY DEF StructInv, EntriesOK
<1>4. DOMAIN ledger \subseteq Contents /\ disk \in [Files -> Contents \cup {Absent, Partial}]
  BY LedgerFacts DEF StructInv, StoreOK, Disks
<1> QED
  BY <1>1, <1>2, <1>3, <1>4 DEF CollTypeOK

\* The types, while the calls for the collection come one after the other.
LEMMA CollectionTypes == CollSpec /\ []OneCall => []CollTypeOK
<1>1. CollInit => StructInv
  BY CollectionBegins
<1>2. StructInv /\ OneCall /\ OneCall' /\ [CollNext]_collVars => StructInv'
  BY CollectionSteps
<1>3. StructInv => CollTypeOK
  BY StructureTyped
<1> QED
  BY <1>1, <1>2, <1>3, PTL DEF CollSpec

\* The prune takes no file that the new entries name, wherever it is cut, and unless a
\* deletion failed or the core was killed it leaves none in the folder that the entries
\* replaced named and the new ones do not (commit and pruneOrphans of
\* core/collectionArchive.js).
THEOREM CommitsLeaveNoOrphans == CollSpec /\ []OneCall => CommitsOrphanNothing
<1>1. CollInit => StructInv
  BY CollectionBegins
<1>2. StructInv /\ OneCall /\ OneCall' /\ [CollNext]_collVars => StructInv'
  BY CollectionSteps
<1>3. StructInv /\ OneCall /\ OneCall' /\ [CollNext]_collVars =>
        [collEntries' # collEntries =>
           /\ \A f \in FilesOf(collEntries') : disk'[f] = disk[f]
           /\ UNCHANGED <<failures, accidents>> =>
                \A f \in FilesOf(collEntries) \ FilesOf(collEntries') :
                  f[1] = folder' => disk'[f] = Absent]_collVars
  BY CollectionSteps DEF Orphaned
<1> QED
  BY <1>1, <1>2, <1>3, PTL DEF CollSpec, CommitsOrphanNothing

\* The entries that are up to date name files that hold their shots, however
\* the removals shift the numbers and the copies follow (archive and relocate of
\* core/collectionArchive.js), while no content comes back.
THEOREM EntriesStayFaithful ==
  ASSUME ~ MayReturn PROVE CollSpec /\ []OneCall => []EntriesAreFaithful
<1> DEFINE Inv == StructInv /\ Faithful
<1>1. CollInit => Inv
  BY CollectionBegins DEF Faithful
<1>2. Inv /\ OneCall /\ OneCall' /\ [CollNext]_collVars => Inv'
  BY CollectionSteps
<1>3. Inv => EntriesAreFaithful
  <2> SUFFICES ASSUME Inv, AtRest, accidents = 0, deleted = 0, NEW i \in 1 .. Len(shots),
                      shots[i].id \in DOMAIN collEntries,
                      collEntries[shots[i].id].key = shots[i].content
               PROVE  disk[collEntries[shots[i].id].file] = shots[i].content
    BY ListingFacts DEF EntriesAreFaithful, StructInv, ShotsOK
  <2> QED
    BY DEF Faithful, TruthInv, Calm, RestInv, UpToDate
<1> HIDE DEF Inv
<1> QED
  BY <1>1, <1>2, <1>3, PTL DEF CollSpec
-----------------------------------------------------------------------------
\* Rounding moves a time by half a unit at most, onto a multiple of the unit.
LEMMA RoundedIsNear ==
  ASSUME NEW v \in Int, NEW unit \in Nat \ {0}
  PROVE  \E q \in Int : /\ Nearest(v, unit) = q * unit
                        /\ q * unit \in Int
                        /\ - unit <= 2 * v - 2 * (q * unit)
                        /\ 2 * v - 2 * (q * unit) < unit
<1> DEFINE q == (2 * v + unit) \div (2 * unit)
           r == (2 * v + unit) % (2 * unit)
           u == 2 * unit
           w == 2 * v + unit
<1>1. u \in Nat \ {0} /\ w \in Int
  OBVIOUS
<1>2. /\ w \div u \in Int /\ w % u \in Int
      /\ 0 <= w % u /\ w % u < u
      /\ w = u * (w \div u) + (w % u)
  <2> HIDE DEF u, w
  <2> QED  BY <1>1
<1>3. q \in Int /\ r \in Int /\ 0 <= r /\ r < 2 * unit /\ 2 * v + unit = (2 * unit) * q + r
  <2>1. q = w \div u /\ r = w % u /\ w = 2 * v + unit /\ u = 2 * unit
    OBVIOUS
  <2> HIDE DEF q, r, u, w
  <2>2. w = u * q + r
    BY <1>2, <2>1
  <2> QED  BY <1>2, <2>1, <2>2
<1> HIDE DEF q, r, u, w
<1>4. (2 * unit) * q = 2 * (q * unit) /\ q * unit \in Int
  BY <1>3
<1>5. Nearest(v, unit) = q * unit
  BY DEF Nearest, q
<1>6. - unit <= 2 * v - 2 * (q * unit) /\ 2 * v - 2 * (q * unit) < unit
  <2> DEFINE p == q * unit
  <2>1. p \in Int /\ 2 * v + unit = 2 * p + r
    BY <1>3, <1>4
  <2> HIDE DEF p
  <2>2. - unit <= 2 * v - 2 * p /\ 2 * v - 2 * p < unit
    BY <2>1, <1>3
  <2> QED  BY <2>2 DEF p
<1> QED  BY <1>3, <1>4, <1>5, <1>6

\* Multiples of a unit lie a unit apart.
LEMMA MultiplesLieApart ==
  ASSUME NEW unit \in Nat \ {0}, NEW p \in Int, NEW q \in Int, p < q
  PROVE  p * unit \in Int /\ q * unit \in Int /\ p * unit + unit <= q * unit
<1> DEFINE d == q - p - 1
<1>1. d \in Nat /\ q = p + 1 + d
  OBVIOUS
<1> HIDE DEF d
<1>2. (p + 1 + d) * unit = p * unit + unit + d * unit
  BY <1>1
<1>3. d * unit \in Nat
  BY <1>1
<1> QED  BY <1>1, <1>2, <1>3

\* What lies within half a unit of a multiple is rounded to it.
LEMMA RoundedIs ==
  ASSUME NEW v \in Int, NEW unit \in Nat \ {0}, NEW q \in Int,
         - unit <= 2 * v - 2 * (q * unit), 2 * v - 2 * (q * unit) < unit
  PROVE  Nearest(v, unit) = q * unit
<1>1. PICK p \in Int : /\ Nearest(v, unit) = p * unit
                       /\ p * unit \in Int
                       /\ - unit <= 2 * v - 2 * (p * unit)
                       /\ 2 * v - 2 * (p * unit) < unit
  BY RoundedIsNear
<1>2. q * unit \in Int
  OBVIOUS
<1>3. ~ p < q
  <2> SUFFICES ASSUME p < q PROVE FALSE  OBVIOUS
  <2>1. p * unit + unit <= q * unit
    BY MultiplesLieApart
  <2> DEFINE a == p * unit
             b == q * unit
  <2> HIDE DEF a, b
  <2>2. a \in Int /\ b \in Int /\ a + unit <= b /\ 2 * v - 2 * a < unit /\ - unit <= 2 * v - 2 * b
    BY <1>1, <1>2, <2>1 DEF a, b
  <2> QED  BY <2>2
<1>4. ~ q < p
  <2> SUFFICES ASSUME q < p PROVE FALSE  OBVIOUS
  <2>1. q * unit + unit <= p * unit
    BY MultiplesLieApart
  <2> DEFINE a == p * unit
             b == q * unit
  <2> HIDE DEF a, b
  <2>2. a \in Int /\ b \in Int /\ b + unit <= a /\ 2 * v - 2 * b < unit /\ - unit <= 2 * v - 2 * a
    BY <1>1, <1>2, <2>1 DEF a, b
  <2> QED  BY <2>2
<1>5. p = q
  BY <1>3, <1>4
<1> QED  BY <1>1, <1>5

\* Rounding keeps the order.
LEMMA RoundingKeepsOrder ==
  ASSUME NEW v \in Int, NEW w \in Int, v <= w, NEW unit \in Nat \ {0}
  PROVE  Nearest(v, unit) \in Int /\ Nearest(w, unit) \in Int /\ Nearest(v, unit) <= Nearest(w, unit)
<1>1. PICK p \in Int : /\ Nearest(v, unit) = p * unit
                       /\ p * unit \in Int
                       /\ - unit <= 2 * v - 2 * (p * unit)
                       /\ 2 * v - 2 * (p * unit) < unit
  BY RoundedIsNear
<1>2. PICK q \in Int : /\ Nearest(w, unit) = q * unit
                       /\ q * unit \in Int
                       /\ - unit <= 2 * w - 2 * (q * unit)
                       /\ 2 * w - 2 * (q * unit) < unit
  BY RoundedIsNear
<1> DEFINE a == p * unit
           b == q * unit
<1>3. CASE q < p
  <2>1. q * unit + unit <= p * unit
    BY <1>3, MultiplesLieApart
  <2> HIDE DEF a, b
  <2>2. a \in Int /\ b \in Int /\ b + unit <= a /\ - unit <= 2 * v - 2 * a /\ 2 * w - 2 * b < unit
    BY <1>1, <1>2, <2>1 DEF a, b
  <2>3. FALSE
    BY <2>2
  <2> QED  BY <2>3
<1>4. CASE q = p
  BY <1>1, <1>2, <1>4
<1>5. CASE p < q
  <2>1. p * unit + unit <= q * unit
    BY <1>5, MultiplesLieApart
  <2> HIDE DEF a, b
  <2>2. a \in Int /\ b \in Int /\ a + unit <= b
    BY <1>1, <1>2, <2>1 DEF a, b
  <2>3. a <= b
    BY <2>2
  <2> QED  BY <1>1, <1>2, <2>3 DEF a, b
<1> QED  BY <1>3, <1>4, <1>5
-----------------------------------------------------------------------------
\* A key that tells the members of P apart.
Tells(P, key) ==
  /\ \A i \in P : key[i] \in Int
  /\ \A i, j \in P : key[i] = key[j] => i = j

\* How many members have a smaller key tells the members apart, by their keys.
LEMMA BelowGrows ==
  ASSUME NEW P, IsFiniteSet(P), NEW key, Tells(P, key)
  PROVE  /\ \A i \in P : /\ IsFiniteSet(Below(i, P, key))
                         /\ Cardinality(Below(i, P, key)) \in 0 .. Cardinality(P) - 1
         /\ \A i, j \in P : key[i] < key[j] =>
              Cardinality(Below(i, P, key)) < Cardinality(Below(j, P, key))
<1>0. Cardinality(P) \in Nat
  BY FS_CardinalityType
<1>1. ASSUME NEW i \in P
      PROVE  /\ IsFiniteSet(Below(i, P, key)) /\ Cardinality(Below(i, P, key)) \in Nat
             /\ IsFiniteSet(Below(i, P, key) \cup {i})
             /\ Cardinality(Below(i, P, key) \cup {i}) = Cardinality(Below(i, P, key)) + 1
             /\ Below(i, P, key) \cup {i} \in SUBSET P
  <2>1. Below(i, P, key) \in SUBSET P
    BY DEF Below
  <2>2. IsFiniteSet(Below(i, P, key))
    BY <2>1, FS_Subset
  <2>3. i \notin Below(i, P, key)
    <3>1. key[i] \in Int
      BY DEF Tells
    <3> QED  BY <3>1 DEF Below
  <2> QED  BY <2>1, <2>2, <2>3, FS_AddElement, FS_CardinalityType
<1>2. ASSUME NEW i \in P
      PROVE  Cardinality(Below(i, P, key)) \in 0 .. Cardinality(P) - 1
  <2>1. Cardinality(Below(i, P, key) \cup {i}) <= Cardinality(P)
    BY <1>1, FS_Subset
  <2> DEFINE b == Cardinality(Below(i, P, key))
  <2>2. b \in Nat /\ b + 1 <= Cardinality(P)
    BY <2>1, <1>1
  <2> HIDE DEF b
  <2>3. b \in 0 .. Cardinality(P) - 1
    BY <2>2, <1>0
  <2> QED  BY <2>3 DEF b
<1>3. ASSUME NEW i \in P, NEW j \in P, key[i] < key[j]
      PROVE  Cardinality(Below(i, P, key)) < Cardinality(Below(j, P, key))
  <2>1. Below(i, P, key) \cup {i} \in SUBSET Below(j, P, key)
    <3>1. \A l \in P : key[l] \in Int
      BY DEF Tells
    <3>2. \A l \in P : key[l] < key[i] => key[l] < key[j]
      BY <3>1, <1>3
    <3> QED  BY <3>2, <1>3 DEF Below
  <2>2. Cardinality(Below(i, P, key) \cup {i}) <= Cardinality(Below(j, P, key))
    BY <2>1, <1>1, FS_Subset
  <2> DEFINE b == Cardinality(Below(i, P, key))
             c == Cardinality(Below(j, P, key))
  <2>3. b \in Nat /\ c \in Nat /\ b + 1 <= c
    BY <2>2, <1>1
  <2> HIDE DEF b, c
  <2>4. b < c
    BY <2>3
  <2> QED  BY <2>4 DEF b, c
<1> QED  BY <1>1, <1>2, <1>3

\* Sorting: all members of P, by rising key, each after those with a smaller key.
LEMMA InOrderRanks ==
  ASSUME NEW P, IsFiniteSet(P), NEW key, Tells(P, key)
  PROVE  /\ Cardinality(P) \in Nat
         /\ InOrder(P, key) \in [1 .. Cardinality(P) -> P]
         /\ \A k, l \in 1 .. Cardinality(P) : k < l => key[InOrder(P, key)[k]] < key[InOrder(P, key)[l]]
         /\ \A i \in P : \E k \in 1 .. Cardinality(P) : InOrder(P, key)[k] = i
         /\ \A k \in 1 .. Cardinality(P) : Cardinality(Below(InOrder(P, key)[k], P, key)) = k - 1
<1> DEFINE n == Cardinality(P)
           rank == [i \in P |-> Cardinality(Below(i, P, key))]
           s == InOrder(P, key)
<1>0. n \in Nat
  BY FS_CardinalityType
<1>1. rank \in [P -> 0 .. n - 1]
  BY BelowGrows
<1>2. \A i, j \in P : key[i] < key[j] => rank[i] < rank[j]
  BY BelowGrows
<1>3. \A i, j \in P : rank[i] = rank[j] => i = j
  <2> SUFFICES ASSUME NEW i \in P, NEW j \in P, rank[i] = rank[j] PROVE i = j  OBVIOUS
  <2>1. key[i] \in Int /\ key[j] \in Int
    BY DEF Tells
  <2>2. rank[i] \in Int /\ rank[j] \in Int
    BY <1>1
  <2> HIDE DEF rank
  <2>3. ~ key[i] < key[j] /\ ~ key[j] < key[i]
    BY <1>2, <2>2
  <2>4. key[i] = key[j]
    BY <2>1, <2>3
  <2> QED  BY <2>4 DEF Tells
<1>4. \A k \in 0 .. n - 1 : \E i \in P : rank[i] = k
  <2>1. rank \in Injection(P, 0 .. n - 1)
    BY <1>1, <1>3 DEF Injection, IsInjective
  <2>2. IsFiniteSet(0 .. n - 1) /\ Cardinality(0 .. n - 1) = n
    BY <1>0, FS_Interval
  <2> HIDE DEF rank
  <2>3. rank \in Surjection(P, 0 .. n - 1)
    BY <2>1, <2>2, FS_Injection
  <2> QED  BY <2>3 DEF Surjection
<1>5. ASSUME NEW k \in 1 .. n
      PROVE  s[k] \in P /\ rank[s[k]] = k - 1
  <2>1. k - 1 \in 0 .. n - 1
    BY <1>0
  <2>2. \E i \in P : rank[i] = k - 1
    BY <2>1, <1>4
  <2>3. \E i \in P : Cardinality(Below(i, P, key)) = k - 1
    BY <2>2
  <2>4. s[k] = CHOOSE i \in P : Cardinality(Below(i, P, key)) = k - 1
    BY DEF InOrder
  <2> QED  BY <2>3, <2>4
<1>6. s \in [1 .. n -> P]
  BY <1>5 DEF InOrder
<1>7. ASSUME NEW k \in 1 .. n, NEW l \in 1 .. n, k < l
      PROVE  key[s[k]] < key[s[l]]
  <2>1. s[k] \in P /\ s[l] \in P /\ rank[s[k]] = k - 1 /\ rank[s[l]] = l - 1
    BY <1>5
  <2> HIDE DEF s, rank
  <2>2. key[s[k]] \in Int /\ key[s[l]] \in Int
    BY <2>1 DEF Tells
  <2>3. ~ key[s[l]] < key[s[k]]
    BY <2>1, <1>2, <1>7, <1>0
  <2>4. key[s[l]] # key[s[k]]
    <3>1. SUFFICES ASSUME s[l] = s[k] PROVE FALSE
      BY <2>1 DEF Tells
    <3> QED  BY <3>1, <2>1, <1>7, <1>0
  <2> QED  BY <2>2, <2>3, <2>4
<1>8. ASSUME NEW i \in P
      PROVE  \E k \in 1 .. n : s[k] = i
  <2>1. rank[i] \in 0 .. n - 1
    BY <1>1
  <2> HIDE DEF s, rank
  <2>2. rank[i] + 1 \in 1 .. n /\ (rank[i] + 1) - 1 = rank[i]
    BY <2>1, <1>0
  <2>3. s[rank[i] + 1] \in P /\ rank[s[rank[i] + 1]] = rank[i]
    BY <2>2, <1>5
  <2>4. s[rank[i] + 1] = i
    BY <2>3, <1>3
  <2> QED  BY <2>2, <2>4
<1>9. \A k \in 1 .. n : Cardinality(Below(s[k], P, key)) = k - 1
  BY <1>5
<1> QED  BY <1>0, <1>6, <1>7, <1>8, <1>9

LEMMA InOrderSorts ==
  ASSUME NEW P, IsFiniteSet(P), NEW key, Tells(P, key)
  PROVE  /\ Cardinality(P) \in Nat
         /\ InOrder(P, key) \in [1 .. Cardinality(P) -> P]
         /\ \A k, l \in 1 .. Cardinality(P) : k < l => key[InOrder(P, key)[k]] < key[InOrder(P, key)[l]]
         /\ \A i \in P : \E k \in 1 .. Cardinality(P) : InOrder(P, key)[k] = i
BY InOrderRanks

\* f rises through all of P.
RisesThrough(f, n, P, key) ==
  /\ n \in Nat /\ f \in [1 .. n -> P]
  /\ \A k, l \in 1 .. n : k < l => key[f[k]] < key[f[l]]
  /\ \A i \in P : \E k \in 1 .. n : f[k] = i

\* What rises through all of P is P in order.
LEMMA InOrderIs ==
  ASSUME NEW P, NEW key, NEW n, NEW f, Tells(P, key), RisesThrough(f, n, P, key)
  PROVE  IsFiniteSet(P) /\ Cardinality(P) = n /\ InOrder(P, key) = f
<1> USE DEF RisesThrough
<1>a. n \in Nat /\ f \in [1 .. n -> P]
  OBVIOUS
<1>b. \A k, l \in 1 .. n : k < l => key[f[k]] < key[f[l]]
  OBVIOUS
<1>c. \A i \in P : \E k \in 1 .. n : f[k] = i
  OBVIOUS
<1> HIDE DEF RisesThrough
<1> USE <1>a, <1>b, <1>c
<1>0. \A k \in 1 .. n : f[k] \in P /\ key[f[k]] \in Int
  BY DEF Tells
<1>1. \A k, l \in 1 .. n : key[f[l]] < key[f[k]] <=> l < k
  BY <1>0
<1>2. \A k, l \in 1 .. n : f[k] = f[l] => k = l
  BY <1>0
<1>3. IsFiniteSet(P) /\ Cardinality(P) = n
  <2>1. f \in Surjection(1 .. n, P)
    BY DEF Surjection
  <2>2. f \in Injection(1 .. n, P)
    BY <1>2 DEF Injection, IsInjective
  <2>3. IsFiniteSet(1 .. n) /\ Cardinality(1 .. n) = n
    BY FS_Interval
  <2>4. IsFiniteSet(P) /\ Cardinality(P) = Cardinality(1 .. n)
    BY <2>1, <2>2, <2>3, FS_Surjection
  <2> QED  BY <2>3, <2>4
<1>4. ASSUME NEW k \in 1 .. n
      PROVE  Cardinality(Below(f[k], P, key)) = k - 1
  <2> DEFINE B == Below(f[k], P, key)
             g == [l \in 1 .. k - 1 |-> f[l]]
  <2>1. \A l \in 1 .. k - 1 : l \in 1 .. n /\ l < k
    OBVIOUS
  <2>2. g \in [1 .. k - 1 -> B]
    BY <2>1, <1>0, <1>1 DEF Below
  <2>3. \A i \in B : \E l \in 1 .. k - 1 : g[l] = i
    <3> SUFFICES ASSUME NEW i \in B PROVE \E l \in 1 .. k - 1 : g[l] = i  OBVIOUS
    <3>1. i \in P /\ key[i] < key[f[k]]
      BY DEF Below
    <3>2. PICK l \in 1 .. n : f[l] = i
      BY <3>1
    <3>3. l < k
      BY <3>1, <3>2, <1>1
    <3>4. l \in 1 .. k - 1
      BY <3>3
    <3> QED  BY <3>2, <3>4
  <2>4. \A l, j \in 1 .. k - 1 : g[l] = g[j] => l = j
    BY <2>1, <1>2
  <2> HIDE DEF g, B
  <2>5. g \in Surjection(1 .. k - 1, B) /\ g \in Injection(1 .. k - 1, B)
    BY <2>2, <2>3, <2>4 DEF Surjection, Injection, IsInjective
  <2>6. IsFiniteSet(1 .. k - 1) /\ Cardinality(1 .. k - 1) = k - 1
    BY FS_Interval
  <2>7. Cardinality(B) = Cardinality(1 .. k - 1)
    BY <2>5, <2>6, FS_Surjection
  <2> QED  BY <2>6, <2>7 DEF B
<1>5. ASSUME NEW k \in 1 .. n
      PROVE  InOrder(P, key)[k] = f[k]
  <2>1. InOrder(P, key)[k] = CHOOSE i \in P : Cardinality(Below(i, P, key)) = k - 1
    BY <1>3 DEF InOrder
  <2>2. f[k] \in P /\ Cardinality(Below(f[k], P, key)) = k - 1
    BY <1>0, <1>4
  <2>3. ASSUME NEW i \in P, Cardinality(Below(i, P, key)) = k - 1
        PROVE  i = f[k]
    <3>1. PICK l \in 1 .. n : f[l] = i
      OBVIOUS
    <3>2. l - 1 = k - 1
      BY <3>1, <1>4, <2>3
    <3>3. l = k
      BY <3>2
    <3> QED  BY <3>1, <3>3
  <2> DEFINE c == CHOOSE i \in P : Cardinality(Below(i, P, key)) = k - 1
  <2>4. c \in P /\ Cardinality(Below(c, P, key)) = k - 1
    BY <2>2
  <2> HIDE DEF c
  <2>5. c = f[k]
    BY <2>3, <2>4
  <2> QED  BY <2>1, <2>5 DEF c
<1>6. InOrder(P, key) = [k \in 1 .. n |-> InOrder(P, key)[k]]
  BY <1>3 DEF InOrder
<1>7. InOrder(P, key) = f
  BY <1>5, <1>6
<1> QED  BY <1>3, <1>7
-----------------------------------------------------------------------------
\* A quotient, rounded down.
LEMMA DivisionBounds ==
  ASSUME NEW x \in Int, NEW d \in Nat \ {0}
  PROVE  /\ x \div d \in Int /\ (x \div d) * d \in Int
         /\ (x \div d) * d <= x /\ x < (x \div d) * d + d
<1>1. /\ x \div d \in Int /\ x % d \in Int /\ 0 <= x % d /\ x % d < d
      /\ x = d * (x \div d) + (x % d)
  OBVIOUS
<1> DEFINE q == x \div d
           r == x % d
<1> HIDE DEF q, r
<1>2. q \in Int /\ r \in Int /\ 0 <= r /\ r < d /\ x = d * q + r
  BY <1>1 DEF q, r
<1>3. d * q = q * d /\ q * d \in Int
  BY <1>2
<1>4. q * d <= x /\ x < q * d + d
  <2> DEFINE p == q * d
  <2>1. p \in Int /\ x = p + r
    BY <1>2, <1>3
  <2> HIDE DEF p
  <2>2. p <= x /\ x < p + d
    BY <2>1, <1>2
  <2> QED  BY <2>2 DEF p
<1> QED  BY <1>2, <1>3, <1>4 DEF q

\* A member that is below all is the least.
LEMMA LeastIs ==
  ASSUME NEW S \in SUBSET Int, NEW x \in S, \A y \in S : x <= y
  PROVE  Least(S) = x
<1> DEFINE c == CHOOSE z \in S : \A y \in S : z <= y
<1>1. c \in S /\ \A y \in S : c <= y
  OBVIOUS
<1> HIDE DEF c
<1>2. c \in Int /\ x \in Int /\ c <= x /\ x <= c
  BY <1>1
<1>3. c = x
  BY <1>2
<1> QED  BY <1>3 DEF Least, c

\* Whole numbers in order.
LEMMA AscendingSorts ==
  ASSUME NEW S \in SUBSET Int, IsFiniteSet(S)
  PROVE  /\ Cardinality(S) \in Nat
         /\ Ascending(S) \in [1 .. Cardinality(S) -> S]
         /\ \A k, l \in 1 .. Cardinality(S) : k < l => Ascending(S)[k] < Ascending(S)[l]
         /\ \A x \in S : \E k \in 1 .. Cardinality(S) : Ascending(S)[k] = x
<1> DEFINE key == [x \in S |-> x]
           s == InOrder(S, key)
<1>1. Tells(S, key)
  BY DEF Tells
<1>2. \A x \in S : key[x] = x
  OBVIOUS
<1> HIDE DEF key
<1>3. /\ Cardinality(S) \in Nat
      /\ s \in [1 .. Cardinality(S) -> S]
      /\ \A k, l \in 1 .. Cardinality(S) : k < l => key[s[k]] < key[s[l]]
      /\ \A x \in S : \E k \in 1 .. Cardinality(S) : s[k] = x
  BY <1>1, InOrderSorts
<1>4. Ascending(S) = s
  BY DEF Ascending, key
<1> HIDE DEF s
<1>5. \A k \in 1 .. Cardinality(S) : key[s[k]] = s[k]
  BY <1>2, <1>3
<1> QED  BY <1>3, <1>4, <1>5

\* A finite set of whole numbers has a greatest.
LEMMA GreatestIsThere ==
  ASSUME NEW S \in SUBSET Int, IsFiniteSet(S), S # {}
  PROVE  Greatest(S) \in S /\ \A y \in S : y <= Greatest(S)
<1> DEFINE n == Cardinality(S)
           s == Ascending(S)
<1>1. /\ n \in Nat /\ s \in [1 .. n -> S]
      /\ \A k, l \in 1 .. n : k < l => s[k] < s[l]
      /\ \A x \in S : \E k \in 1 .. n : s[k] = x
  BY AscendingSorts
<1> HIDE DEF n, s
<1>2. n \in 1 .. n
  <2>1. PICK x \in S : TRUE
    OBVIOUS
  <2>2. PICK k \in 1 .. n : s[k] = x
    BY <1>1
  <2> QED  BY <2>2, <1>1
<1>3. ASSUME NEW y \in S
      PROVE  s[n] >= y
  <2>1. PICK k \in 1 .. n : s[k] = y
    BY <1>1
  <2>2. s[k] \in Int /\ s[n] \in Int
    BY <1>1, <1>2
  <2>3. k = n \/ s[k] < s[n]
    BY <1>1, <1>2
  <2> QED  BY <2>1, <2>2, <2>3
<1>4. s[n] \in S
  BY <1>1, <1>2
<1>5. Greatest(S) \in S /\ \A y \in S : Greatest(S) >= y
  BY <1>3, <1>4 DEF Greatest
<1> QED  BY <1>5
-----------------------------------------------------------------------------
\* No two pictures have one time, and one of them is the first that is shown.
Timed(m) ==
  /\ \E n \in Nat : m.pts \in [1 .. n -> Int]
  /\ IsInjective(m.pts) /\ m.mediaTime \in Times(m)

\* The pictures that are visible, in the order of their times.
InView(m) == InOrder(Visible(m), m.pts)

\* The pictures of a file are numbered, and have as many times.
LEMMA TimedPictures ==
  ASSUME NEW m, Timed(m)
  PROVE  /\ IsFiniteSet(Pictures(m)) /\ Cardinality(Pictures(m)) \in Nat
         /\ Pictures(m) = 1 .. Cardinality(Pictures(m))
         /\ m.pts \in [Pictures(m) -> Int]
         /\ \A i, j \in Pictures(m) : m.pts[i] = m.pts[j] => i = j
         /\ Visible(m) \in SUBSET Pictures(m) /\ IsFiniteSet(Visible(m))
         /\ Cardinality(Visible(m)) \in Nat
         /\ m.mediaTime \in Int
         /\ IsFiniteSet(Times(m)) /\ Times(m) \in SUBSET Int
         /\ Cardinality(Times(m)) = Cardinality(Pictures(m))
<1>1. PICK n \in Nat : m.pts \in [1 .. n -> Int]
  BY DEF Timed
<1>2. Pictures(m) = 1 .. n
  BY <1>1 DEF Pictures
<1>3. IsFiniteSet(Pictures(m)) /\ Cardinality(Pictures(m)) = n
  BY <1>2, FS_Interval
<1>4. \A i, j \in Pictures(m) : m.pts[i] = m.pts[j] => i = j
  BY DEF Timed, IsInjective, Pictures
<1>5. Visible(m) \in SUBSET Pictures(m)
  BY DEF Visible
<1>6. IsFiniteSet(Visible(m)) /\ Cardinality(Visible(m)) \in Nat
  BY <1>3, <1>5, FS_Subset, FS_CardinalityType
<1>7. Times(m) \in SUBSET Int
  BY <1>1, <1>2 DEF Times
<1>8. m.mediaTime \in Int
  BY <1>7 DEF Timed
<1>9. IsFiniteSet(Times(m)) /\ Cardinality(Times(m)) = Cardinality(Pictures(m))
  <2>1. m.pts \in [Pictures(m) -> Times(m)]
    BY <1>1, <1>2 DEF Times
  <2>2. \A t \in Times(m) : \E i \in Pictures(m) : m.pts[i] = t
    BY DEF Times
  <2>3. m.pts \in Surjection(Pictures(m), Times(m)) /\ m.pts \in Injection(Pictures(m), Times(m))
    BY <2>1, <2>2 DEF Surjection, Injection, Timed
  <2> QED  BY <2>3, <1>3, FS_Surjection
<1> QED  BY <1>1, <1>2, <1>3, <1>4, <1>5, <1>6, <1>7, <1>8, <1>9

\* The view lists the visible pictures by rising time, from the one the span begins with.
LEMMA ViewInOrder ==
  ASSUME NEW m, Timed(m), NEW n, n = Cardinality(Visible(m)), NEW s, s = InView(m)
  PROVE  /\ n \in Nat \ {0} /\ 1 \in 1 .. n /\ n \in 1 .. n
         /\ s \in [1 .. n -> Visible(m)]
         /\ \A k \in 1 .. n : s[k] \in Pictures(m) /\ m.pts[s[k]] \in Int /\ m.mediaTime <= m.pts[s[k]]
         /\ \A k, l \in 1 .. n : k < l => m.pts[s[k]] < m.pts[s[l]]
         /\ \A k, l \in 1 .. n : k <= l => m.pts[s[k]] <= m.pts[s[l]]
         /\ \A i \in Visible(m) : \E k \in 1 .. n : s[k] = i
         /\ m.pts[s[1]] = m.mediaTime
<1>1. /\ IsFiniteSet(Visible(m)) /\ m.mediaTime \in Int /\ Visible(m) \in SUBSET Pictures(m)
      /\ m.pts \in [Pictures(m) -> Int]
      /\ \A i, j \in Pictures(m) : m.pts[i] = m.pts[j] => i = j
  BY TimedPictures
<1>2. Tells(Visible(m), m.pts)
  BY <1>1 DEF Tells
<1>3. /\ n \in Nat /\ s \in [1 .. n -> Visible(m)]
      /\ \A k, l \in 1 .. n : k < l => m.pts[s[k]] < m.pts[s[l]]
      /\ \A i \in Visible(m) : \E k \in 1 .. n : s[k] = i
  BY <1>1, <1>2, InOrderSorts DEF InView
<1>4. PICK i \in Visible(m) : m.pts[i] = m.mediaTime
  <2>1. PICK i \in Pictures(m) : m.pts[i] = m.mediaTime
    BY DEF Timed, Times
  <2> QED  BY <2>1, <1>1 DEF Visible
<1>5. PICK k \in 1 .. n : s[k] = i
  BY <1>3
<1>6. n \in Nat \ {0} /\ 1 \in 1 .. n /\ n \in 1 .. n
  BY <1>3, <1>5
<1>7. \A l \in 1 .. n : s[l] \in Visible(m)
  BY <1>3
<1>8. \A l \in 1 .. n : s[l] \in Pictures(m) /\ m.pts[s[l]] \in Int /\ m.mediaTime <= m.pts[s[l]]
  BY <1>1, <1>7 DEF Visible
<1>9. \A l, j \in 1 .. n : l <= j => m.pts[s[l]] <= m.pts[s[j]]
  <2> SUFFICES ASSUME NEW l \in 1 .. n, NEW j \in 1 .. n, l <= j
               PROVE  m.pts[s[l]] <= m.pts[s[j]]
    OBVIOUS
  <2>1. l = j \/ l < j
    OBVIOUS
  <2>2. m.pts[s[l]] \in Int /\ m.pts[s[j]] \in Int
    BY <1>8
  <2>3. CASE l = j
    BY <2>2, <2>3
  <2>4. CASE l < j
    BY <2>2, <2>4, <1>3
  <2> QED  BY <2>1, <2>3, <2>4
<1>10. m.pts[s[1]] = m.mediaTime
  <2>1. m.pts[s[1]] <= m.pts[s[k]]
    BY <1>6, <1>9
  <2>2. m.pts[s[1]] \in Int /\ m.mediaTime <= m.pts[s[1]]
    BY <1>6, <1>8
  <2> QED  BY <2>1, <2>2, <1>4, <1>5, <1>1
<1> QED  BY <1>3, <1>6, <1>8, <1>9, <1>10

\* The sorted times of a file end with those of its visible pictures.
LEMMA TimesEndWithTheView ==
  ASSUME NEW m, Timed(m), NEW n, n = Cardinality(Visible(m)), NEW s, s = InView(m),
         NEW last, last = Cardinality(Pictures(m)), NEW sorted, sorted = Ascending(Times(m)),
         NEW first, first = Least({k \in DOMAIN sorted : sorted[k] >= m.mediaTime})
  PROVE  /\ last \in Nat /\ DOMAIN sorted = 1 .. last /\ Len(sorted) = last
         /\ first \in 1 .. last /\ first + n - 1 = last
         /\ \A k \in 1 .. n : first + k - 1 \in 1 .. last /\ sorted[first + k - 1] = m.pts[s[k]]
<1>1. /\ last \in Nat /\ m.pts \in [Pictures(m) -> Int] /\ m.mediaTime \in Int
      /\ \A i, j \in Pictures(m) : m.pts[i] = m.pts[j] => i = j
      /\ IsFiniteSet(Times(m)) /\ Times(m) \in SUBSET Int
      /\ Cardinality(Times(m)) = last /\ Visible(m) \in SUBSET Pictures(m)
  BY TimedPictures
<1>2. /\ sorted \in [1 .. last -> Times(m)]
      /\ \A k, l \in 1 .. last : k < l => sorted[k] < sorted[l]
      /\ \A x \in Times(m) : \E k \in 1 .. last : sorted[k] = x
  BY <1>1, AscendingSorts
<1>3. /\ DOMAIN sorted = 1 .. last /\ Len(sorted) = last
      /\ \A k \in 1 .. last : sorted[k] \in Int /\ sorted[k] \in Times(m)
  <2>1. sorted \in Seq(Times(m))
    BY <1>1, <1>2, SeqDef
  <2>2. DOMAIN sorted = 1 .. last
    BY <1>2
  <2>3. Len(sorted) = last
    BY <2>1, <2>2, <1>1, LenProperties
  <2> QED  BY <2>2, <2>3, <1>1, <1>2
<1>4. PICK f \in 1 .. last : sorted[f] = m.mediaTime
  BY <1>2 DEF Timed
<1>5. \A k \in 1 .. last : sorted[k] >= m.mediaTime <=> f <= k
  <2> SUFFICES ASSUME NEW k \in 1 .. last PROVE sorted[k] >= m.mediaTime <=> f <= k  OBVIOUS
  <2>1. sorted[k] \in Int /\ sorted[f] \in Int
    BY <1>3
  <2>2. CASE k < f
    BY <2>1, <2>2, <1>2, <1>4
  <2>3. CASE k = f
    BY <2>1, <2>3, <1>4
  <2>4. CASE f < k
    BY <2>1, <2>4, <1>2, <1>4
  <2> QED  BY <2>2, <2>3, <2>4
<1>6. first = f
  <2> DEFINE K == {k \in DOMAIN sorted : sorted[k] >= m.mediaTime}
  <2>1. K \in SUBSET Int /\ f \in K /\ \A k \in K : f <= k
    BY <1>3, <1>5
  <2> HIDE DEF K
  <2>2. Least(K) = f
    BY <2>1, LeastIs
  <2> QED  BY <2>2 DEF K
<1>7. \A k \in 1 .. last : \E i \in Pictures(m) : m.pts[i] = sorted[k]
  BY <1>3 DEF Times
<1> DEFINE width == last - f + 1
           pic(k) == CHOOSE i \in Pictures(m) : m.pts[i] = sorted[k]
           g == [k \in 1 .. width |-> pic(f + k - 1)]
<1>8. \A k \in 1 .. last : pic(k) \in Pictures(m) /\ m.pts[pic(k)] = sorted[k]
  BY <1>7
<1> HIDE DEF pic
<1>9. width \in Nat /\ \A k \in 1 .. width : f + k - 1 \in 1 .. last /\ f <= f + k - 1
  BY <1>1
<1>10. \A k \in 1 .. width :
         g[k] \in Visible(m) /\ m.pts[g[k]] = sorted[f + k - 1]
  <2> SUFFICES ASSUME NEW k \in 1 .. width
               PROVE  g[k] \in Visible(m) /\ m.pts[g[k]] = sorted[f + k - 1]
    OBVIOUS
  <2>1. g[k] = pic(f + k - 1) /\ f + k - 1 \in 1 .. last /\ f <= f + k - 1
    BY <1>9
  <2>2. g[k] \in Pictures(m) /\ m.pts[g[k]] = sorted[f + k - 1] /\ sorted[f + k - 1] >= m.mediaTime
    BY <2>1, <1>8, <1>5
  <2> QED  BY <2>2 DEF Visible
<1>11. g \in [1 .. width -> Visible(m)]
  BY <1>10
<1>12. \A k, l \in 1 .. width : k < l => m.pts[g[k]] < m.pts[g[l]]
  <2> SUFFICES ASSUME NEW k \in 1 .. width, NEW l \in 1 .. width, k < l
               PROVE  m.pts[g[k]] < m.pts[g[l]]
    OBVIOUS
  <2>1. f + k - 1 \in 1 .. last /\ f + l - 1 \in 1 .. last /\ f + k - 1 < f + l - 1
    BY <1>9
  <2>2. sorted[f + k - 1] < sorted[f + l - 1]
    BY <2>1, <1>2
  <2> QED  BY <2>2, <1>10
<1>13. \A i \in Visible(m) : \E k \in 1 .. width : g[k] = i
  <2> SUFFICES ASSUME NEW i \in Visible(m) PROVE \E k \in 1 .. width : g[k] = i  OBVIOUS
  <2>1. i \in Pictures(m) /\ m.pts[i] >= m.mediaTime /\ m.pts[i] \in Times(m)
    BY <1>1 DEF Visible, Times
  <2>2. PICK j \in 1 .. last : sorted[j] = m.pts[i]
    BY <2>1, <1>2
  <2>3. f <= j
    BY <2>1, <2>2, <1>5
  <2>4. j - f + 1 \in 1 .. width /\ f + (j - f + 1) - 1 = j
    BY <2>3, <1>1
  <2>5. m.pts[g[j - f + 1]] = m.pts[i] /\ g[j - f + 1] \in Pictures(m)
    BY <2>2, <2>4, <1>10, <1>1
  <2>6. g[j - f + 1] = i
    BY <2>1, <2>5, <1>1
  <2> QED  BY <2>4, <2>6
<1>14. Tells(Visible(m), m.pts)
  BY <1>1 DEF Tells
<1> HIDE DEF g
<1>15. n = width /\ s = g
  <2> HIDE DEF width
  <2>1. RisesThrough(g, width, Visible(m), m.pts)
    BY <1>9, <1>11, <1>12, <1>13 DEF RisesThrough
  <2> QED  BY <2>1, <1>14, InOrderIs DEF InView
<1>16. first + n - 1 = last /\ first \in 1 .. last
  BY <1>15, <1>6, <1>1
<1>17. \A k \in 1 .. n : first + k - 1 \in 1 .. last /\ sorted[first + k - 1] = m.pts[s[k]]
  BY <1>6, <1>9, <1>10, <1>15
<1> QED  BY <1>1, <1>3, <1>16, <1>17
-----------------------------------------------------------------------------
\* Where the span of a cut ends: behind its last picture, and not behind the next one.
LEMMA SpanEnds ==
  ASSUME NEW m, Timed(m), NEW n, n = Cardinality(Visible(m)), NEW s, s = InView(m),
         frames \in 1 .. n, Cardinality(Pictures(m)) >= 2,
         \A i, j \in Visible(m) : m.pts[i] < m.pts[j] => 2 * (m.pts[j] - m.pts[i]) >= STEP
  PROVE  \E stop \in Int :
           /\ SpanOf(m) = ((stop - m.mediaTime) * MovieScale) \div MediaScale
           /\ frames < n => stop <= m.pts[s[frames + 1]]
           /\ frames > 1 => stop <= 2 * m.pts[s[frames]] - m.pts[s[frames - 1]]
           /\ frames > 1 \/ frames < n => 2 * stop >= 2 * m.pts[s[frames]] + STEP
<1> DEFINE sorted == Ascending(Times(m))
           first == Least({k \in DOMAIN sorted : sorted[k] >= m.mediaTime})
           end == first + frames - 1
           last == sorted[end]
           step == IF frames > 1 THEN last - sorted[end - 1]
                   ELSE IF first < Len(sorted) THEN sorted[first + 1] - last
                   ELSE last - sorted[first - 1]
           stop == IF end < Len(sorted) THEN Lower(sorted[end + 1], last + step) ELSE last + step
           t(k) == m.pts[s[k]]
           N == Cardinality(Pictures(m))
<1>1. SpanOf(m) = ((stop - m.mediaTime) * MovieScale) \div MediaScale
  BY DEF SpanOf
<1>2. /\ N \in Nat /\ Len(sorted) = N /\ first \in 1 .. N /\ first + n - 1 = N
      /\ \A k \in 1 .. n : first + k - 1 \in 1 .. N /\ sorted[first + k - 1] = m.pts[s[k]]
  <2> HIDE DEF N, first, sorted
  <2> QED  BY TimesEndWithTheView DEF N, first, sorted
<1>3. /\ n \in Nat \ {0} /\ s \in [1 .. n -> Visible(m)]
      /\ \A k \in 1 .. n : t(k) \in Int
      /\ \A k, l \in 1 .. n : k < l => t(k) < t(l)
  BY ViewInOrder
<1>4. \A k \in 1 .. N : sorted[k] \in Int
  <2>1. IsFiniteSet(Times(m)) /\ Times(m) \in SUBSET Int /\ Cardinality(Times(m)) = N
    BY TimedPictures
  <2>2. sorted \in [1 .. N -> Times(m)]
    BY <2>1, AscendingSorts
  <2> HIDE DEF sorted, N
  <2> QED  BY <2>1, <2>2
<1>5. \A k, l \in 1 .. n : k < l => 2 * t(l) >= 2 * t(k) + STEP
  <2> SUFFICES ASSUME NEW k \in 1 .. n, NEW l \in 1 .. n, k < l
               PROVE  2 * t(l) >= 2 * t(k) + STEP
    OBVIOUS
  <2>1. t(k) < t(l) /\ t(k) \in Int /\ t(l) \in Int
    BY <1>3
  <2>2. 2 * (t(l) - t(k)) >= STEP
    BY <2>1, <1>3
  <2>3. STEP \in Int
    BY CutAssumption
  <2> HIDE DEF t
  <2> QED  BY <2>1, <2>2, <2>3
<1>6. \A k \in 1 .. n : sorted[first + k - 1] = t(k)
  BY <1>2
<1>7. n \in Nat \ {0} /\ frames \in Int /\ 1 <= frames /\ frames <= n /\ first \in Int /\ N \in Int
      /\ STEP \in Int /\ first + n - 1 = N /\ N >= 2 /\ 1 <= first
  BY <1>2, <1>3, CutAssumption
<1> HIDE DEF sorted, first, t, N
<1>8. end < Len(sorted) <=> frames < n
  BY <1>2, <1>7
<1>9. last = t(frames) /\ t(frames) \in Int
  BY <1>6, <1>3, <1>7
<1>10. frames < n => sorted[end + 1] = t(frames + 1) /\ t(frames + 1) \in Int
                     /\ 2 * t(frames + 1) >= 2 * t(frames) + STEP
  <2> SUFFICES ASSUME frames < n
               PROVE  sorted[end + 1] = t(frames + 1) /\ t(frames + 1) \in Int
                      /\ 2 * t(frames + 1) >= 2 * t(frames) + STEP
    OBVIOUS
  <2>1. frames + 1 \in 1 .. n /\ first + (frames + 1) - 1 = end + 1 /\ frames < frames + 1
    BY <1>7
  <2> QED  BY <2>1, <1>3, <1>5, <1>6
<1>11. frames > 1 => step = t(frames) - t(frames - 1) /\ t(frames - 1) \in Int
                     /\ 2 * t(frames) >= 2 * t(frames - 1) + STEP
  <2> SUFFICES ASSUME frames > 1
               PROVE  step = t(frames) - t(frames - 1) /\ t(frames - 1) \in Int
                      /\ 2 * t(frames) >= 2 * t(frames - 1) + STEP
    OBVIOUS
  <2>1. frames - 1 \in 1 .. n /\ first + (frames - 1) - 1 = end - 1 /\ frames - 1 < frames
    BY <1>7
  <2> QED  BY <2>1, <1>3, <1>5, <1>6, <1>9
<1>12. frames = 1 /\ frames < n => step = t(frames + 1) - t(frames)
  <2> SUFFICES ASSUME frames = 1, frames < n PROVE step = t(frames + 1) - t(frames)  OBVIOUS
  <2>1. first < Len(sorted) /\ first + 1 = end + 1 /\ ~ frames > 1
    BY <1>2, <1>7
  <2> QED  BY <2>1, <1>10, <1>9
<1>13. frames = 1 /\ ~ frames < n => step \in Int
  <2> SUFFICES ASSUME frames = 1, n = 1 PROVE step \in Int  BY <1>7
  <2>1. first = N /\ ~ first < Len(sorted) /\ first - 1 \in 1 .. N /\ ~ frames > 1
    BY <1>2, <1>7
  <2>2. sorted[first - 1] \in Int
    BY <2>1, <1>4
  <2> QED  BY <2>1, <2>2, <1>9
<1>14. step \in Int
  <2>1. CASE frames > 1
    BY <2>1, <1>9, <1>11
  <2>2. CASE frames = 1 /\ frames < n
    BY <2>2, <1>9, <1>10, <1>12
  <2>3. CASE frames = 1 /\ ~ frames < n
    BY <2>3, <1>13
  <2> QED  BY <2>1, <2>2, <2>3, <1>7
<1> HIDE DEF step, last
<1>15. frames < n => stop = Lower(t(frames + 1), t(frames) + step)
  BY <1>8, <1>9, <1>10
<1>16. ~ frames < n => stop = t(frames) + step
  BY <1>8, <1>9
<1> HIDE DEF stop, end
<1>17. stop \in Int
  BY <1>9, <1>10, <1>14, <1>15, <1>16 DEF Lower
<1>18. frames < n => stop <= t(frames + 1)
  BY <1>9, <1>10, <1>14, <1>15 DEF Lower
<1>19. frames > 1 => stop <= 2 * t(frames) - t(frames - 1)
  BY <1>9, <1>10, <1>11, <1>14, <1>15, <1>16 DEF Lower
<1>20. frames > 1 \/ frames < n => 2 * stop >= 2 * t(frames) + STEP
  <2>1. CASE frames > 1
    BY <2>1, <1>7, <1>9, <1>10, <1>11, <1>14, <1>15, <1>16 DEF Lower
  <2>2. CASE ~ frames > 1 /\ frames < n
    <3>1. frames = 1
      BY <2>2, <1>7
    <3>2. step = t(frames + 1) - t(frames) /\ stop = Lower(t(frames + 1), t(frames) + step)
      BY <3>1, <2>2, <1>12, <1>15
    <3> QED  BY <2>2, <3>2, <1>7, <1>9, <1>10, <1>14 DEF Lower
  <2> QED  BY <2>1, <2>2
<1> QED  BY <1>1, <1>17, <1>18, <1>19, <1>20 DEF t
-----------------------------------------------------------------------------
\* Half a frame is more than a tick of the movie.
LEMMA FasterTicks ==
  ASSUME NEW d \in Int, 2 * d >= STEP
  PROVE  d * MovieScale \in Int /\ d * MovieScale > MediaScale
<1>1. STEP \in Nat /\ MovieScale \in Nat \ {0} /\ MediaScale \in Nat /\ STEP * MovieScale > 2 * MediaScale
  BY CutAssumption
<1>2. (2 * d - STEP) * MovieScale >= 0
  BY <1>1
<1>3. (2 * d - STEP) * MovieScale = 2 * (d * MovieScale) - STEP * MovieScale
  BY <1>1
<1>4. d * MovieScale \in Int /\ STEP * MovieScale \in Int
  BY <1>1
<1> DEFINE a == d * MovieScale
           b == STEP * MovieScale
<1>5. a \in Int /\ b \in Int /\ 2 * a - b >= 0 /\ b > 2 * MediaScale
  BY <1>1, <1>2, <1>3, <1>4
<1> HIDE DEF a, b
<1>6. a > MediaScale
  BY <1>1, <1>5
<1> QED  BY <1>5, <1>6 DEF a

\* Scaling keeps the order, and adds up.
LEMMA ScalingKeepsOrder ==
  ASSUME NEW a \in Int, NEW b \in Int, a <= b, NEW scale \in Nat
  PROVE  a * scale \in Int /\ b * scale \in Int /\ a * scale <= b * scale
<1>1. (b - a) * scale >= 0 /\ (b - a) * scale = b * scale - a * scale
  OBVIOUS
<1>2. a * scale \in Int /\ b * scale \in Int
  OBVIOUS
<1> DEFINE x == a * scale
           y == b * scale
<1>3. x \in Int /\ y \in Int /\ y - x >= 0
  BY <1>1, <1>2
<1> HIDE DEF x, y
<1>4. x <= y
  BY <1>3
<1> QED  BY <1>2, <1>4 DEF x, y

LEMMA ScalingIsExact ==
  ASSUME NEW a \in Int, NEW b \in Int, NEW scale \in Nat
  PROVE  /\ a * scale \in Int /\ b * scale \in Int
         /\ (a - b) * scale = a * scale - b * scale
         /\ (a + b) * scale = a * scale + b * scale
OBVIOUS
-----------------------------------------------------------------------------
Row == UNION {[1 .. n -> Int] : n \in Nat}
Movie ==
  [pts : Row, dts : Row, mediaTime : Int, span : Nat, lead : Nat, sound : [1 .. 2 -> Nat], length : Nat]

\* What a trim changes.
LEMMA TrimmedFields ==
  ASSUME NEW m \in Movie
  PROVE  /\ TrimMoov(m).pts = m.pts /\ TrimMoov(m).dts = m.dts
         /\ TrimMoov(m).mediaTime = m.mediaTime /\ TrimMoov(m).lead = m.lead
         /\ ~ MayTrim(m) => TrimMoov(m) = m
         /\ MayTrim(m) =>
              /\ TrimMoov(m).span = SpanOf(m) /\ TrimMoov(m).length = m.lead + SpanOf(m)
              /\ TrimMoov(m).sound = Clamped(m.sound, m.lead + SpanOf(m))
<1> DEFINE span == SpanOf(m)
           clamped == Clamped(m.sound, m.lead + SpanOf(m))
           x == [m EXCEPT !.span = span, !.length = m.lead + span, !.sound = clamped]
<1>1. TrimMoov(m) = IF MayTrim(m) THEN x ELSE m
  BY DEF TrimMoov
<1> HIDE DEF span, clamped
<1>2. /\ x.pts = m.pts /\ x.dts = m.dts /\ x.mediaTime = m.mediaTime /\ x.lead = m.lead
      /\ x.span = span /\ x.length = m.lead + span /\ x.sound = clamped
  BY DEF Movie
<1> HIDE DEF x
<1>3. CASE MayTrim(m)
  <2>1. TrimMoov(m) = x
    BY <1>1, <1>3
  <2> QED  BY <2>1, <1>2, <1>3 DEF span, clamped
<1>4. CASE ~ MayTrim(m)
  BY <1>1, <1>4
<1> QED  BY <1>3, <1>4

\* The length of a cut that ends at stop: pictures from there on are not in it, those
\* half a frame before are, and it is shorter than a span that shows the picture there.
Reaches(span, stop, mt, whole) ==
  /\ span \in Int /\ span * MediaScale <= (stop - mt) * MovieScale
  /\ \A v \in Int : v >= stop => ~ (v - mt) * MovieScale < span * MediaScale
  /\ \A v \in Int : 2 * stop >= 2 * v + STEP => (v - mt) * MovieScale < span * MediaScale
  /\ 2 * stop >= 2 * mt + STEP => span > 0
  /\ \A v \in Int : stop <= v /\ (v - mt) * MovieScale < whole * MediaScale => span < whole

LEMMA SpanReaches ==
  ASSUME NEW mt \in Int, NEW whole \in Nat, NEW stop \in Int
  PROVE  Reaches(((stop - mt) * MovieScale) \div MediaScale, stop, mt, whole)
<1> DEFINE span == ((stop - mt) * MovieScale) \div MediaScale
<1>0. /\ STEP \in Nat \ {0} /\ MovieScale \in Nat \ {0} /\ MediaScale \in Nat \ {0}
  BY CutAssumption
<1> DEFINE x == (stop - mt) * MovieScale
           y == span * MediaScale
<1>1. x \in Int
  BY <1>0
<1>2. span \in Int /\ y \in Int /\ y <= x /\ x < y + MediaScale
  <2> HIDE DEF x
  <2> QED  BY <1>1, <1>0, DivisionBounds DEF x
<1> HIDE DEF span
<1>3. ASSUME NEW v \in Int, v >= stop
      PROVE  ~ (v - mt) * MovieScale < y
  <2> DEFINE z == (v - mt) * MovieScale
  <2>1. z \in Int /\ x <= z
    BY <1>3, <1>0, ScalingKeepsOrder
  <2> HIDE DEF x, y, z
  <2>2. ~ z < y
    BY <2>1, <1>1, <1>2
  <2> QED  BY <2>2 DEF z
<1>4. ASSUME NEW v \in Int, 2 * stop >= 2 * v + STEP
      PROVE  (v - mt) * MovieScale < y
  <2> DEFINE z == (v - mt) * MovieScale
             w == (stop - v) * MovieScale
  <2>1. 2 * (stop - v) >= STEP
    BY <1>4, <1>0
  <2>2. w \in Int /\ w > MediaScale
    BY <2>1, FasterTicks
  <2>3. z \in Int /\ x = z + w
    <3>1. (stop - mt) = (v - mt) + (stop - v)
      BY <1>0
    <3>2. ((v - mt) + (stop - v)) * MovieScale = (v - mt) * MovieScale + (stop - v) * MovieScale
      BY <1>0, ScalingIsExact
    <3>3. z \in Int
      BY <1>0
    <3> QED  BY <3>1, <3>2, <3>3
  <2> HIDE DEF x, y, z, w
  <2>4. z < y
    BY <2>2, <2>3, <1>1, <1>2, <1>0
  <2> QED  BY <2>4 DEF z
<1>5. ASSUME 2 * stop >= 2 * mt + STEP
      PROVE  span > 0
  <2>1. (mt - mt) * MovieScale < y
    BY <1>4, <1>5, <1>0
  <2>2. (mt - mt) * MovieScale = 0
    BY <1>0
  <2>3. span > 0
    <3>1. SUFFICES ASSUME span <= 0 PROVE FALSE
      BY <1>2
    <3>2. span * MediaScale <= 0 * MediaScale
      BY <3>1, <1>2, <1>0, ScalingKeepsOrder
    <3>3. 0 * MediaScale = 0
      BY <1>0
    <3> HIDE DEF x
    <3> QED  BY <3>2, <3>3, <2>1, <2>2, <1>2
  <2> QED  BY <2>3
<1>6. ASSUME NEW v \in Int, stop <= v, (v - mt) * MovieScale < whole * MediaScale
      PROVE  span < whole
  <2>1. SUFFICES ASSUME whole <= span PROVE FALSE
    BY <1>2, <1>0
  <2> DEFINE z == (v - mt) * MovieScale
             u == whole * MediaScale
  <2>2. u \in Int /\ u <= y
    BY <2>1, <1>2, <1>0, ScalingKeepsOrder
  <2>3. z \in Int /\ x <= z
    BY <1>6, <1>0, ScalingKeepsOrder
  <2>4. z < u
    BY <1>6
  <2> HIDE DEF x, y, z, u
  <2> QED  BY <2>2, <2>3, <2>4, <1>1, <1>2
<1>7. Reaches(span, stop, mt, whole)
  BY <1>2, <1>3, <1>4, <1>5, <1>6 DEF Reaches
<1> QED  BY <1>7 DEF span

\* Every visible picture of m is shown, and no two are nearer than half a frame.
Roomy(m) ==
  /\ \A i, j \in Visible(m) : m.pts[i] < m.pts[j] => 2 * (m.pts[j] - m.pts[i]) >= STEP
  /\ \A i \in Visible(m) : (m.pts[i] - m.mediaTime) * MovieScale < m.span * MediaScale

\* A trim leaves the first `frames` of the visible pictures.
LEMMA TrimShowsTheFirst ==
  ASSUME NEW m \in Movie, Timed(m), Roomy(m), NEW n, n = Cardinality(Visible(m)),
         NEW s, s = InView(m), frames \in 1 .. n, NEW k \in 1 .. n
  PROVE  (m.pts[s[k]] - m.mediaTime) * MovieScale < TrimMoov(m).span * MediaScale <=> k <= frames
<1> DEFINE t(j) == m.pts[s[j]]
           mt == m.mediaTime
<1>1. /\ n \in Nat \ {0} /\ 1 \in 1 .. n /\ n \in 1 .. n
      /\ \A j \in 1 .. n : t(j) \in Int /\ s[j] \in Visible(m)
      /\ \A j, l \in 1 .. n : j <= l => t(j) <= t(l)
      /\ t(1) = mt /\ \A j \in 1 .. n : mt <= t(j)
  <2>1. /\ n \in Nat \ {0} /\ 1 \in 1 .. n /\ n \in 1 .. n
        /\ s \in [1 .. n -> Visible(m)]
        /\ \A j \in 1 .. n :
             s[j] \in Pictures(m) /\ m.pts[s[j]] \in Int /\ m.mediaTime <= m.pts[s[j]]
        /\ \A j, l \in 1 .. n : j <= l => m.pts[s[j]] <= m.pts[s[l]]
        /\ m.pts[s[1]] = m.mediaTime
    BY ViewInOrder
  <2>2. \A j \in 1 .. n : s[j] \in Visible(m)
    BY <2>1
  <2> QED  BY <2>1, <2>2
<1>2. mt \in Int /\ m.span \in Nat
  BY DEF Movie
<1>3. /\ STEP \in Nat \ {0} /\ MovieScale \in Nat \ {0} /\ MediaScale \in Nat \ {0}
  BY CutAssumption
<1>4. \A j \in 1 .. n : (t(j) - mt) * MovieScale < m.span * MediaScale
  BY <1>1 DEF Roomy
<1>5. n <= Cardinality(Pictures(m)) /\ Cardinality(Pictures(m)) \in Nat
  BY TimedPictures, FS_Subset
<1>6. frames \in Nat \ {0} /\ frames <= n
  BY <1>1
<1>7. ASSUME Cardinality(Pictures(m)) >= 2
      PROVE  \E stop \in Int :
           /\ SpanOf(m) = ((stop - mt) * MovieScale) \div MediaScale
           /\ frames < n => stop <= t(frames + 1)
           /\ frames > 1 \/ frames < n => 2 * stop >= 2 * t(frames) + STEP
  BY <1>7, SpanEnds DEF Roomy
<1> HIDE DEF t, mt
<1>8. ASSUME NEW stop \in Int, SpanOf(m) = ((stop - mt) * MovieScale) \div MediaScale
      PROVE  Reaches(SpanOf(m), stop, mt, m.span)
  BY <1>2, <1>8, SpanReaches
<1>9. CASE MayTrim(m)
  <2>1. Cardinality(Pictures(m)) >= 2 /\ SpanOf(m) > 0
    BY <1>9 DEF MayTrim
  <2>2. PICK stop \in Int :
           /\ SpanOf(m) = ((stop - mt) * MovieScale) \div MediaScale
           /\ frames < n => stop <= t(frames + 1)
           /\ frames > 1 \/ frames < n => 2 * stop >= 2 * t(frames) + STEP
    BY <2>1, <1>7
  <2>3. TrimMoov(m).span = SpanOf(m)
    BY <1>9, TrimmedFields
  <2> DEFINE span == SpanOf(m)
  <2> HIDE DEF span
  <2>4. /\ span \in Int
        /\ \A v \in Int : v >= stop => ~ (v - mt) * MovieScale < span * MediaScale
        /\ \A v \in Int : 2 * stop >= 2 * v + STEP => (v - mt) * MovieScale < span * MediaScale
    BY <1>8, <2>2 DEF span, Reaches
  <2>5. ASSUME k > frames
        PROVE  ~ (t(k) - mt) * MovieScale < span * MediaScale
    <3>1. frames < n /\ frames + 1 \in 1 .. n /\ frames + 1 <= k
      BY <2>5, <1>6, <1>1
    <3>2. t(frames + 1) \in Int /\ t(k) \in Int /\ t(frames + 1) <= t(k) /\ stop <= t(frames + 1)
      BY <3>1, <2>2, <1>1
    <3>3. t(k) >= stop
      BY <3>2
    <3> QED  BY <3>2, <3>3, <2>4
  <2>6. ASSUME k <= frames
        PROVE  (t(k) - mt) * MovieScale < span * MediaScale
    <3>1. CASE frames > 1 \/ frames < n
      <4>1. frames \in 1 .. n
        BY <1>6, <1>1
      <4>2. t(frames) \in Int /\ t(k) \in Int /\ t(k) <= t(frames) /\ 2 * stop >= 2 * t(frames) + STEP
        BY <4>1, <3>1, <2>2, <2>6, <1>1
      <4>3. 2 * stop >= 2 * t(k) + STEP
        BY <4>2, <1>3
      <4> QED  BY <4>2, <4>3, <2>4
    <3>2. CASE ~ (frames > 1 \/ frames < n)
      <4>1. k = 1
        BY <3>2, <1>6, <2>6
      <4>2. (t(k) - mt) * MovieScale = 0
        BY <4>1, <1>1, <1>2, <1>3
      <4>3. span >= 1
        BY <2>1, <2>4 DEF span
      <4>4. 1 * MediaScale \in Int /\ span * MediaScale \in Int /\ 1 * MediaScale <= span * MediaScale
        BY <4>3, <2>4, <1>3, ScalingKeepsOrder
      <4>5. 1 * MediaScale > 0
        BY <1>3
      <4> QED  BY <4>2, <4>4, <4>5
    <3> QED  BY <3>1, <3>2
  <2>7. (t(k) - mt) * MovieScale < span * MediaScale <=> k <= frames
    BY <2>5, <2>6, <1>6
  <2> QED  BY <2>7, <2>3 DEF span, t, mt
<1>10. CASE ~ MayTrim(m)
  <2>1. TrimMoov(m).span = m.span
    BY <1>10, TrimmedFields
  <2>2. frames = n
    <3>1. SUFFICES ASSUME frames < n PROVE FALSE
      BY <1>6, <1>1
    <3>2. Cardinality(Pictures(m)) >= 2
      BY <3>1, <1>5, <1>6, <1>1
    <3>3. PICK stop \in Int :
           /\ SpanOf(m) = ((stop - mt) * MovieScale) \div MediaScale
           /\ frames < n => stop <= t(frames + 1)
           /\ frames > 1 \/ frames < n => 2 * stop >= 2 * t(frames) + STEP
      BY <3>2, <1>7
    <3> DEFINE span == SpanOf(m)
    <3> HIDE DEF span
    <3>4. /\ 2 * stop >= 2 * mt + STEP => span > 0
          /\ \A v \in Int : stop <= v /\ (v - mt) * MovieScale < m.span * MediaScale
                            => span < m.span
      BY <1>8, <3>3 DEF span, Reaches
    <3>5. frames + 1 \in 1 .. n /\ frames \in 1 .. n
      BY <3>1, <1>6, <1>1
    <3>6. t(frames) \in Int /\ mt <= t(frames) /\ 2 * stop >= 2 * t(frames) + STEP
      BY <3>1, <3>3, <3>5, <1>1
    <3>7. span > 0
      BY <3>4, <3>6, <1>2, <1>3
    <3>8. span < m.span
      BY <3>1, <3>3, <3>4, <3>5, <1>1, <1>4
    <3>9. Cardinality(Visible(m)) >= frames
      BY <3>1, <1>6, <1>1
    <3> QED  BY <3>2, <3>7, <3>8, <3>9, <1>10 DEF MayTrim, span
  <2>3. k <= frames
    BY <2>2
  <2>4. (t(k) - mt) * MovieScale < m.span * MediaScale
    BY <1>4
  <2> QED  BY <2>1, <2>3, <2>4 DEF t, mt
<1> QED  BY <1>9, <1>10
-----------------------------------------------------------------------------
\* f rises through all of S.
Enumerates(f, n, S) ==
  /\ n \in Nat /\ f \in [1 .. n -> S]
  /\ \A k, l \in 1 .. n : k < l => f[k] < f[l]
  /\ \A x \in S : \E k \in 1 .. n : f[k] = x

\* What rises through all of a set of whole numbers is the set in order.
LEMMA AscendingIs ==
  ASSUME NEW S, S \subseteq Int, NEW n, NEW f, Enumerates(f, n, S)
  PROVE  IsFiniteSet(S) /\ Cardinality(S) = n /\ Ascending(S) = f
<1> DEFINE key == [x \in S |-> x]
<1>1. Tells(S, key)
  BY DEF Tells
<1>2. \A x \in S : key[x] = x
  OBVIOUS
<1>3. Ascending(S) = InOrder(S, key)
  BY DEF Ascending
<1> HIDE DEF key
<1>4. RisesThrough(f, n, S, key)
  BY <1>2 DEF Enumerates, RisesThrough
<1>5. IsFiniteSet(S) /\ Cardinality(S) = n /\ InOrder(S, key) = f
  BY <1>1, <1>4, InOrderIs
<1> QED  BY <1>3, <1>5

\* The places in time of the n pictures that a copy has from its in point on: those of
\* the shot follow each other.
ArePlaces(places, n, size) ==
  /\ n \in Nat /\ size \in 0 .. n /\ places \in [1 .. n -> Nat \ {0}]
  /\ \A k, l \in 1 .. n : k < l => places[k] < places[l]
  /\ \A k \in 1 .. size : places[k] = k

LEMMA PlacesAre ==
  ASSUME NEW size \in Nat, NEW tail \in SUBSET (Nat \ {0}), IsFiniteSet(tail)
  PROVE  ArePlaces(PlacesOf(size, tail), size + Cardinality(tail), size)
<1> DEFINE S == 1 .. size \cup {size + t : t \in tail}
           n == size + Cardinality(tail)
           places == PlacesOf(size, tail)
           c == Cardinality(tail)
           a == Ascending(tail)
           f == [k \in 1 .. n |-> IF k <= size THEN k ELSE size + a[k - size]]
<1>1. /\ c \in Nat /\ a \in [1 .. c -> tail]
      /\ \A k, l \in 1 .. c : k < l => a[k] < a[l]
      /\ \A x \in tail : \E k \in 1 .. c : a[k] = x
  <2>1. tail \in SUBSET Int
    OBVIOUS
  <2> QED  BY <2>1, AscendingSorts
<1> HIDE DEF a, c, n, places
<1>2. n = size + c /\ n \in Nat
  BY <1>1 DEF c, n
<1>3. \A k \in 1 .. n : ~ k <= size => k - size \in 1 .. c /\ a[k - size] \in tail
  BY <1>1, <1>2
<1>4. S \in SUBSET (Nat \ {0})
  OBVIOUS
<1>5. f \in [1 .. n -> S]
  <2>1. ASSUME NEW k \in 1 .. n
        PROVE  f[k] \in S
    <3>1. CASE k <= size
      <4>1. k \in 1 .. size /\ f[k] = k
        BY <3>1
      <4> QED  BY <4>1
    <3>2. CASE ~ k <= size
      <4>1. a[k - size] \in tail /\ f[k] = size + a[k - size]
        BY <3>2, <1>3
      <4> QED  BY <4>1
    <3> QED  BY <3>1, <3>2
  <2> HIDE DEF S
  <2> QED  BY <2>1
<1>6. \A k, l \in 1 .. n : k < l => f[k] < f[l]
  <2> SUFFICES ASSUME NEW k \in 1 .. n, NEW l \in 1 .. n, k < l PROVE f[k] < f[l]  OBVIOUS
  <2>1. CASE l <= size
    BY <2>1
  <2>2. CASE k <= size /\ ~ l <= size
    <3>1. a[l - size] \in Nat \ {0}
      BY <2>2, <1>3
    <3> QED  BY <2>2, <3>1
  <2>3. CASE ~ k <= size /\ ~ l <= size
    <3>1. k - size \in 1 .. c /\ l - size \in 1 .. c /\ k - size < l - size
      BY <2>3, <1>3
    <3>2. a[k - size] < a[l - size] /\ a[k - size] \in Nat /\ a[l - size] \in Nat
      BY <2>3, <3>1, <1>1, <1>3
    <3> QED  BY <2>3, <3>2
  <2> QED  BY <2>1, <2>2, <2>3
<1>7. \A x \in S : \E k \in 1 .. n : f[k] = x
  <2> SUFFICES ASSUME NEW x \in S PROVE \E k \in 1 .. n : f[k] = x  OBVIOUS
  <2>1. CASE x \in 1 .. size
    BY <2>1, <1>1, <1>2
  <2>2. CASE x \in {size + t : t \in tail}
    <3>1. PICK t \in tail : x = size + t
      BY <2>2
    <3>2. PICK k \in 1 .. c : a[k] = t
      BY <1>1
    <3>3. size + k \in 1 .. n /\ ~ size + k <= size /\ (size + k) - size = k
      BY <1>1, <1>2
    <3>4. f[size + k] = x
      BY <3>1, <3>2, <3>3
    <3> QED  BY <3>3, <3>4
  <2> QED  BY <2>1, <2>2
<1> HIDE DEF S
<1>8. Ascending(S) = f
  <2> HIDE DEF f
  <2>1. S \subseteq Int
    BY <1>4
  <2>2. n \in Nat
    BY <1>2
  <2>3. Enumerates(f, n, S)
    BY ONLY <2>2, <1>5, <1>6, <1>7 DEF Enumerates
  <2> QED  BY <2>1, <2>3, AscendingIs
<1>9. places = f
  BY <1>8 DEF S, PlacesOf, places
<1>10. \A k \in 1 .. size : f[k] = k
  BY <1>1, <1>2
<1> HIDE DEF f
<1>11. \A k \in 1 .. n : f[k] \in Nat \ {0}
  BY <1>4, <1>5
<1>12. f \in [1 .. n -> Nat \ {0}]
  BY <1>5, <1>11
<1>13. size \in 0 .. n
  BY <1>1, <1>2
<1>14. ArePlaces(places, n, size)
  BY <1>2, <1>6, <1>9, <1>10, <1>12, <1>13 DEF ArePlaces
<1> QED  BY <1>14 DEF places, n

\* Rounding leaves more than half a frame between pictures that are a frame apart.
LEMMA RoundedLieApart ==
  ASSUME NEW a \in Int, NEW b \in Int, a + STEP <= b, NEW base \in 1 .. STEP
  PROVE  /\ Nearest(a, base) \in Int /\ Nearest(b, base) \in Int
         /\ 2 * (Nearest(b, base) - Nearest(a, base)) >= STEP
<1>1. STEP \in Nat \ {0} /\ base \in Nat \ {0} /\ base <= STEP
  BY CutAssumption
<1>2. PICK p \in Int : /\ Nearest(a, base) = p * base
                       /\ p * base \in Int
                       /\ - base <= 2 * a - 2 * (p * base)
                       /\ 2 * a - 2 * (p * base) < base
  BY <1>1, RoundedIsNear
<1>3. PICK q \in Int : /\ Nearest(b, base) = q * base
                       /\ q * base \in Int
                       /\ - base <= 2 * b - 2 * (q * base)
                       /\ 2 * b - 2 * (q * base) < base
  BY <1>1, RoundedIsNear
<1>4. q < p => q * base + base <= p * base
  BY <1>1, MultiplesLieApart
<1>5. p < q => p * base + base <= q * base
  BY <1>1, MultiplesLieApart
<1>6. p = q => p * base = q * base
  OBVIOUS
<1> DEFINE x == p * base
           y == q * base
<1>7. /\ x \in Int /\ y \in Int
      /\ - base <= 2 * a - 2 * x /\ 2 * b - 2 * y < base
      /\ (q < p => y + base <= x) /\ (p < q => x + base <= y) /\ (p = q => x = y)
  BY <1>2, <1>3, <1>4, <1>5, <1>6
<1> HIDE DEF x, y
<1>8. 2 * (y - x) >= STEP
  <2>1. 2 * y - 2 * x > 2 * STEP - 2 * base
    BY <1>1, <1>7
  <2>2. y > x \/ p < q
    BY <2>1, <1>1, <1>7
  <2>3. p < q
    BY <2>2, <1>1, <1>7
  <2> QED  BY <2>1, <2>3, <1>1, <1>7
<1> QED  BY <1>2, <1>3, <1>8 DEF x, y

\* When the picture at place r of a copy is shown.
TimeOf(r, head, apart, base, places) ==
  IF r <= head THEN head * STEP + (r - head) * apart
  ELSE Nearest((head - 1 + places[r - head]) * STEP + STEP, base)

TimesRise(head, apart, base, places, n, size) ==
  /\ \A r \in 1 .. head + n : TimeOf(r, head, apart, base, places) \in Int
  /\ \A r, q \in 1 .. head + n :
       r < q => /\ TimeOf(r, head, apart, base, places) < TimeOf(q, head, apart, base, places)
                /\ head < r => 2 * (TimeOf(q, head, apart, base, places)
                                      - TimeOf(r, head, apart, base, places)) >= STEP
  /\ \A k \in 1 .. size :
       TimeOf(head + k, head, apart, base, places) = Nearest((head + k) * STEP, base)

\* The times of a copy rise, by more than half a frame from the in point on.
LEMMA TimesOfACopy ==
  ASSUME NEW head \in Nat, NEW apart \in Nat \ {0}, NEW base \in 1 .. STEP,
         NEW n, NEW size, NEW places, ArePlaces(places, n, size)
  PROVE  TimesRise(head, apart, base, places, n, size)
<1> DEFINE time(r) == TimeOf(r, head, apart, base, places)
           turn(k) == (head - 1 + places[k]) * STEP + STEP
<1>1. STEP \in Nat \ {0} /\ base \in Nat \ {0} /\ base <= STEP
  BY CutAssumption
<1>0. /\ n \in Nat /\ size \in 0 .. n /\ places \in [1 .. n -> Nat \ {0}]
      /\ \A k, l \in 1 .. n : k < l => places[k] < places[l]
      /\ \A k \in 1 .. size : places[k] = k
  BY DEF ArePlaces
<1> USE <1>0
<1>2. \A k \in 1 .. n : head - 1 + places[k] \in Int /\ turn(k) \in Int /\ head <= head - 1 + places[k]
  <2> SUFFICES ASSUME NEW k \in 1 .. n
               PROVE  head - 1 + places[k] \in Int /\ turn(k) \in Int /\ head <= head - 1 + places[k]
    OBVIOUS
  <2>1. places[k] \in Nat \ {0}
    OBVIOUS
  <2> QED  BY <2>1, <1>1
<1>3. \A r \in 1 .. head + n : r <= head => time(r) = head * STEP + (r - head) * apart
  BY DEF TimeOf
<1>4. \A r \in 1 .. head + n : head < r => r - head \in 1 .. n /\ time(r) = Nearest(turn(r - head), base)
  <2> SUFFICES ASSUME NEW r \in 1 .. head + n, head < r
               PROVE  r - head \in 1 .. n /\ time(r) = Nearest(turn(r - head), base)
    OBVIOUS
  <2>1. ~ r <= head /\ r - head \in 1 .. n
    OBVIOUS
  <2> QED  BY <2>1 DEF TimeOf
<1>5. \A k, l \in 1 .. n : k < l => turn(k) + STEP <= turn(l)
  <2> SUFFICES ASSUME NEW k \in 1 .. n, NEW l \in 1 .. n, k < l PROVE turn(k) + STEP <= turn(l)
    OBVIOUS
  <2> DEFINE x == head - 1 + places[k]
             y == head - 1 + places[l]
  <2>1. places[k] < places[l] /\ places[k] \in Nat /\ places[l] \in Nat
    OBVIOUS
  <2>2. x \in Int /\ y \in Int /\ x < y
    BY <2>1
  <2> HIDE DEF x, y
  <2>3. x * STEP \in Int /\ y * STEP \in Int /\ x * STEP + STEP <= y * STEP
    BY <2>2, <1>1, MultiplesLieApart
  <2>4. x * STEP + STEP + STEP <= y * STEP + STEP
    BY <2>3, <1>1
  <2> QED  BY <2>4 DEF x, y
<1>6. \A k \in 1 .. n : head * STEP \in Int /\ head * STEP + STEP <= turn(k)
  <2> SUFFICES ASSUME NEW k \in 1 .. n PROVE head * STEP \in Int /\ head * STEP + STEP <= turn(k)
    OBVIOUS
  <2> DEFINE x == head - 1 + places[k]
  <2>1. x \in Int /\ head <= x
    BY <1>2
  <2> HIDE DEF x
  <2>2. head * STEP \in Int /\ x * STEP \in Int /\ head * STEP <= x * STEP
    BY <2>1, <1>1, ScalingKeepsOrder
  <2>3. head * STEP + STEP <= x * STEP + STEP
    BY <2>2, <1>1
  <2> QED  BY <2>2, <2>3 DEF x
<1> HIDE DEF time, turn
<1>7. ASSUME NEW r \in 1 .. head + n, r <= head
      PROVE  time(r) \in Int /\ time(r) <= head * STEP
  <2>1. (r - head) * apart \in Int /\ (r - head) * apart <= 0 * apart /\ 0 * apart = 0
    BY <1>7, ScalingKeepsOrder
  <2> DEFINE x == (r - head) * apart
             y == head * STEP
  <2>2. x \in Int /\ y \in Int /\ x <= 0 /\ time(r) = y + x
    BY <2>1, <1>1, <1>3, <1>7
  <2> HIDE DEF x, y
  <2>3. time(r) \in Int /\ time(r) <= y
    BY <2>2
  <2> QED  BY <2>3 DEF y
<1>8. ASSUME NEW r \in 1 .. head + n, head < r
      PROVE  time(r) \in Int /\ time(r) > head * STEP
  <2>1. r - head \in 1 .. n /\ time(r) = Nearest(turn(r - head), base)
    BY <1>4, <1>8
  <2> DEFINE y == head * STEP
             z == turn(r - head)
  <2>2. z \in Int /\ y \in Int /\ y + STEP <= z
    BY <2>1, <1>2, <1>6
  <2> HIDE DEF y, z
  <2>3. Nearest(y, base) \in Int /\ Nearest(z, base) \in Int
    BY <2>2, RoundedLieApart
  <2>4. PICK q \in Int : Nearest(z, base) = q * base /\ 2 * z - 2 * (q * base) < base
    BY <2>2, <1>1, RoundedIsNear
  <2>5. 2 * z - 2 * Nearest(z, base) < base
    BY <2>4
  <2>6. Nearest(z, base) > y
    BY <2>2, <2>3, <2>5, <1>1
  <2> QED  BY <2>1, <2>3, <2>6 DEF y, z
<1>9. \A r \in 1 .. head + n : time(r) \in Int
  <2> SUFFICES ASSUME NEW r \in 1 .. head + n PROVE time(r) \in Int  OBVIOUS
  <2>1. r <= head \/ head < r
    OBVIOUS
  <2> QED  BY <2>1, <1>7, <1>8
<1>10. ASSUME NEW r \in 1 .. head + n, NEW q \in 1 .. head + n, r < q, head < r
       PROVE  2 * (time(q) - time(r)) >= STEP
  <2>1. r - head \in 1 .. n /\ q - head \in 1 .. n /\ r - head < q - head
    BY <1>10
  <2>2. turn(r - head) + STEP <= turn(q - head) /\ turn(r - head) \in Int /\ turn(q - head) \in Int
    BY <2>1, <1>2, <1>5
  <2>3. 2 * (Nearest(turn(q - head), base) - Nearest(turn(r - head), base)) >= STEP
    BY <2>2, RoundedLieApart
  <2>4. head < q
    BY <1>10
  <2> QED  BY <2>3, <2>4, <1>4, <1>10
<1>11. ASSUME NEW r \in 1 .. head + n, NEW q \in 1 .. head + n, r < q
       PROVE  time(r) < time(q)
  <2>0. time(r) \in Int /\ time(q) \in Int
    BY <1>9
  <2>1. CASE q <= head
    <3>1. r - head < q - head /\ r <= head
      BY <1>11, <2>1
    <3>2. (r - head) * apart \in Int /\ (q - head) * apart \in Int
          /\ (r - head) * apart + apart <= (q - head) * apart
      BY <3>1, MultiplesLieApart
    <3> DEFINE x == (r - head) * apart
               y == (q - head) * apart
               z == head * STEP
    <3>3. x \in Int /\ y \in Int /\ z \in Int /\ x + apart <= y /\ time(r) = z + x /\ time(q) = z + y
      BY <3>1, <3>2, <2>1, <1>1, <1>3
    <3> HIDE DEF x, y, z
    <3> QED  BY <3>3
  <2>2. CASE r <= head /\ head < q
    <3> DEFINE z == head * STEP
    <3>1. z \in Int /\ time(r) <= z /\ time(q) > z
      BY <2>2, <1>1, <1>7, <1>8
    <3> HIDE DEF z
    <3> QED  BY <3>1, <2>0
  <2>3. CASE head < r
    BY <2>0, <2>3, <1>1, <1>10, <1>11
  <2> QED  BY <2>1, <2>2, <2>3
<1>12. \A k \in 1 .. size : time(head + k) = Nearest((head + k) * STEP, base)
  <2> SUFFICES ASSUME NEW k \in 1 .. size PROVE time(head + k) = Nearest((head + k) * STEP, base)
    OBVIOUS
  <2>1. head + k \in 1 .. head + n /\ head < head + k /\ (head + k) - head = k /\ k \in 1 .. n
    OBVIOUS
  <2>2. time(head + k) = Nearest(turn(k), base)
    BY <2>1, <1>4
  <2>3. turn(k) = (head - 1 + k) * STEP + STEP
    BY DEF turn
  <2>4. (head - 1 + k) * STEP + STEP = (head + k) * STEP
    BY <1>1
  <2> QED  BY <2>2, <2>3, <2>4
<1> QED  BY <1>9, <1>10, <1>11, <1>12 DEF time, TimesRise
-----------------------------------------------------------------------------
\* What is used of a copy: its shot has the times of its frames, rounded, and its span
\* reaches a frame behind the last picture.
IsCopy(m) ==
  /\ m \in Movie /\ Timed(m) /\ m.dts = <<>> /\ m.length = m.lead + m.span
  /\ frames \in 1 .. Cardinality(Visible(m))
  /\ \A i, j \in Visible(m) : m.pts[i] < m.pts[j] => 2 * (m.pts[j] - m.pts[i]) >= STEP
  /\ \A i \in Visible(m) : (m.pts[i] - m.mediaTime + STEP) * MovieScale <= m.span * MediaScale
  /\ \E head \in Nat, base \in 1 .. STEP :
       \A k \in 1 .. frames : m.pts[InView(m)[k]] = Nearest((head + k) * STEP, base)

\* What ffmpeg writes is a copy in this sense.
LEMMA CopiesAreSuch ==
  ASSUME NEW head \in Nat, NEW size \in Nat \ {0}, NEW tail \in SUBSET (Nat \ {0}), IsFiniteSet(tail),
         NEW order \in Reorders(head + size + Cardinality(tail)), NEW apart \in Nat \ {0},
         NEW base \in 1 .. STEP, NEW lead \in Nat, NEW sound \in [1 .. 2 -> Nat],
         NEW m, m = CopyOf(head, size, tail, order, apart, base, lead, sound), frames = size
  PROVE  IsCopy(m)
<1> DEFINE places == PlacesOf(size, tail)
           n == size + Cardinality(tail)
           N == head + n
           time(r) == TimeOf(r, head, apart, base, places)
           pts == [i \in DOMAIN order |-> time(order[i])]
           begin == time(head + 1)
           end == time(Len(order)) + STEP
           span == ((end - begin) * MovieScale + MediaScale - 1) \div MediaScale
<1>1. m = [pts |-> pts, dts |-> <<>>, mediaTime |-> begin, span |-> span, lead |-> lead,
           sound |-> sound, length |-> lead + span]
  BY DEF CopyOf, TimeOf
<1>2. /\ n \in Nat /\ size \in 0 .. n /\ places \in [1 .. n -> Nat \ {0}]
      /\ ArePlaces(places, n, size)
      /\ \A k, l \in 1 .. n : k < l => places[k] < places[l]
      /\ \A k \in 1 .. size : places[k] = k
  <2>1. ArePlaces(places, n, size)
    <3>1. size \in Nat
      OBVIOUS
    <3> QED  BY <3>1, PlacesAre
  <2> QED  BY <2>1 DEF ArePlaces
<1>3. /\ STEP \in Nat \ {0} /\ MovieScale \in Nat \ {0} /\ MediaScale \in Nat \ {0}
  BY CutAssumption
<1> HIDE DEF places
<1>4. /\ \A r \in 1 .. N : time(r) \in Int
      /\ \A r, q \in 1 .. N : r < q => time(r) < time(q)
      /\ \A r, q \in 1 .. N : r < q /\ head < r => 2 * (time(q) - time(r)) >= STEP
      /\ \A k \in 1 .. size : time(head + k) = Nearest((head + k) * STEP, base)
  <2> HIDE DEF n
  <2>1. TimesRise(head, apart, base, places, n, size)
    BY <1>2, TimesOfACopy
  <2> QED  BY <2>1 DEF TimesRise
<1> HIDE DEF time
<1>5. N \in Nat /\ n \in Nat \ {0} /\ head + 1 \in 1 .. N /\ N \in 1 .. N /\ size \in 1 .. n
  BY <1>2
<1>6. /\ order \in [1 .. N -> 1 .. N]
      /\ \A i, j \in 1 .. N : order[i] = order[j] => i = j
      /\ \A r \in 1 .. N : \E i \in 1 .. N : order[i] = r
  <2>1. head + size + Cardinality(tail) = N
    <3>1. Cardinality(tail) \in Nat
      BY FS_CardinalityType
    <3> QED  BY <3>1
  <2>2. order \in [1 .. N -> 1 .. N] /\ IsInjective(order)
    BY <2>1 DEF Reorders
  <2> HIDE DEF N
  <2>3. IsFiniteSet(1 .. N)
    BY <1>5, FS_Interval
  <2>4. order \in Injection(1 .. N, 1 .. N)
    BY <2>2 DEF Injection
  <2>5. order \in Surjection(1 .. N, 1 .. N)
    BY <2>3, <2>4, FS_Injection
  <2>6. \A i, j \in 1 .. N : order[i] = order[j] => i = j
    BY <2>2 DEF IsInjective
  <2> QED  BY <2>2, <2>5, <2>6 DEF Surjection
<1>7. Len(order) = N
  <2> HIDE DEF N
  <2>1. order \in Seq(1 .. N)
    <3>1. order \in [1 .. N -> 1 .. N] /\ N \in Nat
      BY <1>5, <1>6
    <3> QED  BY <3>1, SeqDef
  <2>2. DOMAIN order = 1 .. N
    BY <1>6
  <2> QED  BY <2>1, <2>2, <1>5, LenProperties
<1>8. \A r, q \in 1 .. N : time(r) = time(q) => r = q
  <2> SUFFICES ASSUME NEW r \in 1 .. N, NEW q \in 1 .. N, time(r) = time(q) PROVE r = q  OBVIOUS
  <2>1. time(r) \in Int /\ time(q) \in Int /\ ~ time(r) < time(q) /\ ~ time(q) < time(r)
    BY <1>4
  <2>2. ~ r < q /\ ~ q < r
    BY <2>1, <1>4
  <2> HIDE DEF N
  <2> QED  BY <2>2, <1>5
<1>9. \A r, q \in 1 .. N : time(r) < time(q) <=> r < q
  <2> SUFFICES ASSUME NEW r \in 1 .. N, NEW q \in 1 .. N PROVE time(r) < time(q) <=> r < q  OBVIOUS
  <2>1. time(r) \in Int /\ time(q) \in Int
    BY <1>4
  <2>2. CASE r < q
    BY <2>2, <1>4
  <2>3. CASE r = q
    BY <2>1, <2>3, <1>5
  <2>4. CASE q < r
    <3>1. time(q) < time(r)
      BY <2>4, <1>4
    <3> HIDE DEF N
    <3> QED  BY <2>1, <2>4, <3>1, <1>5
  <2> HIDE DEF N
  <2> QED  BY <2>2, <2>3, <2>4, <1>5
<1>10. end \in Int /\ begin \in Int /\ end = time(N) + STEP /\ begin = time(head + 1) /\ begin < end
  <2>1. begin \in Int /\ time(N) \in Int
    BY <1>4, <1>5
  <2>2. head + 1 <= N
    BY <1>5
  <2>3. head + 1 = N \/ begin < time(N)
    BY <2>2, <1>4, <1>5
  <2>4. begin <= time(N)
    <3>1. CASE head + 1 = N
      BY <3>1, <2>1
    <3>2. CASE begin < time(N)
      <4> HIDE DEF begin, N
      <4> QED  BY <3>2, <2>1
    <3> QED  BY <2>3, <3>1, <3>2
  <2>5. end = time(N) + STEP
    BY <1>7
  <2> HIDE DEF end, begin, N
  <2>6. end \in Int /\ begin < end
    BY <2>1, <2>4, <2>5, <1>3
  <2> QED  BY <2>1, <2>5, <2>6 DEF begin
<1> HIDE DEF begin, end
<1>11. span \in Nat /\ (end - begin) * MovieScale <= span * MediaScale
  <2> DEFINE y == (end - begin) * MovieScale
             x == y + MediaScale - 1
             q == x \div MediaScale
             p == q * MediaScale
  <2>0. 0 <= end - begin /\ 0 * MovieScale = 0
    BY <1>3, <1>10
  <2>1. y \in Int /\ 0 <= y
    BY <2>0, <1>3, <1>10, ScalingKeepsOrder
  <2> HIDE DEF y
  <2>2. x \in Int
    BY <2>1, <1>3
  <2> HIDE DEF x
  <2>3. q \in Int /\ p \in Int /\ p <= x /\ x < p + MediaScale
    BY <2>2, <1>3, DivisionBounds
  <2> HIDE DEF p
  <2>4. y <= p
    BY <2>1, <2>3, <1>3 DEF x
  <2> HIDE DEF q
  <2>5. 0 <= q
    <3>1. SUFFICES ASSUME q <= -1 PROVE FALSE
      BY <2>3
    <3>2. p <= (-1) * MediaScale /\ (-1) * MediaScale = - MediaScale
      BY <3>1, <2>3, <1>3, ScalingKeepsOrder DEF p
    <3> QED  BY <3>2, <2>1, <2>3, <2>4, <1>3
  <2>6. span = q
    BY DEF q, x, y
  <2> QED  BY <2>3, <2>4, <2>5, <2>6 DEF p, y
<1> HIDE DEF span
<1>12. pts \in [1 .. N -> Int] /\ \A i \in 1 .. N : order[i] \in 1 .. N /\ pts[i] = time(order[i])
  <2>1. \A i \in 1 .. N : order[i] \in 1 .. N
    BY <1>6
  <2> HIDE DEF N
  <2> QED  BY <2>1, <1>4, <1>6
<1> HIDE DEF pts
<1>13. m \in Movie
  <2>1. pts \in Row
    <3> HIDE DEF N
    <3> QED  BY <1>5, <1>12 DEF Row
  <2>2. <<>> \in Row
    <3>1. <<>> \in [1 .. 0 -> Int]
      OBVIOUS
    <3> QED  BY <3>1 DEF Row
  <2>3. lead + span \in Nat
    BY <1>11
  <2> HIDE DEF N
  <2> QED  BY <1>1, <1>10, <1>11, <2>1, <2>2, <2>3 DEF Movie
<1>14. /\ m.pts = pts /\ m.mediaTime = begin /\ m.dts = <<>> /\ m.span = span
       /\ m.length = m.lead + m.span
  BY <1>1
<1>14a. \A i, j \in 1 .. N : m.pts[i] = m.pts[j] => i = j
  <2> SUFFICES ASSUME NEW i \in 1 .. N, NEW j \in 1 .. N, m.pts[i] = m.pts[j] PROVE i = j
    OBVIOUS
  <2> HIDE DEF N
  <2>1. order[i] \in 1 .. N /\ order[j] \in 1 .. N /\ time(order[i]) = time(order[j])
    BY <1>12, <1>14
  <2>2. order[i] = order[j]
    BY <2>1, <1>8
  <2> QED  BY <2>2, <1>6
<1>15. Pictures(m) = 1 .. N
  BY <1>12, <1>14 DEF Pictures
<1>16. Visible(m) = {i \in 1 .. N : head < order[i]}
  <2>1. \A i \in 1 .. N : pts[i] >= begin <=> ~ order[i] < head + 1
    <3> SUFFICES ASSUME NEW i \in 1 .. N PROVE pts[i] >= begin <=> ~ order[i] < head + 1  OBVIOUS
    <3>1. order[i] \in 1 .. N /\ pts[i] = time(order[i]) /\ time(order[i]) \in Int
      BY <1>4, <1>12
    <3>2. begin = time(head + 1) /\ begin \in Int
      BY <1>10
    <3>3. time(order[i]) < time(head + 1) <=> order[i] < head + 1
      BY <3>1, <1>5, <1>9
    <3> HIDE DEF N
    <3> QED  BY <3>1, <3>2, <3>3
  <2>2. \A i \in 1 .. N : ~ order[i] < head + 1 <=> head < order[i]
    BY <1>12
  <2> HIDE DEF N
  <2> QED  BY <2>1, <2>2, <1>14, <1>15 DEF Visible
<1> DEFINE place(r) == CHOOSE i \in 1 .. N : order[i] = r
           f == [k \in 1 .. n |-> place(head + k)]
<1>17. \A k \in 1 .. n : /\ head + k \in 1 .. N /\ f[k] \in 1 .. N /\ order[f[k]] = head + k
                         /\ f[k] \in Visible(m) /\ m.pts[f[k]] = time(head + k)
  <2> SUFFICES ASSUME NEW k \in 1 .. n
               PROVE  /\ head + k \in 1 .. N /\ f[k] \in 1 .. N /\ order[f[k]] = head + k
                      /\ f[k] \in Visible(m) /\ m.pts[f[k]] = time(head + k)
    OBVIOUS
  <2>1. head + k \in 1 .. N /\ head < head + k
    BY <1>5
  <2>2. \E i \in 1 .. N : order[i] = head + k
    BY <2>1, <1>6
  <2>3. f[k] \in 1 .. N /\ order[f[k]] = head + k
    BY <2>2
  <2> HIDE DEF f, N
  <2> QED  BY <2>1, <2>3, <1>12, <1>14, <1>16
<1> HIDE DEF f
<1>18. f \in [1 .. n -> Visible(m)]
  BY <1>17 DEF f
<1>19. \A k, l \in 1 .. n : k < l => m.pts[f[k]] < m.pts[f[l]]
  <2> SUFFICES ASSUME NEW k \in 1 .. n, NEW l \in 1 .. n, k < l PROVE m.pts[f[k]] < m.pts[f[l]]
    OBVIOUS
  <2>1. head + k < head + l /\ head + k \in 1 .. N /\ head + l \in 1 .. N
    BY <1>17, <1>5
  <2>2. time(head + k) < time(head + l)
    BY <2>1, <1>4
  <2> QED  BY <2>2, <1>17
<1>20. \A i \in Visible(m) : \E k \in 1 .. n : f[k] = i
  <2> SUFFICES ASSUME NEW i \in Visible(m) PROVE \E k \in 1 .. n : f[k] = i  OBVIOUS
  <2>1. i \in 1 .. N /\ head < order[i] /\ order[i] \in 1 .. N
    BY <1>12, <1>16
  <2>2. order[i] - head \in 1 .. n /\ head + (order[i] - head) = order[i]
    BY <2>1, <1>5
  <2>3. order[f[order[i] - head]] = order[i] /\ f[order[i] - head] \in 1 .. N
    BY <2>2, <1>17
  <2>4. f[order[i] - head] = i
    BY <2>1, <2>3, <1>6
  <2> QED  BY <2>2, <2>4
<1>21. Tells(Visible(m), m.pts)
  <2>1. \A i \in 1 .. N : m.pts[i] \in Int
    BY <1>12, <1>14
  <2>2. \A i, j \in 1 .. N : m.pts[i] = m.pts[j] => i = j
    BY <1>14a
  <2>3. Visible(m) \in SUBSET (1 .. N)
    BY <1>16
  <2> HIDE DEF N
  <2> QED  BY <2>1, <2>2, <2>3 DEF Tells
<1>22. Cardinality(Visible(m)) = n /\ InView(m) = f
  <2> HIDE DEF n
  <2>1. n \in Nat
    BY <1>2
  <2>2. Cardinality(Visible(m)) = n /\ InOrder(Visible(m), m.pts) = f
    <3>1. RisesThrough(f, n, Visible(m), m.pts)
      BY ONLY <2>1, <1>18, <1>19, <1>20 DEF RisesThrough
    <3> QED  BY <3>1, <1>21, InOrderIs
  <2> QED  BY <2>2 DEF InView
<1>23. Timed(m)
  <2>1. m.pts \in [1 .. N -> Int]
    BY <1>12, <1>14
  <2>2. IsInjective(m.pts)
    <3>1. DOMAIN m.pts = 1 .. N
      BY <2>1
    <3>2. \A i, j \in 1 .. N : m.pts[i] = m.pts[j] => i = j
      BY <1>14a
    <3> HIDE DEF N
    <3> QED  BY <3>1, <3>2 DEF IsInjective
  <2>3. m.mediaTime \in Times(m)
    <3>1. 1 \in 1 .. n
      BY <1>5
    <3>2. f[1] \in 1 .. N /\ m.pts[f[1]] = time(head + 1)
      BY <3>1, <1>17
    <3>3. m.mediaTime = m.pts[f[1]]
      BY <3>2, <1>10, <1>14
    <3> HIDE DEF N
    <3> QED  BY <3>2, <3>3, <1>15 DEF Times
  <2> HIDE DEF N
  <2> QED  BY <2>1, <2>2, <2>3, <1>5 DEF Timed
<1>24. ASSUME NEW i \in Visible(m), NEW j \in Visible(m), m.pts[i] < m.pts[j]
       PROVE  2 * (m.pts[j] - m.pts[i]) >= STEP
  <2>1. /\ order[i] \in 1 .. N /\ order[j] \in 1 .. N /\ head < order[i]
        /\ m.pts[i] = time(order[i]) /\ m.pts[j] = time(order[j])
    BY <1>12, <1>14, <1>16
  <2>2. order[i] < order[j]
    BY <2>1, <1>9, <1>24
  <2> QED  BY <2>1, <2>2, <1>4
<1>25. ASSUME NEW i \in Visible(m)
       PROVE  (m.pts[i] - m.mediaTime + STEP) * MovieScale <= m.span * MediaScale
  <2>1. order[i] \in 1 .. N /\ m.pts[i] = time(order[i]) /\ time(order[i]) \in Int /\ time(N) \in Int
    BY <1>4, <1>5, <1>12, <1>14, <1>16
  <2>2. ~ time(N) < time(order[i])
    <3>1. ~ N < order[i]
      BY <2>1, <1>5
    <3> QED  BY <2>1, <3>1, <1>5, <1>9
  <2>3. m.pts[i] - m.mediaTime + STEP <= end - begin /\ m.pts[i] - m.mediaTime + STEP \in Int
    <3> DEFINE v == time(order[i])
               w == time(N)
    <3>1. m.pts[i] = v /\ m.mediaTime = begin
      BY <2>1, <1>14
    <3>2. /\ v \in Int /\ w \in Int /\ ~ w < v /\ end = w + STEP
          /\ begin \in Int /\ end \in Int /\ STEP \in Nat
      BY <2>1, <2>2, <1>3, <1>10
    <3> HIDE DEF v, w
    <3>3. v - begin + STEP <= end - begin /\ v - begin + STEP \in Int
      BY ONLY <3>2
    <3> QED  BY <3>1, <3>3
  <2> DEFINE x == m.pts[i] - m.mediaTime + STEP
             y == end - begin
             z == span * MediaScale
  <2>4. x * MovieScale \in Int /\ y * MovieScale \in Int /\ x * MovieScale <= y * MovieScale
        /\ y * MovieScale <= z /\ z \in Int
    <3>1. y \in Int /\ x \in Int /\ x <= y
      BY <2>3, <1>10
    <3>2. y * MovieScale <= z /\ z \in Int
      BY <1>3, <1>11
    <3> HIDE DEF x, y, z
    <3> QED  BY <3>1, <3>2, <1>3, ScalingKeepsOrder
  <2>5. x * MovieScale <= z
    <3> DEFINE a == x * MovieScale
               b == y * MovieScale
    <3>1. a \in Int /\ b \in Int /\ z \in Int /\ a <= b /\ b <= z
      BY <2>4
    <3> HIDE DEF a, b, z
    <3>2. a <= z
      BY <3>1
    <3> QED  BY <3>2 DEF a
  <2> QED  BY <2>5, <1>14
<1>26. \A k \in 1 .. frames : m.pts[InView(m)[k]] = Nearest((head + k) * STEP, base)
  <2> SUFFICES ASSUME NEW k \in 1 .. size
               PROVE  m.pts[f[k]] = Nearest((head + k) * STEP, base)
    BY <1>22
  <2>1. k \in 1 .. n
    BY <1>5
  <2> QED  BY <2>1, <1>4, <1>17
<1>27. frames \in 1 .. Cardinality(Visible(m))
  BY <1>5, <1>22
<1> QED  BY <1>13, <1>14, <1>23, <1>24, <1>25, <1>26, <1>27 DEF IsCopy
-----------------------------------------------------------------------------
\* The visible pictures keep their order on the grid, and the hidden ones come before.
LEMMA SnappedKeepsTheView ==
  ASSUME NEW m, Timed(m), IsInjective(Snapped(m))
  PROVE  /\ Snapped(m) \in [Pictures(m) -> Int]
         /\ \A i, j \in Pictures(m) : Snapped(m)[i] = Snapped(m)[j] => i = j
         /\ Nearest(m.mediaTime, STEP) \in Int
         /\ \A i \in Visible(m) : /\ Snapped(m)[i] = Nearest(m.pts[i], STEP)
                                  /\ Nearest(m.mediaTime, STEP) <= Snapped(m)[i]
         /\ \E i \in Visible(m) : Snapped(m)[i] = Nearest(m.mediaTime, STEP)
         /\ \A i \in Pictures(m) : i \notin Visible(m) => Snapped(m)[i] < Nearest(m.mediaTime, STEP)
         /\ \A i, j \in Visible(m) : m.pts[i] < m.pts[j] => Snapped(m)[i] + STEP <= Snapped(m)[j]
<1> DEFINE shown == Visible(m)
           hidden == Pictures(m) \ shown
           first == Least({Nearest(m.pts[i], STEP) : i \in shown})
           later(i) == Cardinality({j \in hidden : j >= i})
           mt == m.mediaTime
           sp == Snapped(m)
<1>1. sp = [i \in Pictures(m) |-> IF i \in shown THEN Nearest(m.pts[i], STEP)
                                  ELSE first - later(i) * STEP]
  BY DEF Snapped
<1>2. /\ IsFiniteSet(Pictures(m)) /\ m.pts \in [Pictures(m) -> Int]
      /\ shown \in SUBSET Pictures(m) /\ mt \in Int /\ Pictures(m) \in SUBSET Nat
  <2>1. Pictures(m) = 1 .. Cardinality(Pictures(m)) /\ Cardinality(Pictures(m)) \in Nat
    BY TimedPictures
  <2>2. Pictures(m) \in SUBSET Nat
    <3> DEFINE c == Cardinality(Pictures(m))
    <3>1. Pictures(m) = 1 .. c /\ c \in Nat
      BY <2>1
    <3> HIDE DEF c
    <3> QED  BY <3>1
  <2> QED  BY <2>2, TimedPictures
<1>3. STEP \in Nat \ {0}
  BY CutAssumption
<1>4. \A v, w \in Int : v <= w => /\ Nearest(v, STEP) \in Int /\ Nearest(w, STEP) \in Int
                                  /\ Nearest(v, STEP) <= Nearest(w, STEP)
  BY <1>3, RoundingKeepsOrder
<1>5. \A v \in Int : Nearest(v, STEP) \in Int
  <2> SUFFICES ASSUME NEW v \in Int PROVE Nearest(v, STEP) \in Int  OBVIOUS
  <2>1. v <= v
    OBVIOUS
  <2> QED  BY <2>1, <1>4
<1>6. PICK z \in shown : m.pts[z] = mt
  <2>1. PICK i \in Pictures(m) : m.pts[i] = mt
    BY DEF Timed, Times
  <2> QED  BY <2>1, <1>2 DEF Visible
<1>7. \A i \in shown : m.pts[i] \in Int /\ mt <= m.pts[i] /\ Nearest(mt, STEP) <= Nearest(m.pts[i], STEP)
  <2> SUFFICES ASSUME NEW i \in shown
               PROVE  m.pts[i] \in Int /\ mt <= m.pts[i] /\ Nearest(mt, STEP) <= Nearest(m.pts[i], STEP)
    OBVIOUS
  <2>1. m.pts[i] \in Int /\ m.pts[i] >= mt
    BY <1>2 DEF Visible
  <2>2. mt <= m.pts[i]
    BY <2>1, <1>2
  <2> QED  BY <2>1, <2>2, <1>2, <1>4
<1>8. first = Nearest(mt, STEP)
  <2> DEFINE S == {Nearest(m.pts[i], STEP) : i \in shown}
  <2>1. S \in SUBSET Int
    BY <1>5, <1>7
  <2>2. Nearest(mt, STEP) \in S
    BY <1>6
  <2>3. \A y \in S : Nearest(mt, STEP) <= y
    BY <1>7
  <2> HIDE DEF S
  <2>4. Least(S) = Nearest(mt, STEP)
    BY <2>1, <2>2, <2>3, LeastIs
  <2> QED  BY <2>4 DEF S
<1>9. \A i \in hidden : later(i) \in Nat \ {0}
  <2> SUFFICES ASSUME NEW i \in hidden PROVE later(i) \in Nat \ {0}  OBVIOUS
  <2> DEFINE L == {j \in hidden : j >= i}
  <2>1. L \in SUBSET Pictures(m) /\ i \in L
    BY <1>2
  <2> HIDE DEF L
  <2>2. IsFiniteSet(L)
    BY <2>1, <1>2, FS_Subset
  <2>3. Cardinality(L) \in Nat /\ Cardinality(L) # 0
    BY <2>1, <2>2, FS_CardinalityType, FS_EmptySet
  <2>4. Cardinality(L) \in Nat \ {0}
    BY <2>3
  <2> QED  BY <2>4 DEF L
<1> HIDE DEF first, later, sp
<1>10. first \in Int
  BY <1>2, <1>5, <1>8
<1>11. ASSUME NEW i \in Pictures(m), i \notin shown
       PROVE  sp[i] \in Int /\ sp[i] < first
  <2> DEFINE l == later(i)
  <2>1. l \in Nat \ {0} /\ sp[i] = first - l * STEP
    BY <1>1, <1>9, <1>11
  <2> HIDE DEF l
  <2>2. 0 * STEP = 0 /\ l * STEP \in Int /\ 0 * STEP + STEP <= l * STEP
    BY <2>1, <1>3, MultiplesLieApart
  <2> DEFINE x == l * STEP
  <2>3. x \in Int /\ x > 0 /\ sp[i] = first - x
    BY <2>1, <2>2, <1>3
  <2> HIDE DEF x
  <2> QED  BY <2>3, <1>10
<1>12. \A i \in shown : sp[i] = Nearest(m.pts[i], STEP) /\ sp[i] \in Int
  BY <1>1, <1>2, <1>5, <1>7
<1>13. sp \in [Pictures(m) -> Int]
  <2>1. \A i \in Pictures(m) : sp[i] \in Int
    BY <1>11, <1>12
  <2> QED  BY <2>1, <1>1
<1>14. \A i, j \in Pictures(m) : sp[i] = sp[j] => i = j
  <2>1. IsInjective(sp)
    BY DEF sp
  <2> QED  BY <2>1, <1>13 DEF IsInjective
<1>15. ASSUME NEW i \in shown, NEW j \in shown, m.pts[i] < m.pts[j]
       PROVE  sp[i] + STEP <= sp[j]
  <2>1. m.pts[i] \in Int /\ m.pts[j] \in Int /\ m.pts[i] <= m.pts[j] /\ m.pts[i] # m.pts[j]
    BY <1>7, <1>15
  <2>2. sp[i] <= sp[j]
    BY <2>1, <1>4, <1>12
  <2>3. sp[i] # sp[j]
    BY <2>1, <1>2, <1>14
  <2>0. \A v \in Int : \E p \in Int : Nearest(v, STEP) = p * STEP
    <3> SUFFICES ASSUME NEW v \in Int PROVE \E p \in Int : Nearest(v, STEP) = p * STEP
      OBVIOUS
    <3>1. PICK p \in Int : Nearest(v, STEP) = p * STEP
      BY <1>3, RoundedIsNear
    <3> QED  BY <3>1
  <2>4. PICK p \in Int : sp[i] = p * STEP
    BY <2>0, <2>1, <1>12
  <2>5. PICK q \in Int : sp[j] = q * STEP
    BY <2>0, <2>1, <1>12
  <2>6. p * STEP \in Int /\ q * STEP \in Int
    BY <1>3
  <2>7. CASE q < p
    <3>1. q * STEP + STEP <= p * STEP
      BY <2>7, <1>3, MultiplesLieApart
    <3> DEFINE x == p * STEP
               y == q * STEP
    <3>2. x \in Int /\ y \in Int /\ y + STEP <= x /\ x <= y
      BY <3>1, <2>2, <2>4, <2>5, <2>6
    <3> HIDE DEF x, y
    <3>3. FALSE
      BY <3>2, <1>3
    <3> QED  BY <3>3
  <2>8. CASE p < q
    <3>1. p * STEP + STEP <= q * STEP
      BY <2>8, <1>3, MultiplesLieApart
    <3> QED  BY <3>1, <2>4, <2>5
  <2>9. CASE p = q
    BY <2>3, <2>4, <2>5, <2>9
  <2> QED  BY <2>7, <2>8, <2>9
<1>16. \A i \in shown : Nearest(mt, STEP) <= sp[i]
  BY <1>7, <1>12
<1>17. sp[z] = Nearest(mt, STEP)
  BY <1>6, <1>12
<1>18. \A i \in Pictures(m) : i \notin shown => sp[i] < Nearest(mt, STEP)
  BY <1>8, <1>11
<1> QED  BY <1>5, <1>2, <1>12, <1>13, <1>14, <1>15, <1>16, <1>17, <1>18, <1>6 DEF sp
-----------------------------------------------------------------------------
\* Decode times that a player can follow.
Decodes(m) ==
  /\ DOMAIN m.dts = Pictures(m) /\ m.dts[1] = 0
  /\ \A i, j \in Pictures(m) : i < j => m.dts[i] < m.dts[j]
  /\ \A i \in Pictures(m) : m.dts[i] <= m.pts[i]

\* What the rebuilding of the times does: it shifts the times on the grid.
LEMMA ConformedMovie ==
  ASSUME NEW m \in Movie, Timed(m), IsInjective(Snapped(m)), NEW c, c = Conformed(m)
  PROVE  /\ c \in Movie /\ Pictures(c) = Pictures(m)
         /\ c.span = m.span /\ c.lead = m.lead /\ c.sound = m.sound /\ c.length = m.length
         /\ \E shift \in Int : /\ c.mediaTime = Nearest(m.mediaTime, STEP) - shift
                               /\ \A i \in Pictures(m) : c.pts[i] = Snapped(m)[i] - shift
         /\ Decodes(c)
<1> DEFINE pts == Snapped(m)
           S == {pts[i] : i \in DOMAIN pts}
           sorted == Ascending(S)
           D == {sorted[i] - pts[i] : i \in DOMAIN pts}
           delay == Greatest(D)
           base == sorted[1] - delay
           first == Least({pts[i] : i \in Visible(m)})
           newPts == [i \in DOMAIN pts |-> pts[i] - base]
           newDts == [i \in DOMAIN pts |-> sorted[i] - delay - base]
           N == Cardinality(Pictures(m))
           mt == Nearest(m.mediaTime, STEP)
<1>1. c = [m EXCEPT !.pts = newPts, !.dts = newDts, !.mediaTime = first - base]
  BY DEF Conformed
<1>2. /\ IsFiniteSet(Pictures(m)) /\ N \in Nat /\ Pictures(m) = 1 .. N
      /\ Visible(m) \in SUBSET Pictures(m)
  BY TimedPictures
<1>3. /\ pts \in [Pictures(m) -> Int] /\ \A i, j \in Pictures(m) : pts[i] = pts[j] => i = j
      /\ mt \in Int /\ \A i \in Visible(m) : mt <= pts[i]
      /\ \E i \in Visible(m) : pts[i] = mt
  BY SnappedKeepsTheView
<1> HIDE DEF pts, N, mt
<1>4. pts \in [1 .. N -> Int] /\ DOMAIN pts = 1 .. N
  BY <1>2, <1>3
<1>5. 1 \in 1 .. N
  <2>1. PICK i \in 1 .. N : TRUE
    BY <1>2, <1>3
  <2> QED  BY <2>1, <1>2
<1>6. S \in SUBSET Int /\ IsFiniteSet(S) /\ Cardinality(S) = N
  <2>1. S \in SUBSET Int
    BY <1>4
  <2>2. pts \in [1 .. N -> S] /\ \A x \in S : \E i \in 1 .. N : pts[i] = x
    BY <1>4
  <2>3. \A i, j \in 1 .. N : pts[i] = pts[j] => i = j
    BY <1>2, <1>3
  <2> HIDE DEF S
  <2>4. pts \in Surjection(1 .. N, S) /\ pts \in Injection(1 .. N, S)
    BY <2>2, <2>3 DEF Surjection, Injection, IsInjective
  <2>5. IsFiniteSet(1 .. N) /\ Cardinality(1 .. N) = N
    BY <1>2, FS_Interval
  <2>6. IsFiniteSet(S) /\ Cardinality(S) = Cardinality(1 .. N)
    BY <2>4, <2>5, FS_Surjection
  <2> QED  BY <2>1, <2>5, <2>6
<1>7. /\ sorted \in [1 .. N -> Int]
      /\ \A k, l \in 1 .. N : k < l => sorted[k] < sorted[l]
  <2> HIDE DEF S
  <2>1. /\ Ascending(S) \in [1 .. Cardinality(S) -> S]
        /\ \A k, l \in 1 .. Cardinality(S) : k < l => Ascending(S)[k] < Ascending(S)[l]
    BY <1>6, AscendingSorts
  <2> QED  BY <2>1, <1>6
<1> HIDE DEF S, sorted
<1>8. delay \in Int /\ \A i \in 1 .. N : sorted[i] - pts[i] <= delay
  <2> DEFINE gap == [i \in 1 .. N |-> sorted[i] - pts[i]]
  <2>1. gap \in [1 .. N -> Int]
    BY <1>4, <1>7
  <2>2. \A i \in 1 .. N : gap[i] \in D
    BY <1>4
  <2>3. \A x \in D : \E i \in 1 .. N : gap[i] = x
    BY <1>4
  <2> HIDE DEF gap, D
  <2>4. gap \in Surjection(1 .. N, D)
    BY <2>1, <2>2, <2>3 DEF Surjection
  <2>5. IsFiniteSet(1 .. N)
    BY <1>2, FS_Interval
  <2>6. IsFiniteSet(D)
    BY <2>4, <2>5, FS_Surjection
  <2>7. D \in SUBSET Int /\ D # {}
    BY <2>1, <2>2, <2>3, <1>5
  <2>8. Greatest(D) \in D /\ \A y \in D : y <= Greatest(D)
    BY <2>6, <2>7, GreatestIsThere
  <2>9. delay \in Int /\ \A i \in 1 .. N : gap[i] <= delay
    BY <2>2, <2>7, <2>8
  <2> QED  BY <2>9 DEF gap
<1> HIDE DEF delay
<1>9. base \in Int /\ base = sorted[1] - delay
  BY <1>5, <1>7, <1>8
<1> HIDE DEF base
<1>10. first = mt
  <2> DEFINE V == {pts[i] : i \in Visible(m)}
  <2>1. V \in SUBSET Int /\ mt \in V /\ \A y \in V : mt <= y
    BY <1>2, <1>3
  <2> HIDE DEF V
  <2>2. Least(V) = mt
    BY <2>1, LeastIs
  <2> QED  BY <2>2 DEF V
<1> HIDE DEF first
<1>11. newPts \in [1 .. N -> Int] /\ \A i \in 1 .. N : newPts[i] = pts[i] - base
  <2>1. DOMAIN pts = 1 .. N /\ \A i \in 1 .. N : pts[i] - base \in Int
    BY <1>4, <1>9
  <2> QED  BY <2>1
<1>12. newDts \in [1 .. N -> Int] /\ \A i \in 1 .. N : newDts[i] = sorted[i] - delay - base
  <2>1. DOMAIN pts = 1 .. N /\ \A i \in 1 .. N : sorted[i] - delay - base \in Int
    BY <1>4, <1>7, <1>8, <1>9
  <2> QED  BY <2>1
<1> HIDE DEF newPts, newDts
<1>13. /\ c \in Movie /\ c.pts = newPts /\ c.dts = newDts /\ c.mediaTime = first - base
       /\ c.span = m.span /\ c.lead = m.lead /\ c.sound = m.sound /\ c.length = m.length
  <2>1. newPts \in Row /\ newDts \in Row
    BY <1>2, <1>11, <1>12 DEF Row
  <2>2. first - base \in Int
    BY <1>3, <1>9, <1>10
  <2> QED  BY <1>1, <2>1, <2>2 DEF Movie
<1>14. Pictures(c) = 1 .. N
  BY <1>11, <1>13 DEF Pictures
<1>15. Decodes(c)
  <2>1. DOMAIN c.dts = Pictures(c)
    BY <1>12, <1>13, <1>14
  <2>2. c.dts[1] = 0
    BY <1>5, <1>7, <1>8, <1>9, <1>12, <1>13
  <2>3. ASSUME NEW i \in 1 .. N, NEW j \in 1 .. N, i < j
        PROVE  c.dts[i] < c.dts[j]
    <3>1. sorted[i] < sorted[j] /\ sorted[i] \in Int /\ sorted[j] \in Int
      BY <2>3, <1>7
    <3>2. newDts[i] = sorted[i] - delay - base /\ newDts[j] = sorted[j] - delay - base
      BY <1>12
    <3>3. newDts[i] < newDts[j]
      BY <3>1, <3>2, <1>8, <1>9
    <3> QED  BY <3>3, <1>13
  <2>4. ASSUME NEW i \in 1 .. N
        PROVE  c.dts[i] <= c.pts[i]
    <3>1. sorted[i] - pts[i] <= delay /\ sorted[i] \in Int /\ pts[i] \in Int
      BY <1>4, <1>7, <1>8
    <3>2. newDts[i] = sorted[i] - delay - base /\ newPts[i] = pts[i] - base
      BY <1>11, <1>12
    <3>3. newDts[i] <= newPts[i]
      BY <3>1, <3>2, <1>8, <1>9
    <3> QED  BY <3>3, <1>13
  <2> QED  BY <2>1, <2>2, <2>3, <2>4, <1>14 DEF Decodes
<1>16. /\ c.mediaTime = mt - base
       /\ \A i \in Pictures(m) : c.pts[i] = pts[i] - base
  BY <1>2, <1>10, <1>11, <1>13
<1> QED  BY <1>2, <1>9, <1>13, <1>14, <1>15, <1>16 DEF pts, mt
-----------------------------------------------------------------------------
\* The grid gives a frame its time back, however the copy rounded it.
LEMMA TheGridIsRegained ==
  ASSUME NEW q \in Int, NEW base \in 1 .. STEP
  PROVE  Nearest(Nearest(q * STEP, base), STEP) = q * STEP /\ q * STEP \in Int
<1> DEFINE v == q * STEP
           r == Nearest(v, base)
<1>1. STEP \in Nat \ {0} /\ base \in Nat \ {0} /\ base <= STEP /\ v \in Int
  BY CutAssumption
<1>2. Nearest(v, STEP) = v
  <2>1. - STEP <= 2 * v - 2 * v /\ 2 * v - 2 * v < STEP
    <3> HIDE DEF v
    <3> QED  BY <1>1
  <2> QED  BY <2>1, <1>1, RoundedIs
<1>3. CASE base = STEP
  BY <1>1, <1>2, <1>3
<1>4. CASE base < STEP
  <2>1. \E p \in Int : /\ r = p * base /\ p * base \in Int
                       /\ - base <= 2 * v - 2 * (p * base)
                       /\ 2 * v - 2 * (p * base) < base
    <3> HIDE DEF v
    <3> QED  BY <1>1, RoundedIsNear
  <2>2. r \in Int /\ - base <= 2 * v - 2 * r /\ 2 * v - 2 * r < base
    BY <2>1
  <2> HIDE DEF r
  <2>3. - STEP <= 2 * r - 2 * v /\ 2 * r - 2 * v < STEP
    <3> HIDE DEF v
    <3> QED  BY <2>2, <1>1, <1>4
  <2>4. Nearest(r, STEP) = q * STEP
    BY <2>2, <2>3, <1>1, RoundedIs
  <2> QED  BY <2>4, <1>1 DEF r
<1> QED  BY <1>1, <1>3, <1>4

\* On the grid a copy shows the same pictures in the same order, each of the shot a
\* frame after the one before.
LEMMA ConformedKeepsTheView ==
  ASSUME NEW m, IsCopy(m), OnGrid(m), IsInjective(Snapped(m)), NEW c, c = Conformed(m)
  PROVE  /\ Timed(c) /\ Roomy(c) /\ Visible(c) = Visible(m) /\ InView(c) = InView(m)
         /\ \A k \in 1 .. frames : c.pts[InView(m)[k]] = c.mediaTime + (k - 1) * STEP
<1> DEFINE sp == Snapped(m)
           mt == Nearest(m.mediaTime, STEP)
           n == Cardinality(Visible(m))
           s == InView(m)
<1>1. /\ m \in Movie /\ Timed(m) /\ frames \in 1 .. n
      /\ \A i \in Visible(m) : (m.pts[i] - m.mediaTime + STEP) * MovieScale <= m.span * MediaScale
      /\ \E head \in Nat, base \in 1 .. STEP :
           \A k \in 1 .. frames : m.pts[s[k]] = Nearest((head + k) * STEP, base)
  BY DEF IsCopy
<1>2. /\ m.pts \in [Pictures(m) -> Int] /\ Visible(m) \in SUBSET Pictures(m)
      /\ m.mediaTime \in Int /\ IsFiniteSet(Visible(m))
      /\ Pictures(m) = 1 .. Cardinality(Pictures(m)) /\ Cardinality(Pictures(m)) \in Nat
  BY <1>1, TimedPictures
<1>3. /\ STEP \in Nat \ {0} /\ MovieScale \in Nat \ {0} /\ MediaScale \in Nat \ {0}
  BY CutAssumption
<1>4. /\ sp \in [Pictures(m) -> Int] /\ \A i, j \in Pictures(m) : sp[i] = sp[j] => i = j
      /\ mt \in Int
      /\ \A i \in Visible(m) : sp[i] = Nearest(m.pts[i], STEP) /\ mt <= sp[i]
      /\ \E i \in Visible(m) : sp[i] = mt
      /\ \A i \in Pictures(m) : i \notin Visible(m) => sp[i] < mt
      /\ \A i, j \in Visible(m) : m.pts[i] < m.pts[j] => sp[i] + STEP <= sp[j]
  BY <1>1, SnappedKeepsTheView
<1>5. /\ c \in Movie /\ Pictures(c) = Pictures(m) /\ c.span = m.span
      /\ \E shift \in Int : /\ c.mediaTime = mt - shift
                            /\ \A i \in Pictures(m) : c.pts[i] = sp[i] - shift
  BY <1>1, ConformedMovie
<1>6. PICK shift \in Int : c.mediaTime = mt - shift /\ \A i \in Pictures(m) : c.pts[i] = sp[i] - shift
  BY <1>5
<1>7. \A i \in Visible(m) : /\ i \in Pictures(m) /\ sp[i] \in Int /\ m.pts[i] \in Int
                            /\ c.pts[i] = sp[i] - shift /\ c.pts[i] \in Int
  BY <1>2, <1>4, <1>6
<1>8. OnGrid(m) => \A i \in Visible(m) : /\ 3 * (m.pts[i] - Nearest(m.pts[i], STEP)) <= STEP
                                         /\ -3 * (m.pts[i] - Nearest(m.pts[i], STEP)) <= STEP
  BY DEF OnGrid
<1> HIDE DEF sp, mt
<1>9. \A i \in Pictures(m) : c.pts[i] >= c.mediaTime <=> i \in Visible(m)
  <2> SUFFICES ASSUME NEW i \in Pictures(m)
               PROVE  c.pts[i] >= c.mediaTime <=> i \in Visible(m)
    OBVIOUS
  <2>1. sp[i] \in Int /\ c.pts[i] = sp[i] - shift
    BY <1>4, <1>6
  <2>2. c.pts[i] >= c.mediaTime <=> ~ sp[i] < mt
    BY <2>1, <1>4, <1>6
  <2>3. i \in Visible(m) => ~ sp[i] < mt
    BY <2>1, <1>4
  <2> QED  BY <2>2, <2>3, <1>4
<1>10. Visible(c) = Visible(m)
  <2>1. Visible(c) = {i \in Pictures(m) : c.pts[i] >= c.mediaTime}
    BY <1>5 DEF Visible
  <2> QED  BY <2>1, <1>2, <1>9
<1>11. Timed(c)
  <2>1. \E l \in Nat : c.pts \in [1 .. l -> Int]
    BY <1>5 DEF Movie, Row
  <2>2. IsInjective(c.pts)
    <3>1. \A i, j \in Pictures(m) : c.pts[i] = c.pts[j] => i = j
      <4> SUFFICES ASSUME NEW i \in Pictures(m), NEW j \in Pictures(m), c.pts[i] = c.pts[j]
                   PROVE  i = j
        OBVIOUS
      <4>1. sp[i] \in Int /\ sp[j] \in Int /\ sp[i] - shift = sp[j] - shift
        BY <1>4, <1>6
      <4>2. sp[i] = sp[j]
        BY <4>1
      <4> QED  BY <4>2, <1>4
    <3>2. DOMAIN c.pts = Pictures(m)
      BY <1>5 DEF Pictures
    <3> QED  BY <3>1, <3>2 DEF IsInjective
  <2>3. c.mediaTime \in Times(c)
    <3>1. PICK i \in Visible(m) : sp[i] = mt
      BY <1>4
    <3>2. i \in Pictures(c) /\ c.pts[i] = c.mediaTime
      BY <3>1, <1>5, <1>6, <1>7
    <3> QED  BY <3>2 DEF Times
  <2> QED  BY <2>1, <2>2, <2>3 DEF Timed
<1>12. \A i, j \in Visible(m) : m.pts[i] < m.pts[j] => c.pts[i] + STEP <= c.pts[j]
  <2> SUFFICES ASSUME NEW i \in Visible(m), NEW j \in Visible(m), m.pts[i] < m.pts[j]
               PROVE  c.pts[i] + STEP <= c.pts[j]
    OBVIOUS
  <2>1. sp[i] + STEP <= sp[j]
    BY <1>4
  <2> QED  BY <2>1, <1>3, <1>7
<1>13. \A i, j \in Visible(m) : c.pts[i] < c.pts[j] => m.pts[i] < m.pts[j]
  <2> SUFFICES ASSUME NEW i \in Visible(m), NEW j \in Visible(m), c.pts[i] < c.pts[j],
                      ~ m.pts[i] < m.pts[j]
               PROVE  FALSE
    OBVIOUS
  <2>1. m.pts[i] \in Int /\ m.pts[j] \in Int /\ c.pts[i] \in Int /\ c.pts[j] \in Int
    BY <1>7
  <2>2. CASE m.pts[j] < m.pts[i]
    <3>1. c.pts[j] + STEP <= c.pts[i]
      BY <2>2, <1>12
    <3> QED  BY <3>1, <2>1, <1>3
  <2>3. CASE m.pts[j] = m.pts[i]
    <3>1. i = j
      BY <2>3, <1>1, <1>7, TimedPictures
    <3> QED  BY <3>1, <2>1
  <2> QED  BY <2>1, <2>2, <2>3
<1>14. /\ n \in Nat /\ s \in [1 .. n -> Visible(m)]
       /\ \A k, l \in 1 .. n : k < l => m.pts[s[k]] < m.pts[s[l]]
       /\ \A i \in Visible(m) : \E k \in 1 .. n : s[k] = i
       /\ 1 \in 1 .. n /\ m.pts[s[1]] = m.mediaTime
  BY <1>1, ViewInOrder
<1> HIDE DEF n, s
<1>15. InView(c) = s
  <2>1. Tells(Visible(m), c.pts)
    <3>1. \A i, j \in Visible(m) : c.pts[i] = c.pts[j] => i = j
      BY <1>4, <1>6, <1>7
    <3> QED  BY <3>1, <1>7 DEF Tells
  <2>2. \A k, l \in 1 .. n : k < l => c.pts[s[k]] < c.pts[s[l]]
    <3> SUFFICES ASSUME NEW k \in 1 .. n, NEW l \in 1 .. n, k < l
                 PROVE  c.pts[s[k]] < c.pts[s[l]]
      OBVIOUS
    <3>1. s[k] \in Visible(m) /\ s[l] \in Visible(m) /\ m.pts[s[k]] < m.pts[s[l]]
      BY <1>14
    <3>2. c.pts[s[k]] + STEP <= c.pts[s[l]]
      BY <3>1, <1>12
    <3> QED  BY <3>1, <3>2, <1>3, <1>7
  <2>3. InOrder(Visible(m), c.pts) = s
    <3>1. RisesThrough(s, n, Visible(m), c.pts)
      BY <2>2, <1>14 DEF RisesThrough
    <3> QED  BY <2>1, <3>1, InOrderIs
  <2> QED  BY <2>3, <1>10 DEF InView
<1>16. Roomy(c)
  <2>1. ASSUME NEW i \in Visible(m), NEW j \in Visible(m), c.pts[i] < c.pts[j]
        PROVE  2 * (c.pts[j] - c.pts[i]) >= STEP
    <3>1. c.pts[i] + STEP <= c.pts[j] /\ c.pts[i] \in Int /\ c.pts[j] \in Int
      BY <2>1, <1>7, <1>12, <1>13
    <3> QED  BY <3>1, <1>3
  <2>2. ASSUME NEW i \in Visible(m)
        PROVE  (c.pts[i] - c.mediaTime) * MovieScale < c.span * MediaScale
    <3> DEFINE d == c.pts[i] - c.mediaTime
               x == m.pts[i] - m.mediaTime + STEP
               z == m.span * MediaScale
    <3>1. PICK j \in Visible(m) : m.pts[j] = m.mediaTime
      BY <1>14
    <3>2. /\ 3 * (m.pts[i] - sp[i]) <= STEP /\ -3 * (m.pts[i] - sp[i]) <= STEP
          /\ 3 * (m.pts[j] - sp[j]) <= STEP /\ -3 * (m.pts[j] - sp[j]) <= STEP
      BY <1>4, <1>8
    <3>3. sp[j] = mt
      BY <3>1, <1>4 DEF mt
    <3>4. d = sp[i] - mt /\ d \in Int /\ x \in Int
      <4>1. sp[i] \in Int /\ m.pts[i] \in Int /\ c.pts[i] = sp[i] - shift
        BY <1>7
      <4>2. c.mediaTime = mt - shift /\ mt \in Int
        BY <1>4, <1>6
      <4>3. d = sp[i] - mt /\ d \in Int
        BY <4>1, <4>2
      <4>4. x \in Int
        BY <4>1, <1>2, <1>3
      <4> QED  BY <4>3, <4>4
    <3>5. d + 1 <= x
      <4>1. sp[i] \in Int /\ m.pts[i] \in Int /\ mt \in Int /\ m.mediaTime \in Int
        BY <1>2, <1>4, <1>7
      <4>2. 3 * (m.mediaTime - mt) <= STEP /\ -3 * (m.pts[i] - sp[i]) <= STEP
        BY <3>1, <3>2, <3>3
      <4> HIDE DEF d
      <4>3. sp[i] - mt < m.pts[i] - m.mediaTime + STEP
        BY <4>1, <4>2, <1>3
      <4> QED  BY <4>1, <4>3, <3>4, <1>3
    <3> HIDE DEF d, x
    <3>6. (d + 1) * MovieScale \in Int /\ x * MovieScale \in Int /\ (d + 1) * MovieScale <= x * MovieScale
      BY <3>4, <3>5, <1>3, ScalingKeepsOrder
    <3>7. d * MovieScale \in Int /\ (d + 1) * MovieScale = d * MovieScale + MovieScale
      BY <3>4, <1>3
    <3>8. x * MovieScale <= z /\ z \in Int
      BY <1>1, <1>3 DEF x, Movie
    <3> DEFINE a == d * MovieScale
               b == x * MovieScale
    <3>9. a \in Int /\ b \in Int /\ z \in Int /\ a + MovieScale <= b /\ b <= z
      BY <3>6, <3>7, <3>8
    <3> HIDE DEF a, b, z
    <3>10. a < z
      BY <3>9, <1>3
    <3> QED  BY <3>10, <1>5 DEF a, z, d
  <2> QED  BY <2>1, <2>2, <1>10 DEF Roomy
<1>17. ASSUME NEW k \in 1 .. frames
       PROVE  c.pts[s[k]] = c.mediaTime + (k - 1) * STEP
  <2>1. PICK head \in Nat, base \in 1 .. STEP :
          \A l \in 1 .. frames : m.pts[s[l]] = Nearest((head + l) * STEP, base)
    BY <1>1
  <2>2. k \in 1 .. n /\ 1 \in 1 .. frames /\ k \in Int
    BY <1>1, <1>14
  <2>3. s[k] \in Visible(m)
    BY <2>2, <1>14
  <2>4. sp[s[k]] = (head + k) * STEP /\ (head + k) * STEP \in Int
    <3>1. sp[s[k]] = Nearest(Nearest((head + k) * STEP, base), STEP)
      BY <2>1, <2>3, <1>4
    <3>2. head + k \in Int
      BY <2>2
    <3> QED  BY <3>1, <3>2, TheGridIsRegained
  <2>5. mt = (head + 1) * STEP /\ (head + 1) * STEP \in Int
    <3>1. m.mediaTime = Nearest((head + 1) * STEP, base)
      BY <2>1, <2>2, <1>14
    <3>2. head + 1 \in Int
      OBVIOUS
    <3> QED  BY <3>1, <3>2, TheGridIsRegained DEF mt
  <2>6. (head + k) * STEP = (head + 1) * STEP + (k - 1) * STEP /\ (k - 1) * STEP \in Int
    <3>1. head + k = (head + 1) + (k - 1) /\ head + 1 \in Int /\ k - 1 \in Int
      BY <2>2
    <3>2. ((head + 1) + (k - 1)) * STEP = (head + 1) * STEP + (k - 1) * STEP
      BY <3>1, <1>3, ScalingIsExact
    <3>3. (k - 1) * STEP \in Int
      BY <3>1, <1>3
    <3> QED  BY <3>1, <3>2, <3>3
  <2>7. c.pts[s[k]] = sp[s[k]] - shift
    BY <2>3, <1>7
  <2> DEFINE a == (head + 1) * STEP
             b == (k - 1) * STEP
  <2>8. a \in Int /\ b \in Int /\ c.pts[s[k]] = a + b - shift /\ c.mediaTime = a - shift
    BY <2>4, <2>5, <2>6, <2>7, <1>6
  <2> HIDE DEF a, b
  <2>9. c.pts[s[k]] = c.mediaTime + b
    BY <2>8
  <2> QED  BY <2>9 DEF b
<1> QED  BY <1>10, <1>11, <1>15, <1>16, <1>17 DEF s
-----------------------------------------------------------------------------
\* The sum of two lengths, of one or of none.
LEMMA TotalOfTwo ==
  ASSUME NEW n \in 0 .. 2, NEW s \in [1 .. n -> Int]
  PROVE  Total(s) = IF n = 0 THEN 0 ELSE IF n = 1 THEN s[1] ELSE s[1] + s[2]
<1> DEFINE is(g) == g = [k \in 0 .. n |-> IF k = 0 THEN 0 ELSE g[k - 1] + s[k]]
           w == [k \in 0 .. n |-> IF k = 0 THEN 0 ELSE IF k = 1 THEN s[1] ELSE s[1] + s[2]]
           sum == CHOOSE g : is(g)
<1>1. Len(s) = n
  <2>1. s \in Seq(Int) /\ DOMAIN s = 1 .. n /\ n \in Nat
    <3>1. n \in Nat
      OBVIOUS
    <3> QED  BY <3>1, SeqDef
  <2> QED  BY <2>1, LenProperties
<1>2. is(w)
  <2>1. \A k \in 0 .. n : w[k] = IF k = 0 THEN 0 ELSE w[k - 1] + s[k]
    <3> SUFFICES ASSUME NEW k \in 0 .. n
                 PROVE  w[k] = IF k = 0 THEN 0 ELSE w[k - 1] + s[k]
      OBVIOUS
    <3>1. CASE k = 0
      BY <3>1
    <3>2. CASE k = 1
      <4>1. 0 \in 0 .. n /\ 1 \in 0 .. n /\ 1 \in 1 .. n /\ s[1] \in Int
        BY <3>2
      <4>2. w[0] = 0 /\ w[1] = s[1]
        BY <4>1
      <4> QED  BY <3>2, <4>1, <4>2
    <3>3. CASE k = 2
      <4>1. 1 \in 0 .. n /\ 2 \in 0 .. n /\ s[1] \in Int
        BY <3>3
      <4>2. w[1] = s[1] /\ w[2] = s[1] + s[2]
        BY <4>1
      <4> QED  BY <3>3, <4>2
    <3> QED  BY <3>1, <3>2, <3>3
  <2>2. w = [k \in 0 .. n |-> w[k]]
    OBVIOUS
  <2> HIDE DEF w
  <2> QED  BY <2>1, <2>2
<1>3. is(sum)
  <2> HIDE DEF is, w
  <2> QED  BY <1>2
<1>4. Total(s) = sum[n]
  BY <1>1 DEF Total
<1> HIDE DEF sum
<1>5. \A k \in 0 .. n : sum[k] = IF k = 0 THEN 0 ELSE sum[k - 1] + s[k]
  BY <1>3
<1>6. 0 \in 0 .. n /\ sum[0] = 0
  BY <1>5
<1>7. ASSUME n # 0 PROVE sum[1] = s[1]
  <2>1. 1 \in 0 .. n /\ s[1] \in Int
    BY <1>7
  <2> QED  BY <2>1, <1>5, <1>6
<1>8. ASSUME n = 2 PROVE sum[2] = s[1] + s[2]
  <2>1. 2 \in 0 .. n
    BY <1>8
  <2> QED  BY <2>1, <1>5, <1>7, <1>8
<1> QED  BY <1>4, <1>6, <1>7, <1>8

\* The other track, cut at end, is as long as it was, or end.
LEMMA ClampedEnds ==
  ASSUME NEW s \in [1 .. 2 -> Nat], NEW end \in Nat
  PROVE  /\ Clamped(s, end) \in [1 .. 2 -> Nat]
         /\ Total(Clamped(s, end)) = Lower(Total(s), end)
<1> DEFINE c == Clamped(s, end)
<1>1. s \in Seq(Nat) /\ s \in [1 .. 2 -> Int] /\ s[1] \in Nat /\ s[2] \in Nat
  <2>1. s \in Seq(Nat)
    <3>1. 2 \in Nat
      OBVIOUS
    <3> QED  BY <3>1, SeqDef
  <2>2. \A k \in 1 .. 2 : s[k] \in Nat
    OBVIOUS
  <2>3. 1 \in 1 .. 2 /\ 2 \in 1 .. 2
    OBVIOUS
  <2> QED  BY <2>1, <2>2, <2>3
<1>2. Len(s) = 2
  BY <1>1, LenProperties
<1>3. ASSUME NEW k \in 0 .. 2
      PROVE  Total(SubSeq(s, 1, k)) = IF k = 0 THEN 0 ELSE IF k = 1 THEN s[1] ELSE s[1] + s[2]
  <2> DEFINE f == [i \in 1 .. k |-> s[i]]
  <2>1. f \in [1 .. k -> Int]
    BY <1>1
  <2>2. SubSeq(s, 1, k) = f
    BY <1>1, <1>2
  <2>3. k # 0 => f[1] = s[1]
    OBVIOUS
  <2>4. k = 2 => f[2] = s[2]
    OBVIOUS
  <2> HIDE DEF f
  <2>5. Total(f) = IF k = 0 THEN 0 ELSE IF k = 1 THEN f[1] ELSE f[1] + f[2]
    BY <2>1, TotalOfTwo
  <2>6. CASE k = 0
    BY <2>2, <2>5, <2>6
  <2>7. CASE k = 1
    BY <2>2, <2>3, <2>5, <2>7
  <2>8. CASE k = 2
    BY <2>2, <2>3, <2>4, <2>5, <2>8
  <2> QED  BY <2>6, <2>7, <2>8
<1>4. Total(s) = s[1] + s[2]
  <2>1. Total(s) = IF 2 = 0 THEN 0 ELSE IF 2 = 1 THEN s[1] ELSE s[1] + s[2]
    BY <1>1, TotalOfTwo
  <2> QED  BY <2>1
<1>5. /\ Total(SubSeq(s, 1, 0)) = 0 /\ Total(SubSeq(s, 1, 1)) = s[1]
      /\ Total(SubSeq(s, 1, 2)) = s[1] + s[2]
  BY <1>3
<1>6. /\ DOMAIN c = 1 .. 2
      /\ c[1] = Lower(s[1], end) - Lower(0, end)
      /\ c[2] = Lower(s[1] + s[2], end) - Lower(s[1], end)
  <2>1. DOMAIN s = 1 .. 2
    OBVIOUS
  <2>2. c = [k \in 1 .. 2 |-> Lower(Total(SubSeq(s, 1, k)), end) - Lower(Total(SubSeq(s, 1, k - 1)), end)]
    BY <2>1 DEF Clamped
  <2> HIDE DEF c
  <2>3. 1 - 1 = 0 /\ 2 - 1 = 1 /\ 1 \in 1 .. 2 /\ 2 \in 1 .. 2
    OBVIOUS
  <2> QED  BY <2>2, <2>3, <1>5
<1>7. c = [k \in 1 .. 2 |-> c[k]]
  BY DEF Clamped
<1> HIDE DEF c
<1>8. c[1] \in Nat /\ c[2] \in Nat /\ c[1] + c[2] = Lower(s[1] + s[2], end)
  BY <1>1, <1>6 DEF Lower
<1>9. c \in [1 .. 2 -> Nat] /\ c \in [1 .. 2 -> Int]
  BY <1>7, <1>8
<1>10. Total(c) = c[1] + c[2]
  <2>1. Total(c) = IF 2 = 0 THEN 0 ELSE IF 2 = 1 THEN c[1] ELSE c[1] + c[2]
    BY <1>9, TotalOfTwo
  <2> QED  BY <2>1
<1> QED  BY <1>4, <1>8, <1>9, <1>10 DEF c
-----------------------------------------------------------------------------
\* What a trim is given: the copy, or the copy on the grid.
Trimmable(m) ==
  /\ m \in Movie /\ Timed(m) /\ Roomy(m) /\ Pictures(m) = Pictures(copied)
  /\ Visible(m) = Visible(copied) /\ InView(m) = InView(copied)
  /\ m.span = copied.span /\ m.lead = copied.lead
  /\ m.sound = copied.sound /\ m.length = copied.length
  /\ \/ m.dts = <<>>
     \/ /\ Decodes(m)
        /\ \A k \in 1 .. frames : m.pts[InView(copied)[k]] = m.mediaTime + (k - 1) * STEP

\* A trim is given nothing else.
LEMMA CopiesAreReady ==
  ASSUME IsCopy(copied)
  PROVE  Trimmable(copied) /\ Trimmable(IF gridded THEN ConformMoov(copied) ELSE copied)
<1>1. Trimmable(copied)
  <2>1. \A i \in Visible(copied) :
          (copied.pts[i] - copied.mediaTime) * MovieScale < copied.span * MediaScale
    <3> SUFFICES ASSUME NEW i \in Visible(copied)
                 PROVE  (copied.pts[i] - copied.mediaTime) * MovieScale < copied.span * MediaScale
      OBVIOUS
    <3> DEFINE d == copied.pts[i] - copied.mediaTime
               z == copied.span * MediaScale
    <3>1. STEP \in Nat \ {0} /\ MovieScale \in Nat \ {0} /\ MediaScale \in Nat \ {0}
      BY CutAssumption
    <3>2. d \in Int /\ z \in Int
      <4>1. copied.pts[i] \in Int /\ copied.mediaTime \in Int
        BY TimedPictures DEF IsCopy
      <4>2. copied.span \in Nat
        BY DEF IsCopy, Movie
      <4> QED  BY <4>1, <4>2, <3>1
    <3>3. (d + STEP) * MovieScale <= z
      BY DEF IsCopy
    <3> HIDE DEF d, z
    <3>4. d * MovieScale \in Int /\ (d + 1) * MovieScale = d * MovieScale + MovieScale
      BY <3>1, <3>2
    <3>5. (d + 1) * MovieScale \in Int /\ (d + STEP) * MovieScale \in Int
          /\ (d + 1) * MovieScale <= (d + STEP) * MovieScale
      BY <3>1, <3>2, ScalingKeepsOrder
    <3> DEFINE a == d * MovieScale
               b == (d + STEP) * MovieScale
    <3>6. a \in Int /\ b \in Int /\ a + MovieScale <= b /\ b <= z
      BY <3>3, <3>4, <3>5
    <3> HIDE DEF a, b
    <3>7. a < z
      BY <3>1, <3>2, <3>6
    <3> QED  BY <3>7 DEF a, d, z
  <2>2. Roomy(copied)
    BY <2>1 DEF Roomy, IsCopy
  <2> QED  BY <2>2 DEF Trimmable, IsCopy
<1>2. CASE OnGrid(copied) /\ IsInjective(Snapped(copied))
  <2> DEFINE c == Conformed(copied)
  <2>0. copied \in Movie /\ Timed(copied)
    BY DEF IsCopy
  <2>1. /\ c \in Movie /\ Pictures(c) = Pictures(copied)
        /\ c.span = copied.span /\ c.lead = copied.lead
        /\ c.sound = copied.sound /\ c.length = copied.length
        /\ Decodes(c)
    BY <2>0, <1>2, ConformedMovie
  <2>2. /\ Timed(c) /\ Roomy(c) /\ Visible(c) = Visible(copied) /\ InView(c) = InView(copied)
        /\ \A k \in 1 .. frames : c.pts[InView(copied)[k]] = c.mediaTime + (k - 1) * STEP
    BY <1>2, ConformedKeepsTheView
  <2> HIDE DEF c
  <2>3. Trimmable(c)
    BY <2>1, <2>2 DEF Trimmable
  <2>4. ConformMoov(copied) = c
    BY <1>2 DEF ConformMoov, c
  <2> QED  BY <1>1, <2>3, <2>4
<1>3. CASE ~ (OnGrid(copied) /\ IsInjective(Snapped(copied)))
  <2>1. ConformMoov(copied) = copied
    BY <1>3 DEF ConformMoov
  <2> QED  BY <1>1, <2>1
<1> QED  BY <1>2, <1>3

\* What a player shows of a cut is what it shows of the copy, up to the last frame.
LEMMA CutsShowTheShot ==
  ASSUME IsCopy(copied), NEW m, Trimmable(m), movie = TrimMoov(m)
  PROVE  ShowsTheShot
<1> DEFINE n == Cardinality(Visible(copied))
           s == InView(copied)
           A == {i \in Visible(movie) :
                   (movie.pts[i] - movie.mediaTime) * MovieScale < movie.span * MediaScale}
           f == [k \in 1 .. frames |-> s[k]]
<1>1. /\ m \in Movie /\ Timed(m) /\ Roomy(m) /\ Visible(m) = Visible(copied) /\ InView(m) = s
      /\ Pictures(m) = Pictures(copied)
  BY DEF Trimmable
<1>2. Timed(copied) /\ frames \in 1 .. n
  BY DEF IsCopy
<1>3. /\ n \in Nat \ {0} /\ s \in [1 .. n -> Visible(m)]
      /\ \A k, l \in 1 .. n : k < l => m.pts[s[k]] < m.pts[s[l]]
      /\ \A i \in Visible(m) : \E k \in 1 .. n : s[k] = i
  BY <1>1, ViewInOrder
<1>4. \A k \in 1 .. n : (m.pts[s[k]] - m.mediaTime) * MovieScale < TrimMoov(m).span * MediaScale
                        <=> k <= frames
  BY <1>1, <1>2, TrimShowsTheFirst
<1>5. /\ movie.pts = m.pts /\ movie.mediaTime = m.mediaTime
  BY <1>1, TrimmedFields
<1>6. Visible(movie) = Visible(m)
  BY <1>5 DEF Visible, Pictures
<1>7. Shown(copied) = s
  <2>1. Trimmable(copied)
    BY CopiesAreReady
  <2>2. {i \in Visible(copied) : (copied.pts[i] - copied.mediaTime) * MovieScale
                                   < copied.span * MediaScale} = Visible(copied)
    BY <2>1 DEF Trimmable, Roomy
  <2> QED  BY <2>2 DEF Shown, InView
<1> HIDE DEF n, s
<1>8. \A k \in 1 .. n : s[k] \in A <=> k <= frames
  <2> SUFFICES ASSUME NEW k \in 1 .. n PROVE s[k] \in A <=> k <= frames  OBVIOUS
  <2>1. s[k] \in Visible(movie)
    BY <1>3, <1>6
  <2>2. s[k] \in A <=> (m.pts[s[k]] - m.mediaTime) * MovieScale < TrimMoov(m).span * MediaScale
    BY <2>1, <1>5
  <2> HIDE DEF A
  <2> QED  BY <2>2, <1>4
<1>9. frames \in Nat \ {0} /\ \A k \in 1 .. frames : k \in 1 .. n /\ k <= frames
  BY <1>2, <1>3
<1>10. A \in SUBSET Visible(m)
  BY <1>6
<1> HIDE DEF A
<1>11. f \in [1 .. frames -> A]
  <2>1. \A k \in 1 .. frames : s[k] \in A
    BY <1>8, <1>9
  <2> QED  BY <2>1
<1>12. \A k, l \in 1 .. frames : k < l => m.pts[f[k]] < m.pts[f[l]]
  BY <1>3, <1>9
<1>13. \A i \in A : \E k \in 1 .. frames : f[k] = i
  <2> SUFFICES ASSUME NEW i \in A PROVE \E k \in 1 .. frames : f[k] = i  OBVIOUS
  <2>1. PICK k \in 1 .. n : s[k] = i
    BY <1>3, <1>10
  <2>2. k <= frames
    BY <2>1, <1>8
  <2>3. k \in 1 .. frames
    BY <2>2, <1>9
  <2> QED  BY <2>1, <2>3
<1>14. Tells(A, m.pts)
  <2>1. /\ m.pts \in [Pictures(m) -> Int] /\ Visible(m) \in SUBSET Pictures(m)
        /\ \A i, j \in Pictures(m) : m.pts[i] = m.pts[j] => i = j
    BY <1>1, TimedPictures
  <2>2. A \in SUBSET Pictures(m)
    BY <2>1, <1>10
  <2> QED  BY <2>1, <2>2 DEF Tells
<1>15. InOrder(A, m.pts) = f
  <2>1. frames \in Nat
    BY <1>9
  <2> HIDE DEF f
  <2>2. RisesThrough(f, frames, A, m.pts)
    BY <2>1, <1>11, <1>12, <1>13 DEF RisesThrough
  <2> QED  BY <2>2, <1>14, InOrderIs
<1>16. SubSeq(s, 1, frames) = f
  <2>1. s \in Seq(Visible(m)) /\ Len(s) = n
    <3>1. n \in Nat /\ s \in [1 .. n -> Visible(m)]
      BY <1>3
    <3>2. s \in Seq(Visible(m))
      BY <3>1, SeqDef
    <3>3. DOMAIN s = 1 .. n
      BY <3>1
    <3> QED  BY <3>1, <3>2, <3>3, LenProperties
  <2> QED  BY <2>1, <1>9
<1>17. Shown(movie) = f
  BY <1>5, <1>15 DEF Shown, A
<1> QED  BY <1>7, <1>16, <1>17 DEF ShowsTheShot, s

\* On the grid two frames or more last no longer than they should.
LEMMA CutsLastTheirFrames ==
  ASSUME IsCopy(copied), NEW m, Trimmable(m), movie = TrimMoov(m)
  PROVE  LastsItsFrames(2)
<1> DEFINE n == Cardinality(Visible(m))
           s == InView(m)
           mt == m.mediaTime
           span == SpanOf(m)
           bound == frames * STEP * MovieScale
<1>1. /\ m \in Movie /\ Timed(m) /\ Roomy(m) /\ Visible(m) = Visible(copied) /\ s = InView(copied)
  BY DEF Trimmable
<1>2. movie.dts = m.dts
  BY <1>1, TrimmedFields
<1>3. SUFFICES ASSUME m.dts # <<>>, frames >= 2
               PROVE  movie.span * MediaScale <= bound
  BY <1>2 DEF LastsItsFrames
<1>4. \A k \in 1 .. frames : m.pts[s[k]] = mt + (k - 1) * STEP
  BY <1>1, <1>3 DEF Trimmable
<1>5. frames \in 1 .. n /\ n \in Nat
  BY <1>1, TimedPictures DEF IsCopy
<1>6. frames \in Nat /\ frames >= 2 /\ frames <= n
  BY <1>3, <1>5
<1>7. Cardinality(Pictures(m)) >= 2
  <2>1. n <= Cardinality(Pictures(m)) /\ Cardinality(Pictures(m)) \in Nat
    BY <1>1, TimedPictures, FS_Subset
  <2> HIDE DEF n
  <2> QED  BY <2>1, <1>5, <1>6
<1>8. /\ STEP \in Nat \ {0} /\ MovieScale \in Nat \ {0} /\ MediaScale \in Nat \ {0}
  BY CutAssumption
<1>9. mt \in Int /\ m.span \in Nat
  BY <1>1 DEF Movie
<1>10. PICK stop \in Int :
           /\ span = ((stop - mt) * MovieScale) \div MediaScale
           /\ frames > 1 => stop <= 2 * m.pts[s[frames]] - m.pts[s[frames - 1]]
           /\ frames > 1 \/ frames < n => 2 * stop >= 2 * m.pts[s[frames]] + STEP
  BY <1>1, <1>5, <1>7, SpanEnds DEF Roomy
<1> DEFINE t(k) == (k - 1) * STEP
<1>11. /\ t(frames) \in Int /\ t(frames - 1) \in Int /\ t(frames) = t(frames - 1) + STEP
       /\ t(frames) >= 0 /\ t(frames) + STEP = frames * STEP
       /\ m.pts[s[frames]] = mt + t(frames) /\ m.pts[s[frames - 1]] = mt + t(frames - 1)
  <2>1. frames \in 1 .. frames /\ frames - 1 \in 1 .. frames
    BY <1>6
  <2>2. t(frames) \in Int /\ t(frames - 1) \in Int
    BY <1>6, <1>8
  <2>3. t(frames) = t(frames - 1) + STEP
    <3>1. ((frames - 1 - 1) + 1) * STEP = (frames - 1 - 1) * STEP + 1 * STEP
      BY <1>6, <1>8, ScalingIsExact
    <3>2. (frames - 1 - 1) + 1 = frames - 1 /\ 1 * STEP = STEP
      BY <1>6, <1>8
    <3> QED  BY <3>1, <3>2
  <2>4. t(frames) + STEP = frames * STEP
    <3>1. ((frames - 1) + 1) * STEP = (frames - 1) * STEP + 1 * STEP
      BY <1>6, <1>8, ScalingIsExact
    <3>2. (frames - 1) + 1 = frames /\ 1 * STEP = STEP
      BY <1>6, <1>8
    <3> QED  BY <3>1, <3>2
  <2>5. t(frames) >= 0
    <3>1. 0 * STEP <= (frames - 1) * STEP /\ 0 * STEP = 0
      BY <1>6, <1>8, ScalingKeepsOrder
    <3> QED  BY <3>1, <2>2
  <2>6. m.pts[s[frames]] = mt + t(frames) /\ m.pts[s[frames - 1]] = mt + t(frames - 1)
    BY <2>1, <1>4
  <2> QED  BY <2>2, <2>3, <2>4, <2>5, <2>6
<1> HIDE DEF t, n, s, mt, span, bound
<1>12. stop - mt <= frames * STEP /\ stop - mt \in Int /\ frames * STEP \in Int
  <2> DEFINE x == frames * STEP
  <2>1. stop <= 2 * (mt + t(frames)) - (mt + t(frames - 1)) /\ x \in Int /\ x = t(frames) + STEP
    BY <1>6, <1>8, <1>10, <1>11
  <2> HIDE DEF x
  <2>2. stop - mt <= x
    BY <2>1, <1>8, <1>9, <1>11
  <2> QED  BY <2>1, <2>2, <1>9 DEF x
<1>13. 2 * stop >= 2 * mt + STEP
  BY <1>6, <1>8, <1>9, <1>10, <1>11
<1>14. span \in Int /\ span * MediaScale <= (stop - mt) * MovieScale /\ span > 0
  <2>1. Reaches(span, stop, mt, m.span)
    BY <1>9, <1>10, SpanReaches
  <2> QED  BY <2>1, <1>13 DEF Reaches
<1>15. span * MediaScale <= bound
  <2>1. (stop - mt) * MovieScale \in Int /\ (frames * STEP) * MovieScale \in Int
        /\ (stop - mt) * MovieScale <= (frames * STEP) * MovieScale
    <3> DEFINE a == stop - mt
               b == frames * STEP
    <3>1. a \in Int /\ b \in Int /\ a <= b
      BY <1>12
    <3> HIDE DEF a, b
    <3>2. a * MovieScale \in Int /\ b * MovieScale \in Int /\ a * MovieScale <= b * MovieScale
      BY <3>1, <1>8, ScalingKeepsOrder
    <3> QED  BY <3>2 DEF a, b
  <2>2. span * MediaScale \in Int
    BY <1>8, <1>14
  <2> DEFINE x == span * MediaScale
             y == (stop - mt) * MovieScale
  <2>3. x \in Int /\ y \in Int /\ bound \in Int /\ x <= y /\ y <= bound
    BY <2>1, <2>2, <1>14 DEF bound
  <2> HIDE DEF x, y
  <2>4. x <= bound
    BY <2>3
  <2> QED  BY <2>4 DEF x
<1>16. bound \in Int
  BY <1>6, <1>8, <1>12 DEF bound
<1>17. CASE MayTrim(m)
  <2>1. movie.span = span
    BY <1>1, <1>17, TrimmedFields DEF span
  <2> QED  BY <2>1, <1>15
<1>18. CASE ~ MayTrim(m)
  <2>1. movie = m
    BY <1>1, <1>18, TrimmedFields
  <2>2. ~ span < m.span
    <3>1. Cardinality(Visible(m)) >= frames
      BY <1>5, <1>6 DEF n
    <3> QED  BY <3>1, <1>7, <1>14, <1>18 DEF MayTrim, span
  <2>3. m.span * MediaScale \in Int /\ span * MediaScale \in Int
        /\ m.span * MediaScale <= span * MediaScale
    <3>1. m.span <= span
      BY <2>2, <1>9, <1>14
    <3> QED  BY <3>1, <1>8, <1>9, <1>14, ScalingKeepsOrder
  <2> DEFINE x == m.span * MediaScale
             y == span * MediaScale
  <2>4. x \in Int /\ y \in Int /\ x <= y /\ y <= bound
    BY <2>3, <1>15
  <2> HIDE DEF x, y
  <2>5. x <= bound
    BY <2>4, <1>16
  <2> QED  BY <2>1, <2>5 DEF x
<1> QED  BY <1>17, <1>18 DEF bound
\* The length of a trimmed span is a whole number of ticks.
LEMMA SpansAreWhole ==
  ASSUME IsCopy(copied), NEW m, Trimmable(m), MayTrim(m)
  PROVE  SpanOf(m) \in Nat
<1> DEFINE n == Cardinality(Visible(m))
           mt == m.mediaTime
<1>1. /\ m \in Movie /\ Timed(m) /\ Roomy(m) /\ Visible(m) = Visible(copied)
  BY DEF Trimmable
<1>2. frames \in 1 .. n /\ Cardinality(Pictures(m)) >= 2 /\ SpanOf(m) > 0
  BY <1>1 DEF IsCopy, MayTrim
<1>3. mt \in Int /\ m.span \in Nat
  BY <1>1 DEF Movie
<1>4. PICK stop \in Int : SpanOf(m) = ((stop - mt) * MovieScale) \div MediaScale
  BY <1>1, <1>2, SpanEnds DEF Roomy
<1> HIDE DEF mt
<1>5. Reaches(SpanOf(m), stop, mt, m.span)
  BY <1>3, <1>4, SpanReaches
<1> QED  BY <1>2, <1>5 DEF Reaches
-----------------------------------------------------------------------------
\* The copy is one that ffmpeg made, and a trim has worked on nothing but it.
CutInv ==
  /\ IsCopy(copied) /\ frames \in ShotSizes /\ gridded \in BOOLEAN /\ cut \in BOOLEAN
  /\ movie = IF cut THEN TrimMoov(IF gridded THEN ConformMoov(copied) ELSE copied) ELSE copied

LEMMA CutStart == ASSUME CutInit PROVE CutInv
<1>1. PICK head \in HeadSizes, size \in ShotSizes, tail \in Tails,
           base \in TimeBases, lead \in {0, 2}, first \in Sounds, second \in Sounds :
        \E order \in Reorders(head + size + Cardinality(tail)), apart \in {1, STEP} :
          /\ frames = size
          /\ movie = CopyOf(head, size, tail, order, apart, base, lead, <<first, second>>)
  BY DEF CutInit
<1>2. PICK order \in Reorders(head + size + Cardinality(tail)), apart \in {1, STEP} :
          /\ frames = size
          /\ movie = CopyOf(head, size, tail, order, apart, base, lead, <<first, second>>)
  BY <1>1
<1>3. copied = movie /\ gridded \in BOOLEAN /\ cut = FALSE
  BY DEF CutInit
<1>4. /\ head \in Nat /\ size \in Nat \ {0} /\ IsFiniteSet(tail) /\ tail \in SUBSET (Nat \ {0})
      /\ base \in 1 .. STEP /\ lead \in Nat /\ apart \in Nat \ {0}
      /\ first \in Nat /\ second \in Nat
  BY CutAssumption
<1> DEFINE sound == <<first, second>>
<1>5. sound \in [1 .. 2 -> Nat]
  BY <1>4
<1> HIDE DEF sound
<1>6. movie = CopyOf(head, size, tail, order, apart, base, lead, sound) /\ frames = size
  BY <1>2 DEF sound
<1>7. IsCopy(movie)
  BY <1>4, <1>5, <1>6, CopiesAreSuch
<1>8. frames \in ShotSizes
  BY <1>6
<1> QED  BY <1>3, <1>7, <1>8 DEF CutInv

\* The one step there is keeps it.
LEMMA CutStep == ASSUME CutInv, [CutNext]_cutVars PROVE CutInv'
<1>1. CASE TrimEditList
  <2>1. /\ ~ cut /\ cut' = TRUE /\ copied' = copied /\ frames' = frames /\ gridded' = gridded
        /\ movie' = TrimMoov(IF gridded THEN ConformMoov(movie) ELSE movie)
    BY <1>1 DEF TrimEditList
  <2>2. movie = copied
    BY <2>1 DEF CutInv
  <2>3. IsCopy(copied)'
    <3>1. IsCopy(copied)
      BY DEF CutInv
    <3> QED  BY <2>1, <3>1 DEF IsCopy
  <2> DEFINE c == IF gridded THEN ConformMoov(copied) ELSE copied
  <2>4. c' = c
    BY <2>1
  <2> HIDE DEF c
  <2>5. TrimMoov(c)' = TrimMoov(c)
    <3>1. SpanOf(c)' = SpanOf(c)
      BY <2>1, <2>4 DEF SpanOf
    <3>2. MayTrim(c)' <=> MayTrim(c)
      BY <2>1, <2>4, <3>1 DEF MayTrim
    <3> QED  BY <2>4, <3>1, <3>2 DEF TrimMoov
  <2>6. movie' = TrimMoov(c)'
    BY <2>1, <2>2, <2>5 DEF c
  <2> QED  BY <2>1, <2>3, <2>6 DEF CutInv, c
<1>2. CASE UNCHANGED cutVars
  <2>1. /\ cut' = cut /\ copied' = copied /\ frames' = frames /\ gridded' = gridded
        /\ movie' = movie
    BY <1>2 DEF cutVars
  <2>2. IsCopy(copied)'
    <3>1. IsCopy(copied)
      BY DEF CutInv
    <3> QED  BY <2>1, <3>1 DEF IsCopy
  <2> DEFINE c == IF gridded THEN ConformMoov(copied) ELSE copied
  <2>3. c' = c
    BY <2>1
  <2> HIDE DEF c
  <2>4. TrimMoov(c)' = TrimMoov(c)
    BY <2>1, <2>3 DEF TrimMoov, MayTrim, SpanOf
  <2>5. movie' = (IF cut THEN TrimMoov(c) ELSE copied)'
    BY <2>1, <2>4 DEF CutInv, c
  <2> QED  BY <2>1, <2>2, <2>5 DEF CutInv, c
<1> QED  BY <1>1, <1>2 DEF CutNext

LEMMA CutInvHolds == CutSpec => []CutInv
  BY CutStart, CutStep, PTL DEF CutSpec

\* The movie keeps its shape: its pictures, a decode time for each or for none, and
\* lengths that are whole.
LEMMA CutInvTypes == ASSUME CutInv PROVE CutTypeOK
<1> DEFINE c == IF gridded THEN ConformMoov(copied) ELSE copied
           Fits(m) ==
             /\ Pictures(m) = Pictures(copied) /\ Times(m) \subseteq Int
             /\ Len(m.dts) \in {0, Cardinality(Pictures(m))}
             /\ m.mediaTime \in Times(m) /\ {m.span, m.length, m.lead} \subseteq Nat
             /\ \A k \in DOMAIN m.sound : m.sound[k] \in Nat
<1>1. IsCopy(copied)
  BY DEF CutInv
<1>2. Trimmable(copied) /\ Trimmable(c)
  BY <1>1, CopiesAreReady
<1>3. ASSUME NEW m, Trimmable(m)
      PROVE  Fits(m)
  <2>1. m \in Movie /\ Timed(m) /\ Pictures(m) = Pictures(copied)
    BY <1>3 DEF Trimmable
  <2>2. Times(m) \subseteq Int /\ Cardinality(Pictures(m)) \in Nat
        /\ Pictures(m) = 1 .. Cardinality(Pictures(m))
    BY <2>1, TimedPictures
  <2>3. Len(m.dts) \in {0, Cardinality(Pictures(m))}
    <3>1. CASE m.dts = <<>>
      BY <3>1
    <3>2. CASE Decodes(m)
      <4>1. PICK k \in Nat : m.dts \in [1 .. k -> Int]
        BY <2>1 DEF Movie, Row
      <4>2. m.dts \in Seq(Int)
        BY <4>1, SeqDef
      <4> DEFINE n == Cardinality(Pictures(m))
      <4>3. DOMAIN m.dts = 1 .. n /\ n \in Nat
        BY <3>2, <2>2 DEF Decodes
      <4> HIDE DEF n
      <4>4. Len(m.dts) = n
        BY <4>2, <4>3, LenProperties
      <4> QED  BY <4>4 DEF n
    <3> QED  BY <1>3, <3>1, <3>2 DEF Trimmable
  <2>4. m.mediaTime \in Times(m)
    BY <2>1 DEF Timed
  <2>5. {m.span, m.length, m.lead} \subseteq Nat /\ \A k \in DOMAIN m.sound : m.sound[k] \in Nat
    BY <2>1 DEF Movie
  <2> QED  BY <2>1, <2>2, <2>3, <2>4, <2>5
<1>4. Fits(TrimMoov(c))
  <2> HIDE DEF c
  <2>1. Fits(c) /\ c \in Movie
    BY <1>2, <1>3 DEF Trimmable
  <2> DEFINE x == TrimMoov(c)
  <2>2. x.pts = c.pts /\ x.dts = c.dts /\ x.mediaTime = c.mediaTime /\ x.lead = c.lead
    BY <2>1, TrimmedFields
  <2>3. CASE ~ MayTrim(c)
    BY <2>1, <2>3, TrimmedFields
  <2>4. CASE MayTrim(c)
    <3>1. SpanOf(c) \in Nat
      BY <1>1, <1>2, <2>4, SpansAreWhole
    <3> DEFINE end == c.lead + SpanOf(c)
    <3>2. end \in Nat /\ c.sound \in [1 .. 2 -> Nat]
      BY <2>1, <3>1 DEF Movie
    <3>3. x.span = SpanOf(c) /\ x.length = end /\ x.sound = Clamped(c.sound, end)
      BY <2>1, <2>4, TrimmedFields
    <3> HIDE DEF end, x
    <3>4. x.sound \in [1 .. 2 -> Nat]
      BY <3>2, <3>3, ClampedEnds
    <3>5. Pictures(x) = Pictures(c) /\ Times(x) = Times(c)
      BY <2>2 DEF Pictures, Times
    <3>6. {x.span, x.length, x.lead} \subseteq Nat
      BY <2>1, <2>2, <3>1, <3>2, <3>3
    <3>7. Fits(x)
      BY <2>1, <2>2, <3>4, <3>5, <3>6
    <3> QED  BY <3>7 DEF x
  <2> QED  BY <2>3, <2>4
<1>5. Fits(copied)
  BY <1>2, <1>3
<1> HIDE DEF Fits
<1>6. Fits(movie)
  BY <1>4, <1>5 DEF CutInv
<1>7. \A m \in {movie, copied} : Fits(m)
  BY <1>5, <1>6
<1> QED  BY <1>7 DEF CutTypeOK, CutInv, Fits

LEMMA CutTypes == CutSpec => []CutTypeOK
  BY CutInvTypes, CutInvHolds, PTL

LEMMA CutInvExact == ASSUME CutInv PROVE CutsAreExact
<1> SUFFICES ASSUME cut PROVE ShowsTheShot /\ LastsItsFrames(2) /\ DecodesInTime /\ SoundEndsWithIt
  BY DEF CutsAreExact
<1> DEFINE c == IF gridded THEN ConformMoov(copied) ELSE copied
<1>1. IsCopy(copied) /\ movie = TrimMoov(c)
  BY DEF CutInv
<1>2. Trimmable(c)
  BY <1>1, CopiesAreReady
<1> HIDE DEF c
<1>3. ShowsTheShot /\ LastsItsFrames(2)
  BY <1>1, <1>2, CutsShowTheShot, CutsLastTheirFrames
<1>4. c \in Movie
  BY <1>2 DEF Trimmable
<1>5. DecodesInTime
  <2>1. movie.dts = c.dts /\ movie.pts = c.pts
    BY <1>1, <1>4, TrimmedFields
  <2>2. movie.dts # <<>> => Decodes(c)
    BY <2>1, <1>2 DEF Trimmable
  <2>3. Pictures(movie) = Pictures(c)
    BY <2>1 DEF Pictures
  <2> QED  BY <2>1, <2>2, <2>3 DEF DecodesInTime, Decodes
<1>6. SoundEndsWithIt
  <2> SUFFICES ASSUME movie.span < copied.span
               PROVE  Total(movie.sound) = Lower(Total(copied.sound), movie.length)
    BY DEF SoundEndsWithIt
  <2>1. c.span = copied.span /\ c.span \in Nat /\ c.sound = copied.sound /\ c.sound \in [1 .. 2 -> Nat]
        /\ c.lead \in Nat
    BY <1>2, <1>4 DEF Trimmable, Movie
  <2>2. MayTrim(c)
    <3>1. SUFFICES ASSUME movie = c PROVE FALSE
      BY <1>1, <1>4, TrimmedFields
    <3> QED  BY <3>1, <2>1
  <2>3. movie.length = c.lead + SpanOf(c) /\ movie.sound = Clamped(c.sound, c.lead + SpanOf(c))
        /\ movie.span = SpanOf(c)
    BY <1>1, <1>4, <2>2, TrimmedFields
  <2>4. SpanOf(c) \in Nat
    BY <1>1, <1>2, <2>2, SpansAreWhole
  <2> DEFINE end == c.lead + SpanOf(c)
  <2>5. end \in Nat
    BY <2>1, <2>4
  <2> HIDE DEF end
  <2>6. Total(Clamped(c.sound, end)) = Lower(Total(c.sound), end)
    BY <2>1, <2>5, ClampedEnds
  <2> QED  BY <2>1, <2>3, <2>6 DEF end
<1> QED  BY <1>3, <1>5, <1>6

\* On every copy, whatever its head, its reordering, its rounded times and what was
\* dragged in, trimEditList cuts exactly: the pictures of the shot are shown, on the
\* grid for no longer than their frames, decode times rise and precede what they
\* show, and the other track ends with the pictures.
THEOREM CutsStayExact == CutSpec => []CutsAreExact
  BY CutInvExact, CutInvHolds, PTL
-----------------------------------------------------------------------------
\* The queue of archives.

Members(list) == {list[i] : i \in DOMAIN list}

\* What is kept of a list is what stood at those places, each once and in its order.
LEMMA KeptPicks ==
  ASSUME NEW S, NEW list \in Seq(S), NEW P \in SUBSET DOMAIN list
  PROVE  /\ Kept(list, P) \in Seq(S)
         /\ \E g \in [DOMAIN Kept(list, P) -> P] :
              /\ \A k \in DOMAIN Kept(list, P) : Kept(list, P)[k] = list[g[k]]
              /\ \A k, l \in DOMAIN Kept(list, P) : g[k] = g[l] => k = l
              /\ \A i \in P : \E k \in DOMAIN Kept(list, P) : g[k] = i
<1> DEFINE key == [x \in P |-> x]
           n == Cardinality(P)
           g == Ascending(P)
<1>1. IsFiniteSet(P) /\ P \subseteq Nat /\ DOMAIN list = 1 .. Len(list) /\ Len(list) \in Nat
  <2>1. DOMAIN list = 1 .. Len(list) /\ Len(list) \in Nat
    BY LenProperties
  <2>2. IsFiniteSet(1 .. Len(list))
    BY <2>1, FS_Interval
  <2> QED  BY <2>1, <2>2, FS_Subset
<1>2. Tells(P, key)
  BY <1>1 DEF Tells
<1>3. g = InOrder(P, key)
  BY DEF Ascending
<1>0. \A i \in P : Below(i, P, key) = {j \in P : j < i}
  BY DEF Below
<1> HIDE DEF key
<1>4. /\ n \in Nat /\ g \in [1 .. n -> P]
      /\ \A k, l \in 1 .. n : k < l => key[g[k]] < key[g[l]]
      /\ \A i \in P : \E k \in 1 .. n : g[k] = i
  BY <1>1, <1>2, <1>3, InOrderSorts
<1>5. \A k, l \in 1 .. n : g[k] = g[l] => k = l
  <2> SUFFICES ASSUME NEW k \in 1 .. n, NEW l \in 1 .. n, g[k] = g[l], k < l PROVE FALSE
    BY <1>4
  <2>1. key[g[k]] < key[g[l]] /\ key[g[k]] \in Int
    BY <1>2, <1>4 DEF Tells
  <2> QED  BY <2>1
<1>6. \A k \in 1 .. n : Cardinality({j \in P : j < g[k]}) = k - 1
  <2>1. \A k \in 1 .. n : Cardinality(Below(g[k], P, key)) = k - 1
    BY <1>1, <1>2, <1>3, InOrderRanks
  <2> HIDE DEF g, n
  <2> QED  BY <2>1, <1>0, <1>4
<1> DEFINE place(k) == CHOOSE i \in P : Cardinality({j \in P : j < i}) = k - 1
<1> HIDE DEF g
<1>a. ASSUME NEW k \in 1 .. n
      PROVE  place(k) = g[k]
  <2>1. g[k] \in P /\ Cardinality({j \in P : j < g[k]}) = k - 1
    BY <1>4, <1>6
  <2>2. place(k) \in P /\ Cardinality({j \in P : j < place(k)}) = k - 1
    BY <2>1
  <2> HIDE DEF place
  <2>3. PICK l \in 1 .. n : g[l] = place(k)
    BY <2>2, <1>4
  <2>4. l - 1 = k - 1
    BY <2>2, <2>3, <1>6
  <2> HIDE DEF n
  <2>5. l = k
    BY <2>4, <1>4
  <2> QED  BY <2>3, <2>5
<1>b. Kept(list, P) = [k \in 1 .. n |-> list[g[k]]]
  <2>1. Kept(list, P) = [k \in 1 .. n |-> list[place(k)]]
    BY DEF Kept
  <2> HIDE DEF place, n
  <2> QED  BY <2>1, <1>a
<1> HIDE DEF n
<1>7. \A k \in 1 .. n : list[g[k]] \in S
  BY <1>1, <1>4, ElementOfSeq
<1>8. Kept(list, P) \in Seq(S)
  <2>1. [k \in 1 .. n |-> list[g[k]]] \in [1 .. n -> S]
    BY <1>7
  <2> QED  BY <2>1, <1>4, <1>b, SeqDef
<1>9. DOMAIN Kept(list, P) = 1 .. n
  BY <1>b
<1> QED  BY <1>4, <1>5, <1>b, <1>8, <1>9

\* A list of entries, no two of which have the same identity.
Queue(es) ==
  /\ es \in Seq(Entry)
  /\ \A i, j \in DOMAIN es : es[i].id = es[j].id => i = j

LEMMA KeptIsQueue ==
  ASSUME NEW es, Queue(es), NEW P \in SUBSET DOMAIN es
  PROVE  Queue(Kept(es, P)) /\ Members(Kept(es, P)) = {es[i] : i \in P}
<1>1. es \in Seq(Entry)
  BY DEF Queue
<1>2. PICK g \in [DOMAIN Kept(es, P) -> P] :
        /\ \A k \in DOMAIN Kept(es, P) : Kept(es, P)[k] = es[g[k]]
        /\ \A k, l \in DOMAIN Kept(es, P) : g[k] = g[l] => k = l
        /\ \A i \in P : \E k \in DOMAIN Kept(es, P) : g[k] = i
  BY <1>1, KeptPicks
<1>3. Kept(es, P) \in Seq(Entry)
  BY <1>1, KeptPicks
<1>4. \A k, l \in DOMAIN Kept(es, P) : Kept(es, P)[k].id = Kept(es, P)[l].id => k = l
  <2> SUFFICES ASSUME NEW k \in DOMAIN Kept(es, P), NEW l \in DOMAIN Kept(es, P),
                      Kept(es, P)[k].id = Kept(es, P)[l].id
               PROVE  k = l
    OBVIOUS
  <2>1. es[g[k]].id = es[g[l]].id /\ g[k] \in DOMAIN es /\ g[l] \in DOMAIN es
    BY <1>2
  <2>2. g[k] = g[l]
    BY <2>1 DEF Queue
  <2> QED  BY <2>2, <1>2
<1>5. Members(Kept(es, P)) = {es[i] : i \in P}
  <2>1. \A k \in DOMAIN Kept(es, P) : g[k] \in P
    BY <1>2
  <2> QED  BY <2>1, <1>2 DEF Members
<1> QED  BY <1>3, <1>4, <1>5 DEF Queue

\* Of two entries of a queue with one identity there is one.
LEMMA MembersAreNamed ==
  ASSUME NEW es, Queue(es), NEW e \in Members(es), NEW f \in Members(es), e.id = f.id
  PROVE  e = f
BY DEF Queue, Members

LEMMA MembersAreEntries ==
  ASSUME NEW es, Queue(es), NEW e \in Members(es)
  PROVE  e \in Entry
<1>1. PICK i \in DOMAIN es : e = es[i]
  BY DEF Members
<1>2. es \in Seq(Entry)
  BY DEF Queue
<1> QED  BY <1>1, <1>2, ElementOfSeq, LenProperties

\* A queue with one entry changed, but not its identity.
ChangedAt(new, es, i, f) == new = [es EXCEPT ![i] = f]

LEMMA OneChanged ==
  ASSUME NEW es, Queue(es), NEW i, i \in DOMAIN es, NEW f, f \in Entry, f.id = es[i].id,
         NEW new, ChangedAt(new, es, i, f)
  PROVE  Queue(new) /\ Members(new) = (Members(es) \ {es[i]}) \cup {f}
<1>1. es \in Seq(Entry)
  BY DEF Queue
<1>2. new \in Seq(Entry) /\ DOMAIN new = DOMAIN es
  BY <1>1, ExceptSeq, LenProperties DEF ChangedAt
<1>3. \A j \in DOMAIN es : new[j] = IF j = i THEN f ELSE es[j]
  BY <1>1 DEF ChangedAt
<1>4. \A j, k \in DOMAIN new : new[j].id = new[k].id => j = k
  BY <1>2, <1>3 DEF Queue
<1>5. \A j \in DOMAIN es : j # i => es[j] # es[i]
  BY DEF Queue
<1>6. Members(new) \subseteq (Members(es) \ {es[i]}) \cup {f}
  BY <1>2, <1>3, <1>5 DEF Members
<1>7. (Members(es) \ {es[i]}) \cup {f} \subseteq Members(new)
  BY <1>2, <1>3 DEF Members
<1> QED  BY <1>2, <1>4, <1>6, <1>7 DEF Queue

LEMMA OneAdded ==
  ASSUME NEW es, Queue(es), NEW f \in Entry, f.id \notin UsedIds(es)
  PROVE  Queue(Append(es, f)) /\ Members(Append(es, f)) = Members(es) \cup {f}
<1> DEFINE new == Append(es, f)
           n == Len(es)
<1>1. es \in Seq(Entry)
  BY DEF Queue
<1>2. /\ n \in Nat /\ DOMAIN es = 1 .. n /\ new \in Seq(Entry) /\ DOMAIN new = 1 .. n + 1
      /\ \A j \in 1 .. n : new[j] = es[j]
      /\ new[n + 1] = f
  BY <1>1, AppendProperties, LenProperties
<1> HIDE DEF new, n
<1>3. \A j \in 1 .. n : es[j].id # f.id
  BY <1>2 DEF UsedIds
<1>4. \A j \in 1 .. n + 1 : j \in 1 .. n \/ j = n + 1
  BY <1>2
<1>5. \A j \in 1 .. n : j \in 1 .. n + 1
  BY <1>2
<1>6. n + 1 \in 1 .. n + 1
  BY <1>2
<1>7. \A j, k \in 1 .. n + 1 : new[j].id = new[k].id => j = k
  BY <1>2, <1>3, <1>4 DEF Queue
<1>8. Members(new) = Members(es) \cup {f}
  BY <1>2, <1>4, <1>5, <1>6 DEF Members
<1> QED  BY <1>2, <1>7, <1>8 DEF Queue, new

\* The history that is trimmed is finished.
LEMMA HistoryKeeps ==
  ASSUME NEW es, Queue(es)
  PROVE  /\ Queue(TrimHistory(es))
         /\ Members(TrimHistory(es)) \subseteq Members(es)
         /\ \A e \in Members(es) :
              e.status \notin {"done", "error"} => e \in Members(TrimHistory(es))
<1> DEFINE surplus == Cardinality(Finished(es)) - KEEP_DONE
           drop == {i \in Finished(es) : Cardinality({k \in Finished(es) : k <= i}) <= surplus}
           P == DOMAIN es \ drop
<1>1. TrimHistory(es) = es \/ TrimHistory(es) = Kept(es, P)
  BY DEF TrimHistory
<1>2. drop \subseteq Finished(es)
  OBVIOUS
<1> HIDE DEF drop
<1>3. Queue(Kept(es, P)) /\ Members(Kept(es, P)) = {es[i] : i \in P}
  BY KeptIsQueue
<1>4. \A i \in DOMAIN es : es[i].status \notin {"done", "error"} => i \in P
  BY <1>2 DEF Finished
<1> QED  BY <1>1, <1>3, <1>4 DEF Members

\* What the queue keeps: an entry is marked running exactly when it is the one
\* under way, which is in the list, and whoever waits has somebody to wait for.
OnlyMarked(es, id) == \A e \in Members(es) : e.status = "running" <=> e.id = id
InLine(es, id) == id # NoEntry => \E e \in Members(es) : e.id = id
Waits(es) == \E e \in Members(es) : e.status = "pending"

ArchivesInv ==
  /\ Queue(entries)
  /\ running \in EntryIds \cup {NoEntry}
  /\ archiveStage \in {"plan", "render"} /\ timer \in BOOLEAN /\ kills \in 0 .. MaxKills
  /\ OnlyMarked(entries, running)
  /\ InLine(entries, running)
  /\ Waits(entries) => running # NoEntry \/ timer

\* pump() with nothing under way starts the first that is ready, or sees to it
\* that it is called again.
LEMMA PumpGoesOn ==
  ASSUME NEW es, Queue(es), \A e \in Members(es) : e.status # "running",
         NEW armed \in BOOLEAN, archiveStage \in {"plan", "render"}, NoEntry \notin EntryIds,
         PumpArchives(es, TRUE, armed)
  PROVE  /\ Queue(entries') /\ UsedIds(entries') = UsedIds(es)
         /\ running' \in EntryIds \cup {NoEntry}
         /\ archiveStage' \in {"plan", "render"} /\ timer' \in BOOLEAN
         /\ OnlyMarked(entries', running') /\ InLine(entries', running')
         /\ Waits(entries') => running' # NoEntry \/ timer'
<1> DEFINE ready == {i \in Pending(es) : es[i].mode = "now" \/ gateActive = 0}
           first == CHOOSE i \in ready : \A k \in ready : i <= k
<1>0. es \in Seq(Entry)
  BY DEF Queue
<1>1. \A e \in Members(es) : e \in Entry /\ e.id \in EntryIds
  <2>1. \A e \in Members(es) : e \in Entry
    BY MembersAreEntries
  <2> QED  BY <2>1 DEF Entry
<1>2. PumpOver(es, TRUE, armed, ready, first)
  BY DEF PumpArchives
<1>3. CASE ready = {} /\ entries' = es /\ timer' = (armed \/ Pending(es) # {})
           /\ running' = NoEntry /\ UNCHANGED archiveStage
  <2>1. OnlyMarked(es, NoEntry)
    BY <1>1 DEF OnlyMarked
  <2>2. Waits(es) => Pending(es) # {}
    BY DEF Waits, Members, Pending
  <2>3. timer' \in BOOLEAN /\ (Waits(es) => timer')
    BY <1>3, <2>2
  <2> HIDE DEF ready
  <2> QED  BY <1>3, <2>1, <2>3 DEF InLine
<1>4. CASE ready # {} /\ entries' = [es EXCEPT ![first].status = "running"]
           /\ running' = es[first].id /\ archiveStage' = "plan" /\ timer' = armed
  <2>1. first \in ready
    <3>1. ready \subseteq Nat
      BY <1>0, LenProperties DEF Pending
    <3> HIDE DEF ready
    <3>2. \E i \in ready : \A k \in ready : i <= k
      BY <3>1, <1>4, LeastNat
    <3> QED  BY <3>2
  <2>2. first \in DOMAIN es /\ es[first].status = "pending"
    BY <2>1 DEF Pending
  <2> HIDE DEF first, ready
  <2> DEFINE f == [es[first] EXCEPT !.status = "running"]
  <2>3. es[first] \in Members(es)
    BY <2>2 DEF Members
  <2>4. f \in Entry /\ f.id = es[first].id /\ f.status = "running"
    BY <2>3, <1>1 DEF Entry
  <2>5. ChangedAt(entries', es, first, f)
    BY <1>4, <2>2 DEF ChangedAt
  <2> HIDE DEF f
  <2>6. Queue(entries') /\ Members(entries') = (Members(es) \ {es[first]}) \cup {f}
    BY <2>2, <2>4, <2>5, OneChanged
  <2>7. UsedIds(entries') = UsedIds(es)
    <3>1. \A x : UsedIds(x) = {e.id : e \in Members(x)}
      BY DEF UsedIds, Members
    <3> QED  BY <3>1, <2>3, <2>4, <2>6
  <2>8. \A e \in Members(es) \ {es[first]} : e.status # "running" /\ e.id # es[first].id
    BY <2>3, MembersAreNamed
  <2>9. OnlyMarked(entries', running') /\ InLine(entries', running')
    BY <1>4, <2>4, <2>6, <2>8 DEF OnlyMarked, InLine
  <2>10. running' \in EntryIds
    BY <1>1, <1>4, <2>3
  <2> QED  BY <1>4, <2>6, <2>7, <2>9, <2>10
<1> HIDE DEF ready, first
<1> QED  BY <1>2, <1>3, <1>4 DEF PumpOver

\* pump() while an archive is under way changes nothing.
LEMMA PumpWaits ==
  ASSUME NEW es, NEW armed, PumpArchives(es, FALSE, armed)
  PROVE  entries' = es /\ timer' = armed /\ UNCHANGED <<running, archiveStage>>
BY DEF PumpArchives, PumpOver

LEMMA ArchivesStart == ASSUME QueueAssumption, QueueInit PROVE ArchivesInv
<1>1. entries = <<>> /\ running = NoEntry /\ timer = FALSE /\ archiveStage = "plan" /\ kills = 0
  BY DEF QueueInit
<1>2. Members(entries) = {} /\ Queue(entries)
  BY <1>1 DEF Members, Queue
<1>3. OnlyMarked(entries, running) /\ InLine(entries, running) /\ ~ Waits(entries)
  BY <1>1, <1>2 DEF OnlyMarked, InLine, Waits
<1>4. kills \in 0 .. MaxKills
  BY <1>1 DEF QueueAssumption
<1> QED  BY <1>1, <1>2, <1>3, <1>4 DEF ArchivesInv

\* A handler that pumps a queue in which everything under way is still listed
\* and marked keeps the invariant, whether the pump may start something or not.
LEMMA QueuePumpServes ==
  ASSUME QueueAssumption, ArchivesInv, NEW es, Queue(es), OnlyMarked(es, running), InLine(es, running),
         NEW armed, armed \in BOOLEAN, PumpArchives(es, running = NoEntry, armed), kills' = kills
  PROVE  ArchivesInv' /\ UsedIds(entries') = UsedIds(es)
<1>1. CASE running = NoEntry
  <2>1. \A e \in Members(es) : e.status # "running"
    <3>1. \A e \in Members(es) : e.id # NoEntry
      BY MembersAreEntries DEF Entry, QueueAssumption
    <3> QED  BY <3>1, <1>1 DEF OnlyMarked
  <2>2. PumpArchives(es, TRUE, armed)
    BY <1>1
  <2>3. archiveStage \in {"plan", "render"} /\ kills \in 0 .. MaxKills
    BY DEF ArchivesInv
  <2>4. /\ Queue(entries') /\ UsedIds(entries') = UsedIds(es)
        /\ running' \in EntryIds \cup {NoEntry}
        /\ archiveStage' \in {"plan", "render"} /\ timer' \in BOOLEAN
        /\ OnlyMarked(entries', running') /\ InLine(entries', running')
        /\ Waits(entries') => running' # NoEntry \/ timer'
    BY <2>1, <2>2, <2>3, PumpGoesOn DEF QueueAssumption
  <2> QED  BY <2>3, <2>4 DEF ArchivesInv
<1>2. CASE running # NoEntry
  <2>1. PumpArchives(es, FALSE, armed)
    BY <1>2
  <2>2. entries' = es /\ timer' = armed /\ running' = running /\ archiveStage' = archiveStage
    BY <2>1, PumpWaits
  <2> QED  BY <2>2, <1>2 DEF ArchivesInv
<1> QED  BY <1>1, <1>2

LEMMA EnqueueStep ==
  ASSUME QueueAssumption, ArchivesInv, NEW c \in Collections, NEW mode \in ArchiveModes,
         EnqueueArchive(c, mode)
  PROVE  /\ ArchivesInv'
         /\ \A e \in Members(entries) :
              e.status \in {"pending", "running"} => e.id \in UsedIds(entries')
<1> DEFINE waiting == {i \in Pending(entries) : entries[i].coll = c}
<1>0. /\ Queue(entries) /\ OnlyMarked(entries, running) /\ InLine(entries, running)
      /\ timer \in BOOLEAN /\ running \in EntryIds \cup {NoEntry}
  BY DEF ArchivesInv
<1>1. kills' = kills
  BY DEF EnqueueArchive
<1>2. CASE waiting # {}
  <2> DEFINE i == CHOOSE i \in waiting : \A k \in waiting : i <= k
             f == [entries[i] EXCEPT !.mode = mode]
             es == [entries EXCEPT ![i].mode = mode]
  <2>1. PumpArchives(es, running = NoEntry, timer)
    BY <1>2 DEF EnqueueArchive
  <2>2. i \in waiting
    <3>1. waiting \subseteq Nat
      BY <1>0, LenProperties DEF Pending, Queue
    <3> HIDE DEF waiting
    <3>2. \E k \in waiting : \A l \in waiting : k <= l
      BY <3>1, <1>2, LeastNat
    <3> QED  BY <3>2
  <2>3. i \in DOMAIN entries /\ entries[i].status = "pending" /\ entries[i] \in Members(entries)
    BY <2>2 DEF Pending, Members
  <2> HIDE DEF i, waiting
  <2>4. f \in Entry /\ f.id = entries[i].id /\ f.status = "pending"
    BY <2>3, <1>0, MembersAreEntries DEF Entry
  <2>5. ChangedAt(es, entries, i, f)
    BY <2>3 DEF ChangedAt
  <2> HIDE DEF f, es
  <2>6. Queue(es) /\ Members(es) = (Members(entries) \ {entries[i]}) \cup {f}
    BY <1>0, <2>3, <2>4, <2>5, OneChanged
  <2>7. OnlyMarked(es, running)
    BY <1>0, <2>3, <2>4, <2>6 DEF OnlyMarked
  <2>8. \A e \in Members(entries) : \E g \in Members(es) : g.id = e.id
    BY <2>4, <2>6
  <2>9. InLine(es, running)
    BY <1>0, <2>8 DEF InLine
  <2>10. ArchivesInv' /\ UsedIds(entries') = UsedIds(es)
    BY <1>0, <1>1, <2>1, <2>6, <2>7, <2>9, QueuePumpServes
  <2>11. \A e \in Members(entries) : e.id \in UsedIds(es)
    BY <2>8 DEF UsedIds, Members
  <2> QED  BY <2>10, <2>11
<1>3. CASE waiting = {}
  <2> DEFINE fresh == CHOOSE id \in EntryIds : id \notin UsedIds(entries)
             f == [id |-> fresh, coll |-> c, mode |-> mode, status |-> "pending"]
             longer == Append(entries, f)
             es == TrimHistory(longer)
  <2>1. UsedIds(entries) # EntryIds /\ PumpArchives(es, running = NoEntry, timer)
    BY <1>3 DEF EnqueueArchive, TrimAndPump
  <2>2. fresh \in EntryIds /\ fresh \notin UsedIds(entries)
    <3>1. UsedIds(entries) \subseteq EntryIds
      <4>1. \A e \in Members(entries) : e.id \in EntryIds
        BY <1>0, MembersAreEntries DEF Entry
      <4> QED  BY <4>1 DEF UsedIds, Members
    <3>2. \E id \in EntryIds : id \notin UsedIds(entries)
      BY <3>1, <2>1
    <3> QED  BY <3>2
  <2> HIDE DEF fresh
  <2>3. f \in Entry /\ f.id = fresh /\ f.status = "pending"
    BY <2>2 DEF Entry
  <2> HIDE DEF f
  <2>4. Queue(longer) /\ Members(longer) = Members(entries) \cup {f}
    BY <1>0, <2>2, <2>3, OneAdded
  <2> HIDE DEF longer
  <2>5. /\ Queue(es) /\ Members(es) \subseteq Members(longer)
        /\ \A e \in Members(longer) : e.status \notin {"done", "error"} => e \in Members(es)
    BY <2>4, HistoryKeeps
  <2> HIDE DEF es
  <2>6. running # fresh
    <3>1. running # NoEntry => running \in UsedIds(entries)
      BY <1>0 DEF InLine, UsedIds, Members
    <3> QED  BY <3>1, <2>2 DEF QueueAssumption
  <2>7. OnlyMarked(es, running)
    BY <1>0, <2>3, <2>4, <2>5, <2>6 DEF OnlyMarked
  <2>8. InLine(es, running)
    <3> SUFFICES ASSUME running # NoEntry PROVE \E e \in Members(es) : e.id = running
      BY DEF InLine
    <3>1. PICK e \in Members(entries) : e.id = running
      BY <1>0 DEF InLine
    <3>2. e.status = "running"
      BY <3>1, <1>0 DEF OnlyMarked
    <3> QED  BY <3>1, <3>2, <2>4, <2>5
  <2>9. ArchivesInv' /\ UsedIds(entries') = UsedIds(es)
    BY <1>0, <1>1, <2>1, <2>5, <2>7, <2>8, QueuePumpServes
  <2>10. \A e \in Members(entries) : e.status \in {"pending", "running"} => e.id \in UsedIds(es)
    <3>1. \A e \in Members(entries) : e.status \in {"pending", "running"} => e \in Members(es)
      BY <2>4, <2>5
    <3> QED  BY <3>1 DEF UsedIds, Members
  <2> QED  BY <2>9, <2>10
<1> QED  BY <1>2, <1>3

LEMMA CancelArchiveStep ==
  ASSUME ArchivesInv, NEW id \in EntryIds, CancelEntry(id)
  PROVE  /\ ArchivesInv'
         /\ \A e \in Members(entries) : e.id # id => e.id \in UsedIds(entries')
<1> DEFINE P == {i \in DOMAIN entries : entries[i].id # id}
<1>0. /\ Queue(entries) /\ OnlyMarked(entries, running) /\ InLine(entries, running)
      /\ entries' = Kept(entries, P) /\ running' = running /\ timer' = timer
      /\ archiveStage' = archiveStage /\ kills' = kills
  BY DEF ArchivesInv, CancelEntry
<1>1. Queue(entries') /\ Members(entries') = {entries[i] : i \in P}
  BY <1>0, KeptIsQueue
<1>2. Members(entries') = {e \in Members(entries) : e.id # id}
  BY <1>1 DEF Members
<1>3. OnlyMarked(entries', running')
  BY <1>0, <1>2 DEF OnlyMarked
<1>4. InLine(entries', running')
  <2>1. PICK i \in DOMAIN entries : entries[i].status = "pending" /\ entries[i].id = id
    BY DEF CancelEntry, Pending
  <2>2. running # id
    BY <2>1, <1>0 DEF OnlyMarked, Members
  <2> QED  BY <2>2, <1>0, <1>2 DEF InLine
<1>5. Waits(entries') => Waits(entries)
  BY <1>2 DEF Waits
<1>6. \A e \in Members(entries) : e.id # id => e.id \in UsedIds(entries')
  <2>1. \A e \in Members(entries) : e.id # id => e \in Members(entries')
    BY <1>2
  <2> QED  BY <2>1 DEF UsedIds, Members
<1> QED  BY <1>0, <1>1, <1>3, <1>4, <1>5, <1>6 DEF ArchivesInv

LEMMA TimerStep ==
  ASSUME QueueAssumption, ArchivesInv, TimerFires
  PROVE  ArchivesInv' /\ UsedIds(entries') = UsedIds(entries)
BY QueuePumpServes DEF TimerFires, ArchivesInv

LEMMA ReturnStep ==
  ASSUME QueueAssumption, ArchivesInv, NEW result \in {"done", "error"}, ArchiveReturns(result)
  PROVE  /\ ArchivesInv'
         /\ \A e \in Members(entries) : e.status = "pending" => e.id \in UsedIds(entries')
<1> DEFINE i == CHOOSE i \in DOMAIN entries : entries[i].id = running
           f == [entries[i] EXCEPT !.status = result]
           marked == [entries EXCEPT ![i].status = result]
           es == TrimHistory(marked)
<1>0. /\ Queue(entries) /\ OnlyMarked(entries, running) /\ InLine(entries, running)
      /\ timer \in BOOLEAN /\ archiveStage \in {"plan", "render"} /\ kills \in 0 .. MaxKills
      /\ running # NoEntry /\ kills' = kills /\ PumpArchives(es, TRUE, timer)
  BY DEF ArchivesInv, ArchiveReturns, TrimAndPump
<1>1. i \in DOMAIN entries /\ entries[i].id = running /\ entries[i] \in Members(entries)
  <2>1. \E k \in DOMAIN entries : entries[k].id = running
    BY <1>0 DEF InLine, Members
  <2> QED  BY <2>1 DEF Members
<1> HIDE DEF i
<1>2. f \in Entry /\ f.id = entries[i].id /\ f.status = result
  BY <1>0, <1>1, MembersAreEntries DEF Entry
<1>3. ChangedAt(marked, entries, i, f)
  BY <1>1 DEF ChangedAt
<1> HIDE DEF f, marked
<1>4. Queue(marked) /\ Members(marked) = (Members(entries) \ {entries[i]}) \cup {f}
  BY <1>0, <1>1, <1>2, <1>3, OneChanged
<1>5. /\ Queue(es) /\ Members(es) \subseteq Members(marked)
      /\ \A e \in Members(marked) : e.status \notin {"done", "error"} => e \in Members(es)
  BY <1>4, HistoryKeeps
<1> HIDE DEF es
<1>6. \A e \in Members(es) : e.status # "running"
  <2>1. \A e \in Members(entries) \ {entries[i]} : e.id # running
    BY <1>0, <1>1, MembersAreNamed
  <2>2. \A e \in Members(entries) \ {entries[i]} : e.status # "running"
    BY <2>1, <1>0 DEF OnlyMarked
  <2> QED  BY <2>2, <1>2, <1>4, <1>5
<1>7. /\ Queue(entries') /\ UsedIds(entries') = UsedIds(es)
      /\ running' \in EntryIds \cup {NoEntry}
      /\ archiveStage' \in {"plan", "render"} /\ timer' \in BOOLEAN
      /\ OnlyMarked(entries', running') /\ InLine(entries', running')
      /\ Waits(entries') => running' # NoEntry \/ timer'
  BY <1>0, <1>5, <1>6, PumpGoesOn DEF QueueAssumption
<1>8. ASSUME NEW e \in Members(entries), e.status = "pending"
      PROVE  e.id \in UsedIds(es)
  <2>1. e # entries[i]
    BY <1>0, <1>1, <1>8 DEF OnlyMarked
  <2>2. e \in Members(es)
    BY <2>1, <1>4, <1>5, <1>8
  <2> QED  BY <2>2 DEF UsedIds, Members
<1> QED  BY <1>0, <1>7, <1>8 DEF ArchivesInv

LEMMA KillStep ==
  ASSUME QueueAssumption, ArchivesInv, CoreKilled
  PROVE  ArchivesInv' /\ UsedIds(entries') = UsedIds(entries)
<1> DEFINE new(e) == IF e.status = "running" THEN [e EXCEPT !.status = "pending"] ELSE e
<1>0. /\ Queue(entries) /\ kills \in 0 .. MaxKills /\ kills < MaxKills /\ kills' = kills + 1
      /\ entries' = [i \in DOMAIN entries |-> new(entries[i])]
      /\ running' = NoEntry /\ timer' = (Pending(entries') # {})
      /\ archiveStage \in {"plan", "render"} /\ archiveStage' = archiveStage
  BY DEF ArchivesInv, CoreKilled
<1>1. \A e \in Entry : new(e) \in Entry /\ new(e).id = e.id /\ new(e).status # "running"
  BY DEF Entry
<1> HIDE DEF new
<1>2. entries \in Seq(Entry) /\ DOMAIN entries = 1 .. Len(entries) /\ Len(entries) \in Nat
  BY <1>0, LenProperties DEF Queue
<1>3. \A i \in DOMAIN entries : entries[i] \in Entry
  BY <1>2, ElementOfSeq
<1>4. entries' \in Seq(Entry) /\ DOMAIN entries' = DOMAIN entries
  <2>1. entries' \in [1 .. Len(entries) -> Entry]
    BY <1>0, <1>1, <1>2, <1>3
  <2> QED  BY <2>1, <1>0, <1>2, SeqDef
<1>5. \A i \in DOMAIN entries : entries'[i].id = entries[i].id /\ entries'[i].status # "running"
  BY <1>0, <1>1, <1>3
<1>6. Queue(entries')
  BY <1>0, <1>4, <1>5 DEF Queue
<1>7. UsedIds(entries') = UsedIds(entries)
  BY <1>4, <1>5 DEF UsedIds
<1>8. OnlyMarked(entries', running')
  <2>1. \A e \in Members(entries') : e.status # "running"
    BY <1>4, <1>5 DEF Members
  <2>2. \A e \in Members(entries') : e.id # NoEntry
    BY <1>6, MembersAreEntries DEF Entry, QueueAssumption
  <2> QED  BY <2>1, <2>2, <1>0 DEF OnlyMarked
<1>9. Waits(entries') => timer'
  BY <1>0 DEF Waits, Members, Pending
<1>10. kills' \in 0 .. MaxKills
  BY <1>0 DEF QueueAssumption
<1>11. timer' \in BOOLEAN
  BY <1>0
<1> QED  BY <1>0, <1>6, <1>7, <1>8, <1>9, <1>10, <1>11 DEF ArchivesInv, InLine

\* What every step leaves of the announced work.
KeepsAnnounced ==
  \A i \in DOMAIN entries :
    entries[i].status \in {"pending", "running"} =>
      \/ entries[i].id \in UsedIds(entries')
      \/ entries[i].status = "running" /\ kills' = kills
      \/ CancelEntry(entries[i].id)

LEMMA ArchivesStep ==
  ASSUME QueueAssumption, ArchivesInv, [ArchiveNext]_archiveVars
  PROVE  ArchivesInv' /\ KeepsAnnounced
<1> USE DEF KeepsAnnounced
<1>0. \A i \in DOMAIN entries : entries[i] \in Members(entries) /\ entries[i].id \in UsedIds(entries)
  BY DEF Members, UsedIds
<1>1. ASSUME NEW c \in Collections, NEW mode \in ArchiveModes, EnqueueArchive(c, mode)
      PROVE  ArchivesInv' /\ KeepsAnnounced
  BY <1>0, <1>1, EnqueueStep
<1>2. ASSUME NEW id \in EntryIds, CancelEntry(id)
      PROVE  ArchivesInv' /\ KeepsAnnounced
  BY <1>0, <1>2, CancelArchiveStep
<1>3. CASE TimerFires
  BY <1>0, <1>3, TimerStep
<1>4. CASE ArchiveRenders
  <2>1. entries' = entries /\ running' = running /\ timer' = timer /\ kills' = kills /\ archiveStage' = "render"
    BY <1>4 DEF ArchiveRenders
  <2> QED  BY <2>1, <1>0 DEF ArchivesInv
<1>5. ASSUME NEW result \in {"done", "error"}, ArchiveReturns(result)
      PROVE  ArchivesInv' /\ KeepsAnnounced
  <2>1. kills' = kills
    BY <1>5 DEF ArchiveReturns
  <2> QED  BY <2>1, <1>0, <1>5, ReturnStep
<1>6. CASE CoreKilled
  BY <1>0, <1>6, KillStep
<1>7. CASE OtherExport \/ UNCHANGED archiveVars
  <2>1. UNCHANGED queueVars
    BY <1>7 DEF OtherExport, archiveVars
  <2> QED  BY <2>1, <1>0 DEF queueVars, ArchivesInv
<1> QED  BY <1>1, <1>2, <1>3, <1>4, <1>5, <1>6, <1>7 DEF ArchiveNext

LEMMA ArchivesInvHolds == ArchiveSpec => []ArchivesInv
<1>1. GateInit /\ QueueInit => ArchivesInv
  BY ArchivesStart, QueueAssumption
<1>2. ArchivesInv /\ [ArchiveNext]_archiveVars => ArchivesInv'
  BY ArchivesStep, QueueAssumption
<1> QED  BY <1>1, <1>2, PTL DEF ArchiveSpec

\* The variables of the queue keep their types.
THEOREM QueueTypes == ArchiveSpec => []QueueTypeOK
<1>1. ArchivesInv => QueueTypeOK
  BY DEF ArchivesInv, Queue, QueueTypeOK
<1> QED  BY <1>1, ArchivesInvHolds, PTL

LEMMA ArchivesStayAwake == ASSUME ArchivesInv PROVE QueueNeverSleeps
<1>1. OneArchiveAtATime
  BY DEF ArchivesInv, OnlyMarked, Members, OneArchiveAtATime
<1>2. SomeoneWillPump
  BY DEF ArchivesInv, Waits, Members, Pending, SomeoneWillPump
<1> QED  BY <1>1, <1>2 DEF QueueNeverSleeps

\* One archive runs at a time and its entry is marked, in the file too; while an
\* entry waits an archive is under way, which pumps when it returns, or a retry
\* is scheduled: over cancellations, failures and kills of the core.
THEOREM QueueStaysAwake == ArchiveSpec => []QueueNeverSleeps
  BY ArchivesStayAwake, ArchivesInvHolds, PTL

\* Announced work stays in the file until it is done: neither the trimming of the
\* history nor a failure or a kill takes an entry that waits, and only the user
\* cancels one; what a kill interrupted stays too.
THEOREM AnnouncedStaysKept == ArchiveSpec => AnnouncedWorkIsKept
<1>1. ArchivesInv /\ [ArchiveNext]_archiveVars => [KeepsAnnounced]_archiveVars
  BY ArchivesStep, QueueAssumption
<1>2. ArchiveSpec => [][KeepsAnnounced]_archiveVars
  BY <1>1, ArchivesInvHolds, PTL DEF ArchiveSpec
<1> QED  BY <1>2 DEF AnnouncedWorkIsKept, KeepsAnnounced
=============================================================================
