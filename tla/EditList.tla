------------------------------- MODULE EditList -------------------------------
(***************************************************************************)
(* Frame-exact cuts of a stream copy (core/export/editList.js).            *)
(*                                                                         *)
(* A copy starts on the keyframe before the in point and drags pictures    *)
(* past the out point.  The edit list of the file says which span of its   *)
(* track is presented.  trimEditList first snaps the times onto the grid   *)
(* of frames, which renumbers every picture, and then shortens the span    *)
(* to the wanted number of frames.  Pictures are named by their place in   *)
(* the file, which is the order they are decoded in.                       *)
(***************************************************************************)
EXTENDS Order, Functions

CONSTANTS
  STEP,          \* ticks of the track per frame
  MediaScale,    \* ticks of the track per unit of time
  MovieScale,    \* ticks of the movie per unit of time: spans are in these
  HeadSizes,     \* how many pictures there are before the in point
  ShotSizes,     \* how many the shot has
  Tails,         \* which frames behind the shot were copied
  TimeBases,     \* ticks that one tick of the source is worth: its times are rounded to these
  Sounds         \* lengths of the segments of another track

ASSUME CutAssumption ==
  /\ {STEP, MediaScale, MovieScale} \subseteq Nat \ {0}
  /\ TimeBases \subseteq 1 .. STEP
  /\ STEP * MovieScale > 2 * MediaScale  \* a tick of the movie is less than half a frame
  /\ HeadSizes \subseteq Nat /\ ShotSizes \subseteq Nat \ {0}
  /\ \A tail \in Tails : IsFiniteSet(tail) /\ tail \subseteq Nat \ {0}
  /\ Sounds \subseteq Nat

VARIABLES
  movie,     \* the moov box: times, where the span begins, its length, the other track
  copied,    \* the movie as ffmpeg wrote it
  frames,    \* the frames it shall show
  gridded,   \* the moov is the last box of the file and the rate is known
  cut        \* trimEditList has run

cutVars == <<movie, copied, frames, gridded, cut>>
-----------------------------------------------------------------------------
Pictures(m) == DOMAIN m.pts
Times(m) == {m.pts[i] : i \in Pictures(m)}
Visible(m) == {i \in Pictures(m) : m.pts[i] >= m.mediaTime}

Least(S) == CHOOSE x \in S : \A y \in S : x <= y
Greatest(S) == CHOOSE x \in S : \A y \in S : x >= y
Lower(x, y) == IF x < y THEN x ELSE y
Nearest(v, unit) == ((2 * v + unit) \div (2 * unit)) * unit
Total(s) ==
  LET sum[k \in 0 .. Len(s)] == IF k = 0 THEN 0 ELSE sum[k - 1] + s[k] IN sum[Len(s)]
-----------------------------------------------------------------------------
\* Pictures are decoded at most two places before or after their turn; orders
\* give the place in time of each picture of the file.
Reorders(n) ==
  {order \in [1 .. n -> 1 .. n] :
     IsInjective(order) /\ \A i \in 1 .. n : order[i] - i \in -2 .. 2}

\* The places in time of the pictures from the in point on, from 1.
PlacesOf(size, tail) == Ascending(1 .. size \cup {size + t : t \in tail})

\* What a copy writes: a head that keeps its times or was numbered one tick
\* apart, the shot, and what was dragged behind it; the span ends with the last
\* picture and the other track is cut nowhere.
CopyOf(head, size, tail, order, apart, base, lead, sound) ==
  LET places == PlacesOf(size, tail)
      time(r) == IF r <= head THEN head * STEP + (r - head) * apart
                 ELSE Nearest((head - 1 + places[r - head]) * STEP + STEP, base)
      pts == [i \in DOMAIN order |-> time(order[i])]
      begin == time(head + 1)
      end == time(Len(order)) + STEP
      span == ((end - begin) * MovieScale + MediaScale - 1) \div MediaScale
  IN [pts |-> pts, dts |-> <<>>, mediaTime |-> begin, span |-> span, lead |-> lead,
      sound |-> sound, length |-> lead + span]

CutInit ==
  /\ \E head \in HeadSizes, size \in ShotSizes, tail \in Tails,
        base \in TimeBases, lead \in {0, 2}, first \in Sounds, second \in Sounds :
     \E order \in Reorders(head + size + Cardinality(tail)), apart \in {1, STEP} :
       /\ frames = size
       /\ movie = CopyOf(head, size, tail, order, apart, base, lead, <<first, second>>)
  /\ copied = movie /\ gridded \in BOOLEAN /\ cut = FALSE
-----------------------------------------------------------------------------
\* Every picture that is shown lies within a third of a frame of the grid.
OnGrid(m) ==
  \A i \in Visible(m) :
    LET off == m.pts[i] - Nearest(m.pts[i], STEP) IN 3 * off <= STEP /\ -3 * off <= STEP

\* The times on the grid.  A hidden picture gets a place before the first shown
\* one by its turn in the file: such times are often made up.
Snapped(m) ==
  LET shown == Visible(m)
      hidden == Pictures(m) \ shown
      first == Least({Nearest(m.pts[i], STEP) : i \in shown})
  IN [i \in Pictures(m) |->
        IF i \in shown THEN Nearest(m.pts[i], STEP)
        ELSE first - Cardinality({j \in hidden : j >= i}) * STEP]

\* Decode times: the times of presentation in order, less the deepest reordering.
Conformed(m) ==
  LET pts == Snapped(m)
      sorted == Ascending({pts[i] : i \in DOMAIN pts})
      delay == Greatest({sorted[i] - pts[i] : i \in DOMAIN pts})
      base == sorted[1] - delay
      first == Least({pts[i] : i \in Visible(m)})
  IN [m EXCEPT !.pts = [i \in DOMAIN pts |-> pts[i] - base],
               !.dts = [i \in DOMAIN pts |-> sorted[i] - delay - base],
               !.mediaTime = first - base]

\* conformMoov: variable times are left alone.
ConformMoov(m) == IF OnGrid(m) /\ IsInjective(Snapped(m)) THEN Conformed(m) ELSE m
-----------------------------------------------------------------------------
\* Mutant: the segment ends where the next copied picture begins.
SpanOfToNext(m) ==
  LET sorted == Ascending(Times(m))
      end == Least({k \in DOMAIN sorted : sorted[k] >= m.mediaTime}) + frames - 1
      stop == IF end < Len(sorted) THEN sorted[end + 1] ELSE sorted[end] + STEP
  IN ((stop - m.mediaTime) * MovieScale) \div MediaScale

\* The segment ends one frame after the last wanted picture, or on the next one
\* when that comes earlier.
SpanOf(m) ==
  LET sorted == Ascending(Times(m))
      first == Least({k \in DOMAIN sorted : sorted[k] >= m.mediaTime})
      end == first + frames - 1
      last == sorted[end]
      step == IF frames > 1 THEN last - sorted[end - 1]
              ELSE IF first < Len(sorted) THEN sorted[first + 1] - last
              ELSE last - sorted[first - 1]
      stop == IF end < Len(sorted) THEN Lower(sorted[end + 1], last + step) ELSE last + step
  IN ((stop - m.mediaTime) * MovieScale) \div MediaScale

\* The segments of another track, cut where the pictures end.
Clamped(s, end) ==
  [k \in DOMAIN s |-> Lower(Total(SubSeq(s, 1, k)), end) - Lower(Total(SubSeq(s, 1, k - 1)), end)]

MayTrim(m) ==
  /\ Cardinality(Visible(m)) >= frames /\ Cardinality(Pictures(m)) >= 2
  /\ SpanOf(m) > 0 /\ SpanOf(m) < m.span

TrimMoov(m) ==
  IF MayTrim(m)
  THEN [m EXCEPT !.span = SpanOf(m), !.length = m.lead + SpanOf(m),
                 !.sound = Clamped(@, m.lead + SpanOf(m))]
  ELSE m

\* The tables may only change their size when nothing follows them.
TrimEditList ==
  /\ ~ cut /\ cut' = TRUE
  /\ movie' = TrimMoov(IF gridded THEN ConformMoov(movie) ELSE movie)
  /\ UNCHANGED <<copied, frames, gridded>>

CutNext == TrimEditList \/ (cut /\ UNCHANGED cutVars)
CutSpec == CutInit /\ [][CutNext]_cutVars
-----------------------------------------------------------------------------
CutTypeOK ==
  /\ \A m \in {movie, copied} :
       /\ Pictures(m) = Pictures(copied) /\ Times(m) \subseteq Int
       /\ Len(m.dts) \in {0, Cardinality(Pictures(m))}
       /\ m.mediaTime \in Times(m) /\ {m.span, m.length, m.lead} \subseteq Nat
       /\ \A k \in DOMAIN m.sound : m.sound[k] \in Nat
  /\ frames \in ShotSizes /\ gridded \in BOOLEAN /\ cut \in BOOLEAN

\* What a player shows that honours the edit list: the pictures of the span, in order.
Shown(m) ==
  InOrder({i \in Visible(m) : (m.pts[i] - m.mediaTime) * MovieScale < m.span * MediaScale}, m.pts)

\* The cut shows the pictures of the shot: the first `frames` of those the copy
\* shows, in their order, whatever was dragged in with them and renumbered.
ShowsTheShot == Shown(movie) = SubSeq(Shown(copied), 1, frames)

\* On the grid a cut of two frames or more lasts no longer than its frames.  (Of
\* one frame the code takes the distance to the next copied picture for its
\* length, which a hole behind it makes longer: EndsWithItsFrames is not kept.)
LastsItsFrames(least) ==
  movie.dts # <<>> /\ frames >= least =>
    movie.span * MediaScale <= frames * STEP * MovieScale

\* Rebuilt decode times start at zero, increase with the place in the file, and no
\* picture is shown before it is decoded.
DecodesInTime ==
  movie.dts # <<>> =>
    /\ movie.dts[1] = 0
    /\ \A i, j \in Pictures(movie) : i < j => movie.dts[i] < movie.dts[j]
    /\ \A i \in Pictures(movie) : movie.dts[i] <= movie.pts[i]

\* The other track ends where it did or with the pictures, whatever comes first.
SoundEndsWithIt ==
  movie # copied /\ movie.span < copied.span =>
    Total(movie.sound) = Lower(Total(copied.sound), movie.length)

\* A trimmed copy is an exact cut.
CutsAreExact ==
  cut => ShowsTheShot /\ LastsItsFrames(2) /\ DecodesInTime /\ SoundEndsWithIt

\* Not kept: docs/invariants.md says that the segment ends after exactly the
\* shot's frame count.
EndsWithItsFrames == cut => LastsItsFrames(1)
=============================================================================
