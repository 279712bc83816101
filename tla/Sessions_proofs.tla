---------------------------- MODULE Sessions_proofs ----------------------------
(*******************************************************************************)
(* The sessions behind the renderer: the session of a shared notebook          *)
(* (NotebookSession), the publication of a collection (CollectionShare) and    *)
(* the turns of the assistant (AgentTurns).                                    *)
(*                                                                             *)
(* A session of a shared notebook sends the difference between what it sees    *)
(* and what the service will apply it to, and hides nothing it has yet to      *)
(* send, however many pages, letters and sessions there are.                   *)
(*                                                                             *)
(* The first part follows from the replies alone: the branch that the          *)
(* service made holds what was captured.  The second needs to know where       *)
(* what was typed waits: it is pending, and a flush under way carries all      *)
(* of it unless the version has moved since it was captured.                   *)
(*                                                                             *)
(* The server, the document and the collection agree wherever a                *)
(* publication is cut.  A publication works on the project the collection      *)
(* names (JobInv): it keeps naming it until it is deleted, what the            *)
(* collection counts as published was claimed in it, and each stage leaves     *)
(* the shots it has dealt with where the next one needs them.                  *)
(*                                                                             *)
(* What the assistant runs was agreed to, however many turns overlap and in    *)
(* whatever order answers and settings arrive.  A call is given a number       *)
(* above all the others, so that a card, wherever it is (on its way, shown,    *)
(* answered), names one turn: the only one that may wait under its number.     *)
(* A tool that runs was allowed by the mode it was checked in, or by an        *)
(* answer to such a card.                                                      *)
(*******************************************************************************)
EXTENDS NotebookSession, CollectionShare, AgentTurns, SequenceTheorems, TLAPS

PendingInv ==
  /\ "away" \in flags => unsent = {} /\ (step = "off" \/ "closing" \in flags)
  /\ "pending" \notin flags => unsent = {}
  /\ "pending" \in flags => "ready" \in flags
  /\ step \in {"sending", "applied"} =>
       /\ "pending" \in flags
       /\ "moved" \notin flags => unsent \subseteq carried[active]

NotebookInv == NotebookTypeOK /\ SessionIsFaithful /\ PendingInv

\* What an action with a session's calls leaves of the pages is pages again.
LEMMA MergedType ==
  ASSUME NotebookTypeOK, NEW pages \in Texts
  PROVE  MergedPages(pages) \in Texts
  BY DEF NotebookTypeOK, MergedPages, Texts

\* The branch that the service makes of the base holds what was captured.
LEMMA BranchIsCaptured ==
  ASSUME NotebookTypeOK, base = snapshot
  PROVE  AuthoredBase = carried
<1>1. carried = [p \in Pages |-> carried[p]]
  BY DEF NotebookTypeOK, Texts
<1>2. \A p \in Pages :
        (snapshot[p] \ (snapshot[p] \ carried[p])) \cup (carried[p] \ snapshot[p]) = carried[p]
  OBVIOUS
<1> QED BY <1>1, <1>2 DEF AuthoredBase, MergedPages

LEMMA LocalType ==
  ASSUME NotebookTypeOK
  PROVE  Local \in Texts
  BY DEF NotebookTypeOK, Local, Texts

\* A capture holds what was typed on the open page and not sent.
LEMMA CaptureHoldsUnsent ==
  ASSUME NotebookTypeOK, TypingStaysOnScreen, PendingInv
  PROVE  unsent \subseteq Local[active]
  BY DEF NotebookTypeOK, TypingStaysOnScreen, PendingInv, Local, Held

LEMMA InitInv ==
  ASSUME NotebookInit
  PROVE  NotebookInv
  BY NotebookAssumption DEF NotebookInit, NotebookInv, NotebookTypeOK, SessionIsFaithful,
         DiffedAgainstTheBase, TypingStaysOnScreen, PendingInv, NoText, Texts, Letters, Flags

LEMMA NextInv ==
  ASSUME NotebookInv, [NotebookNext]_notebookVars
  PROVE  NotebookInv'
<1> USE NotebookAssumption DEF NotebookInv, NotebookTypeOK, SessionIsFaithful,
            DiffedAgainstTheBase, TypingStaysOnScreen, PendingInv, Flags, Held, Letters, Texts,
            known, shown, letters, counts
<1>1. ASSUME NEW l \in Mine, Type(l) PROVE NotebookInv'
  BY <1>1 DEF Type, Edits, LocalChange, Scheduled
<1>2. ASSUME NEW l \in Letters, Erase(l) PROVE NotebookInv'
  BY <1>2 DEF Erase, Edits, LocalChange, Scheduled
<1>3. ASSUME NEW p \in Pages, NEW l \in Letters, RemoteEdit(p, l) PROVE NotebookInv'
  BY <1>3 DEF RemoteEdit, Announced
<1>4. ASSUME NEW p \in Pages, SwitchBegins(p) PROVE NotebookInv'
  BY <1>4 DEF SwitchBegins, StoredPage
<1>5. ASSUME NEW p \in Pages, StoreProjected(p) PROVE NotebookInv'
  BY <1>5 DEF StoreProjected
<1>6. ASSUME Autosave PROVE NotebookInv'
  BY <1>6 DEF Autosave, StoredPage
<1>7. ASSUME SwitchEnds PROVE NotebookInv'
  BY <1>7 DEF SwitchEnds, LocalChange, Scheduled
<1>8. ASSUME ListChanges PROVE NotebookInv'
  BY <1>8 DEF ListChanges, LocalChange, Scheduled
<1>9. ASSUME Open PROVE NotebookInv'
  BY <1>9 DEF Open
<1>10. ASSUME FlushTimerFires PROVE NotebookInv'
  <2>1. NotebookTypeOK'
    BY LocalType, CaptureHoldsUnsent, <1>10 DEF FlushTimerFires, Flush
  <2>2. SessionIsFaithful'
    BY <1>10 DEF FlushTimerFires, Flush
  <2>3. PendingInv'
    BY LocalType, CaptureHoldsUnsent, <1>10 DEF FlushTimerFires, Flush
  <2> QED BY <2>1, <2>2, <2>3
<1>11. ASSUME ApplyExecutes PROVE NotebookInv'
  BY MergedType, <1>11 DEF ApplyExecutes, Announced
<1>12. ASSUME ApplyReplies PROVE NotebookInv'
  BY BranchIsCaptured, <1>12 DEF ApplyReplies, FlagsFinished, Scheduled, NoText
<1>13. ASSUME ProjectionAnswers PROVE NotebookInv'
  BY <1>13 DEF ProjectionAnswers
<1>14. ASSUME HoldProjection PROVE NotebookInv'
  BY <1>14 DEF HoldProjection, ProjectionMayShow, FlagsFinished, Scheduled, NoText
<1>15. ASSUME ShowProjection PROVE NotebookInv'
  <2>1. NotebookTypeOK'
    <3>1. flags' \in SUBSET Flags /\ (step' = "off" => flags' \subseteq {"dirty", "away"})
      BY <1>15 DEF ShowProjection, ProjectionMayShow, NoText
    <3> QED BY <3>1, <1>15 DEF ShowProjection, ProjectionMayShow, NoText
  <2>2. SessionIsFaithful'
    BY <1>15 DEF ShowProjection, ProjectionMayShow, NoText
  <2>3. PendingInv'
    BY <1>15 DEF ShowProjection, ProjectionMayShow, NoText
  <2> QED BY <2>1, <2>2, <2>3
<1>16. ASSUME ProjectionEnds PROVE NotebookInv'
  BY <1>16 DEF ProjectionEnds, FlagsFinished, Scheduled
<1>17. ASSUME CallFails PROVE NotebookInv'
  <2>1. NotebookTypeOK'
    <3>1. flags' \in SUBSET Flags /\ (step' = "off" => flags' \subseteq {"dirty", "away"})
      BY <1>17 DEF CallFails, NoText
    <3> QED BY <3>1, <1>17 DEF CallFails, NoText
  <2>2. SessionIsFaithful'
    BY <1>17 DEF CallFails, NoText
  <2>3. PendingInv'
    BY <1>17 DEF CallFails, NoText
  <2> QED BY <2>1, <2>2, <2>3
<1>18. ASSUME Retry PROVE NotebookInv'
  BY <1>18 DEF Retry, Scheduled
<1>19. ASSUME ChangeArrives PROVE NotebookInv'
  BY <1>19 DEF ChangeArrives, Scheduled
<1>20. ASSUME NEW leaves \in BOOLEAN, CloseSession(leaves) PROVE NotebookInv'
  <2>1. NotebookTypeOK'
    <3>1. flags' \in SUBSET Flags /\ (step' = "off" => flags' \subseteq {"dirty", "away"})
      BY <1>20 DEF CloseSession, StoredPage
    <3> QED BY <3>1, <1>20 DEF CloseSession, StoredPage
  <2>2. SessionIsFaithful'
    BY <1>20 DEF CloseSession, StoredPage
  <2>3. PendingInv'
    BY <1>20 DEF CloseSession, StoredPage
  <2> QED BY <2>1, <2>2, <2>3
<1>21. ASSUME CloseFlushes PROVE NotebookInv'
  <2>1. NotebookTypeOK'
    BY LocalType, CaptureHoldsUnsent, <1>21 DEF CloseFlushes, Flush
  <2>2. SessionIsFaithful'
    BY <1>21 DEF CloseFlushes, Flush
  <2>3. PendingInv'
    BY LocalType, CaptureHoldsUnsent, <1>21 DEF CloseFlushes, Flush
  <2> QED BY <2>1, <2>2, <2>3
<1>22. ASSUME Dispose PROVE NotebookInv'
  BY MergedType, <1>22 DEF Dispose, NoText
<1>23. ASSUME AuthFails PROVE NotebookInv'
  BY <1>23 DEF AuthFails
<1>24. CASE UNCHANGED notebookVars
  BY <1>24 DEF notebookVars
<1> QED
  BY <1>1, <1>2, <1>3, <1>4, <1>5, <1>6, <1>7, <1>8, <1>9, <1>10, <1>11, <1>12, <1>13, <1>14,
     <1>15, <1>16, <1>17, <1>18, <1>19, <1>20, <1>21, <1>22, <1>23, <1>24 DEF NotebookNext

\* In every session the differences are made against the content that the
\* service applies them to, and what was typed on the open page stays on it
\* until it has been sent (useNotebookCollaboration.ts, flush and project).
THEOREM SessionStaysFaithful == NotebookSpec => []SessionIsFaithful
<1>1. NotebookInit => NotebookInv
  BY InitInv
<1>2. NotebookInv /\ [NotebookNext]_notebookVars => NotebookInv'
  BY NextInv
<1>3. NotebookInv => SessionIsFaithful
  BY DEF NotebookInv
<1> QED BY <1>1, <1>2, <1>3, PTL DEF NotebookSpec

\* Every variable keeps its range, and nothing pending outlives a session.
THEOREM NotebookTypes == NotebookSpec => []NotebookTypeOK
<1>1. NotebookInit => NotebookInv
  BY InitInv
<1>2. NotebookInv /\ [NotebookNext]_notebookVars => NotebookInv'
  BY NextInv
<1>3. NotebookInv => NotebookTypeOK
  BY DEF NotebookInv
<1> QED BY <1>1, <1>2, <1>3, PTL DEF NotebookSpec

-----------------------------------------------------------------------------
OpenedStages == {"open", "archive", "prepare", "gather", "apply", "register", "flush", "reload", "save"}
FreshShots == job.shots \ job.done
Claimed(S) == job.project \in Live => \A s \in S : claims[job.project][s] # "none"

\* Only what exists on the server has rows and heads.
OthersAreEmpty ==
  \A p \in ShareProjects \ Live : claims[p] = NoClaims /\ p \notin recoverable

BindingInv ==
  /\ binding.project # NoShare => binding.pending = NoShare
  /\ binding.published # {} => binding.project # NoShare
  /\ stopping => binding.project # NoShare /\ binding.project \notin Live

JobInv ==
  /\ At("create") \/ At("reserve") =>
       /\ binding.project = NoShare /\ binding.pending = NoShare
       /\ job.read.project = NoShare /\ job.read.published = {}
  /\ job.at \notin {"none", "load", "create"} =>
       /\ job.project \in ShareProjects
       /\ binding.project \in {NoShare, job.project}
       /\ binding.pending \in {NoShare, job.project}
  /\ job.at \in OpenedStages /\ job.project \in Live =>
       job.project \in {binding.project, binding.pending}
  /\ job.at \in {"apply", "register", "flush", "reload", "save"} => Claimed(job.done)
  /\ At("apply") => job.left = FreshShots
  /\ At("register") =>
       FreshShots \subseteq holds[job.project] /\ job.left \subseteq FreshShots /\ Claimed(FreshShots \ job.left)
  /\ job.at \in {"flush", "reload", "save"} => Claimed(FreshShots)
  /\ At("unreserve") => job.project \notin Live

\* ShareTypeOK without the job and the faults, which are proved apart.
RestOK ==
  /\ ranged \in [ShareShots -> {"new", "in", "out"}] /\ binding \in Binding
  /\ projects \in [ShareProjects -> {"new", "live", "gone"}]
  /\ recoverable \in SUBSET ShareProjects
  /\ claims \in [ShareProjects -> [ShareShots -> {"none", "shown", "removed"}]]
  /\ holds \in [ShareProjects -> SUBSET ShareShots]
  /\ ranging \in SUBSET Inside
  /\ waiting \in SUBSET ShareShots /\ told \in SUBSET ShareShots
  /\ stopping \in BOOLEAN

ShareInv == ShareTypeOK /\ SharesAgree /\ OthersAreEmpty /\ BindingInv /\ JobInv

-----------------------------------------------------------------------------
LEMMA NoJobType == NoJob \in Job /\ Unshared \in Binding
  BY DEF NoJob, Job, Unshared, Binding, Stages

LEMMA FailType == ASSUME job \in Job, Fail PROVE job' \in Job
  BY NoJobType DEF Fail, Job, Stages

LEMMA FaultsStep == ASSUME ShareTypeOK, ShareNext PROVE shareFaults' \in 0 .. MaxShareFaults
<1>1. shareFaults' = shareFaults \/ Fault
  BY DEF ShareNext, local, callers, serverVars, AddToCollection, PublishRanged, TakeOut, PutBack, Share,
      StopDeletes, StopUnbinds, CreateProject, RemoveClaim, LoadCollection, Reserve, OpenShare,
      PublishesInBackground, StartPrepare, EndPrepare, Gather, Apply, Register, Registered,
      FlushShare, Reload, SaveBinding, StageFails, Abort, Unreserve, ShareCloses
<1> QED
  BY <1>1, ShareAssumption DEF Fault, ShareTypeOK

LEMMA JobStep == ASSUME ShareTypeOK, ShareNext PROVE job' \in Job
<1> USE NoJobType DEF ShareTypeOK, Job, Stages, Binding, Inside, At, GoesTo, serverVars
<1>1. ASSUME NEW s \in ShareShots, AddToCollection(s) PROVE job' \in Job
  BY <1>1 DEF AddToCollection
<1>2. ASSUME NEW s \in ShareShots, PublishRanged(s) PROVE job' \in Job
  BY <1>2, ZenonT(60) DEF PublishRanged, StartsOrJoins
<1>3. ASSUME NEW s \in ShareShots, TakeOut(s) PROVE job' \in Job
  BY <1>3 DEF TakeOut
<1>4. ASSUME Share PROVE job' \in Job
  BY <1>4 DEF Share, StartsOrJoins
<1>5. ASSUME StopDeletes PROVE job' \in Job
  BY <1>5 DEF StopDeletes, Deleted
<1>6. ASSUME StopUnbinds PROVE job' \in Job
  BY <1>6 DEF StopUnbinds
<1>7. ASSUME NEW p \in ShareProjects, CreateProject(p) PROVE job' \in Job
  BY <1>7, ZenonT(60) DEF CreateProject
<1>8. ASSUME NEW p \in ShareProjects, NEW s \in ShareShots, RemoveClaim(p, s) PROVE job' \in Job
  BY <1>8 DEF RemoveClaim
<1>9. ASSUME LoadCollection PROVE job' \in Job
  BY <1>9 DEF LoadCollection, Named
<1>10. ASSUME Reserve PROVE job' \in Job
  BY <1>10 DEF Reserve
<1>11. ASSUME OpenShare PROVE job' \in Job
  BY <1>11 DEF OpenShare
<1>12. ASSUME PublishesInBackground PROVE job' \in Job
  BY <1>12 DEF PublishesInBackground
<1>13. ASSUME StartPrepare PROVE job' \in Job
  BY <1>13 DEF StartPrepare
<1>14. ASSUME EndPrepare PROVE job' \in Job
  <2>1. CASE Fail
    BY <2>1, FailType
  <2>2. CASE job' = [job EXCEPT !.at = "gather", !.shots = Inside]
    BY <2>2
  <2> QED
    BY <1>14, <2>1, <2>2 DEF EndPrepare
<1>15. ASSUME Gather PROVE job' \in Job
  <2>1. CASE Fail
    BY <2>1, FailType
  <2>2. CASE job' = [job EXCEPT !.at = "apply", !.done = binding.published,
                                 !.left = job.shots \ binding.published]
    BY <2>2
  <2> QED
    BY <1>15, <2>1, <2>2 DEF Gather, Following
<1>16. ASSUME Apply PROVE job' \in Job
  BY <1>16 DEF Apply, Following
<1>17. ASSUME NEW b \in SUBSET ShareShots, Register(b) PROVE job' \in Job
  <2>1. CASE Fail
    BY <2>1, FailType
  <2>2. CASE job' = [job EXCEPT !.left = @ \ b]
    BY <2>2
  <2> QED
    BY <1>17, <2>1, <2>2 DEF Register, Batches
<1>18. ASSUME Registered PROVE job' \in Job
  BY <1>18 DEF Registered, Following
<1>19. ASSUME FlushShare PROVE job' \in Job
  <2>1. CASE Fail
    BY <2>1, FailType
  <2>2. CASE job' = [job EXCEPT !.at = "reload"]
    BY <2>2
  <2> QED
    BY <1>19, <2>1, <2>2 DEF FlushShare
<1>20. ASSUME Reload PROVE job' \in Job
  BY <1>20 DEF Reload
<1>21. ASSUME SaveBinding PROVE job' \in Job
  BY <1>21 DEF SaveBinding
<1>22. ASSUME StageFails PROVE job' \in Job
  BY <1>22, ZenonT(60) DEF StageFails, Fail
<1>23. ASSUME Abort PROVE job' \in Job
  <2>1. job' = [job EXCEPT !.at = "unreserve"] \/ job' = NoJob
    BY <1>23 DEF Abort
  <2> QED
    BY <2>1, ZenonT(60)
<1>24. ASSUME Unreserve PROVE job' \in Job
  BY <1>24 DEF Unreserve
<1>25. ASSUME ShareCloses PROVE job' \in Job
  BY <1>25 DEF ShareCloses
<1>26. ASSUME NEW s \in ShareShots, PutBack(s) PROVE job' \in Job
  BY <1>26 DEF PutBack
<1> QED
  BY <1>1, <1>2, <1>3, <1>4, <1>5, <1>6, <1>7, <1>8, <1>9, <1>10, <1>11, <1>12, <1>13, <1>14,
     <1>15, <1>16, <1>17, <1>18, <1>19, <1>20, <1>21, <1>22, <1>23, <1>24, <1>25, <1>26
     DEF ShareNext

LEMMA RestStep == ASSUME ShareTypeOK, ShareNext PROVE RestOK'
<1> USE NoJobType DEF ShareTypeOK, RestOK, Inside, GoesTo, Fail, CallersFail, serverVars, local,
      callers
<1>0. /\ job.project \in ShareProjects \cup {NoShare} /\ job.shots \in SUBSET ShareShots
      /\ job.done \in SUBSET ShareShots /\ job.read \in Binding
  BY DEF Job
<1>1. ASSUME NEW s \in ShareShots, AddToCollection(s) PROVE RestOK'
  BY <1>0, <1>1 DEF AddToCollection
<1>2. ASSUME NEW s \in ShareShots, PublishRanged(s) PROVE RestOK'
  BY <1>0, <1>2 DEF PublishRanged, StartsOrJoins
<1>3. ASSUME NEW s \in ShareShots, TakeOut(s) PROVE RestOK'
  BY <1>0, <1>3 DEF TakeOut
<1>4. ASSUME Share PROVE RestOK'
  BY <1>0, <1>4 DEF Share, StartsOrJoins
<1>5. ASSUME StopDeletes PROVE RestOK'
  BY <1>0, <1>5 DEF StopDeletes, Deleted, NoClaims, Live
<1>6. ASSUME StopUnbinds PROVE RestOK'
  BY <1>0, <1>6 DEF StopUnbinds
<1>7. ASSUME NEW p \in ShareProjects, CreateProject(p) PROVE RestOK'
  BY <1>0, <1>7 DEF CreateProject
<1>8. ASSUME NEW p \in ShareProjects, NEW s \in ShareShots, RemoveClaim(p, s) PROVE RestOK'
  BY <1>0, <1>8 DEF RemoveClaim, Live
<1>9. ASSUME LoadCollection PROVE RestOK'
  BY <1>0, <1>9 DEF LoadCollection, Named
<1>10. ASSUME Reserve PROVE RestOK'
  BY <1>0, <1>10 DEF Reserve, Binding
<1>11. ASSUME OpenShare PROVE RestOK'
  BY <1>0, <1>11 DEF OpenShare
<1>12. ASSUME PublishesInBackground PROVE RestOK'
  BY <1>0, <1>12 DEF PublishesInBackground, Live
<1>13. ASSUME StartPrepare PROVE RestOK'
  BY <1>0, <1>13 DEF StartPrepare
<1>14. ASSUME EndPrepare PROVE RestOK'
  BY <1>0, <1>14 DEF EndPrepare
<1>15. ASSUME Gather PROVE RestOK'
  BY <1>0, <1>15 DEF Gather, Following
<1>16. ASSUME Apply PROVE RestOK'
  BY <1>0, <1>16 DEF Apply, Following
<1>17. ASSUME NEW b \in SUBSET ShareShots, Register(b) PROVE RestOK'
  BY <1>0, <1>17 DEF Register, Batches, Live
<1>18. ASSUME Registered PROVE RestOK'
  BY <1>0, <1>18 DEF Registered, Following
<1>19. ASSUME FlushShare PROVE RestOK'
  BY <1>0, <1>19 DEF FlushShare, Live
<1>20. ASSUME Reload PROVE RestOK'
  BY <1>0, <1>20 DEF Reload
<1>21. ASSUME SaveBinding PROVE RestOK'
  BY <1>0, <1>21 DEF SaveBinding, Binding
<1>22. ASSUME StageFails PROVE RestOK'
  BY <1>0, <1>22 DEF StageFails
<1>23. ASSUME Abort PROVE RestOK'
  <2>1. CASE UNCHANGED serverVars
    BY <1>23, <2>1 DEF Abort
  <2>2. CASE Deleted(job.project)
    <3>1. recoverable' \in SUBSET ShareProjects
      BY <2>2 DEF Deleted
    <3>2. projects' \in [ShareProjects -> {"new", "live", "gone"}]
      BY <2>2 DEF Deleted
    <3>3. claims' \in [ShareProjects -> [ShareShots -> {"none", "shown", "removed"}]]
      BY <2>2 DEF Deleted, NoClaims
    <3> QED
      BY <1>23, <3>1, <3>2, <3>3 DEF Abort
  <2> QED
    BY <1>23, <2>1, <2>2 DEF Abort
<1>24. ASSUME Unreserve PROVE RestOK'
  BY <1>0, <1>24 DEF Unreserve, Binding
<1>25. ASSUME ShareCloses PROVE RestOK'
  BY <1>0, <1>25 DEF ShareCloses
<1>26. ASSUME NEW s \in ShareShots, PutBack(s) PROVE RestOK'
  BY <1>0, <1>26 DEF PutBack
<1> QED
  BY <1>1, <1>2, <1>3, <1>4, <1>5, <1>6, <1>7, <1>8, <1>9, <1>10, <1>11, <1>12, <1>13, <1>14,
     <1>15, <1>16, <1>17, <1>18, <1>19, <1>20, <1>21, <1>22, <1>23, <1>24, <1>25, <1>26
     DEF ShareNext

LEMMA ShareTypeStep == ASSUME ShareTypeOK, ShareNext PROVE ShareTypeOK'
  BY FaultsStep, JobStep, RestStep DEF ShareTypeOK, RestOK, Inside
-----------------------------------------------------------------------------
LEMMA NoJobInv == ASSUME job' = NoJob PROVE JobInv'
  BY DEF NoJob, JobInv, OpenedStages, At

LEMMA FailInv ==
  ASSUME JobInv, job \in Job, job.at \notin {"none", "load", "create"}, Fail, UNCHANGED binding
  PROVE JobInv'
<1>1. CASE job' = NoJob
  BY <1>1, NoJobInv
<1>2. CASE job' = [job EXCEPT !.at = "abort"]
  <2>1. job'.at = "abort" /\ job'.project = job.project
    BY <1>2 DEF Job
  <2> QED
    BY <2>1 DEF JobInv, OpenedStages, At
<1> QED
  BY <1>1, <1>2 DEF Fail

LEMMA EmptyBindingStep ==
  ASSUME ShareInv, ShareTypeOK', ShareNext
  PROVE OthersAreEmpty' /\ BindingInv'
<1> USE ShareAssumption DEF ShareInv, ShareTypeOK, Live, At, GoesTo, serverVars, local, callers,
      NoClaims, OthersAreEmpty, BindingInv, JobInv, OpenedStages, Fail, GivesUp, NoJob, Unshared
<1>1. ASSUME NEW s \in ShareShots, AddToCollection(s) PROVE OthersAreEmpty' /\ BindingInv'
  BY <1>1 DEF AddToCollection
<1>2. ASSUME NEW s \in ShareShots, PublishRanged(s) PROVE OthersAreEmpty' /\ BindingInv'
  BY <1>2 DEF PublishRanged, StartsOrJoins
<1>3. ASSUME NEW s \in ShareShots, TakeOut(s) PROVE OthersAreEmpty' /\ BindingInv'
  BY <1>3 DEF TakeOut
<1>4. ASSUME Share PROVE OthersAreEmpty' /\ BindingInv'
  BY <1>4 DEF Share, StartsOrJoins
<1>5. ASSUME StopDeletes PROVE OthersAreEmpty' /\ BindingInv'
  BY <1>5 DEF StopDeletes, Deleted
<1>6. ASSUME StopUnbinds PROVE OthersAreEmpty' /\ BindingInv'
  BY <1>6 DEF StopUnbinds
<1>7. ASSUME NEW p \in ShareProjects, CreateProject(p) PROVE OthersAreEmpty' /\ BindingInv'
  BY <1>7 DEF CreateProject
<1>8. ASSUME NEW p \in ShareProjects, NEW s \in ShareShots, RemoveClaim(p, s)
      PROVE OthersAreEmpty' /\ BindingInv'
  BY <1>8 DEF RemoveClaim
<1>9. ASSUME LoadCollection PROVE OthersAreEmpty' /\ BindingInv'
  BY <1>9 DEF LoadCollection, Named
<1>10. ASSUME Reserve PROVE OthersAreEmpty' /\ BindingInv'
  BY <1>10 DEF Reserve
<1>11. ASSUME OpenShare PROVE OthersAreEmpty' /\ BindingInv'
  BY <1>11 DEF OpenShare
<1>12. ASSUME PublishesInBackground PROVE OthersAreEmpty' /\ BindingInv'
  BY <1>12 DEF PublishesInBackground
<1>13. ASSUME StartPrepare PROVE OthersAreEmpty' /\ BindingInv'
  BY <1>13 DEF StartPrepare
<1>14. ASSUME EndPrepare PROVE OthersAreEmpty' /\ BindingInv'
  BY <1>14 DEF EndPrepare
<1>15. ASSUME Gather PROVE OthersAreEmpty' /\ BindingInv'
  BY <1>15 DEF Gather, Following
<1>16. ASSUME Apply PROVE OthersAreEmpty' /\ BindingInv'
  BY <1>16 DEF Apply, Following
<1>17. ASSUME NEW b \in SUBSET ShareShots, Register(b) PROVE OthersAreEmpty' /\ BindingInv'
  BY <1>17 DEF Register, Batches
<1>18. ASSUME Registered PROVE OthersAreEmpty' /\ BindingInv'
  BY <1>18 DEF Registered, Following
<1>19. ASSUME FlushShare PROVE OthersAreEmpty' /\ BindingInv'
  BY <1>19 DEF FlushShare
<1>20. ASSUME Reload PROVE OthersAreEmpty' /\ BindingInv'
  BY <1>20 DEF Reload
<1>21. ASSUME SaveBinding PROVE OthersAreEmpty' /\ BindingInv'
  BY <1>21 DEF SaveBinding
<1>22. ASSUME StageFails PROVE OthersAreEmpty' /\ BindingInv'
  BY <1>22 DEF StageFails
<1>23. ASSUME Abort PROVE OthersAreEmpty' /\ BindingInv'
  BY <1>23 DEF Abort, Deleted
<1>24. ASSUME Unreserve PROVE OthersAreEmpty' /\ BindingInv'
  BY <1>24 DEF Unreserve
<1>25. ASSUME ShareCloses PROVE OthersAreEmpty' /\ BindingInv'
  BY <1>25 DEF ShareCloses
<1>26. ASSUME NEW s \in ShareShots, PutBack(s) PROVE OthersAreEmpty' /\ BindingInv'
  BY <1>26 DEF PutBack
<1> QED
  BY <1>1, <1>2, <1>3, <1>4, <1>5, <1>6, <1>7, <1>8, <1>9, <1>10, <1>11, <1>12, <1>13, <1>14,
     <1>15, <1>16, <1>17, <1>18, <1>19, <1>20, <1>21, <1>22, <1>23, <1>24, <1>25, <1>26
     DEF ShareNext

LEMMA AgreeStep == ASSUME ShareInv, ShareTypeOK', ShareNext PROVE SharesAgree'
<1> USE ShareAssumption DEF ShareInv, ShareTypeOK, Live, Inside, At, GoesTo, serverVars, local,
      callers, NoClaims, SharesAgree, ClaimsAreHeld, PublishedIsClaimed, SharedContentIsNamed,
      OthersAreEmpty, BindingInv, JobInv, OpenedStages, FreshShots, Claimed
<1>1. ASSUME NEW s \in ShareShots, AddToCollection(s) PROVE SharesAgree'
  BY <1>1 DEF AddToCollection, Fail, GivesUp, NoJob, Unshared
<1>2. ASSUME NEW s \in ShareShots, PublishRanged(s) PROVE SharesAgree'
  BY <1>2 DEF PublishRanged, StartsOrJoins, Fail, GivesUp, NoJob, Unshared
<1>3. ASSUME NEW s \in ShareShots, TakeOut(s) PROVE SharesAgree'
  BY <1>3 DEF TakeOut, Fail, GivesUp, NoJob, Unshared
<1>4. ASSUME Share PROVE SharesAgree'
  BY <1>4 DEF Share, StartsOrJoins, Fail, GivesUp, NoJob, Unshared
<1>5. ASSUME StopDeletes PROVE SharesAgree'
  BY <1>5 DEF StopDeletes, Deleted, Fail, GivesUp, NoJob, Unshared
<1>6. ASSUME StopUnbinds PROVE SharesAgree'
  BY <1>6 DEF StopUnbinds, Fail, GivesUp, NoJob, Unshared
<1>7. ASSUME NEW p \in ShareProjects, CreateProject(p) PROVE SharesAgree'
  BY <1>7 DEF CreateProject, Fail, GivesUp, NoJob, Unshared
<1>8. ASSUME NEW p \in ShareProjects, NEW s \in ShareShots, RemoveClaim(p, s) PROVE SharesAgree'
  BY <1>8 DEF RemoveClaim, Fail, GivesUp, NoJob, Unshared
<1>9. ASSUME LoadCollection PROVE SharesAgree'
  BY <1>9 DEF LoadCollection, Named, Fail, GivesUp, NoJob, Unshared
<1>10. ASSUME Reserve PROVE SharesAgree'
  BY <1>10 DEF Reserve, Fail, GivesUp, NoJob, Unshared
<1>11. ASSUME OpenShare PROVE SharesAgree'
  BY <1>11 DEF OpenShare, Fail, GivesUp, NoJob, Unshared
<1>12. ASSUME PublishesInBackground PROVE SharesAgree'
  BY <1>12 DEF PublishesInBackground, Fail, GivesUp, NoJob, Unshared
<1>13. ASSUME StartPrepare PROVE SharesAgree'
  BY <1>13 DEF StartPrepare, Fail, GivesUp, NoJob, Unshared
<1>14. ASSUME EndPrepare PROVE SharesAgree'
  BY <1>14 DEF EndPrepare, Fail, GivesUp, NoJob, Unshared
<1>15. ASSUME Gather PROVE SharesAgree'
  BY <1>15 DEF Gather, Following, Fail, GivesUp, NoJob, Unshared
<1>16. ASSUME Apply PROVE SharesAgree'
  BY <1>16 DEF Apply, Following, Fail, GivesUp, NoJob, Unshared
<1>17. ASSUME NEW b \in SUBSET ShareShots, Register(b) PROVE SharesAgree'
  <2>1. UNCHANGED <<binding, projects, holds, recoverable>>
    BY <1>17 DEF Register
  <2>2. CASE claims' = claims
    BY <2>1, <2>2
  <2>3. CASE claims' # claims
    <3>1. /\ job.project \in Live /\ b \subseteq holds[job.project]
          /\ job.project \in {binding.project, binding.pending}
      BY <1>17, <2>3 DEF Register, Batches
    <3>2. \A p \in ShareProjects, s \in ShareShots :
            claims'[p][s] = IF p = job.project /\ s \in b THEN "shown" ELSE claims[p][s]
      BY <1>17, <2>3 DEF Register
    <3>3. ClaimsAreHeld'
      BY <2>1, <3>1, <3>2
    <3>4. PublishedIsClaimed'
      BY <2>1, <3>2 DEF Binding
    <3>5. SharedContentIsNamed'
      BY <2>1, <3>1, <3>2
    <3> QED
      BY <3>3, <3>4, <3>5
  <2> QED
    BY <2>2, <2>3
<1>18. ASSUME Registered PROVE SharesAgree'
  BY <1>18 DEF Registered, Following, Fail, GivesUp, NoJob, Unshared
<1>19. ASSUME FlushShare PROVE SharesAgree'
  BY <1>19 DEF FlushShare, Fail, GivesUp, NoJob, Unshared
<1>20. ASSUME Reload PROVE SharesAgree'
  BY <1>20 DEF Reload, Fail, GivesUp, NoJob, Unshared
<1>21. ASSUME SaveBinding PROVE SharesAgree'
  BY <1>21 DEF SaveBinding, Fail, GivesUp, NoJob, Unshared
<1>22. ASSUME StageFails PROVE SharesAgree'
  BY <1>22 DEF StageFails, Fail, GivesUp, NoJob, Unshared
<1>23. ASSUME Abort PROVE SharesAgree'
  <2>1. UNCHANGED <<binding, holds>>
    BY <1>23 DEF Abort
  <2>2. CASE UNCHANGED serverVars
    BY <2>1, <2>2
  <2>3. CASE Deleted(job.project)
    <3>1. job.project \in ShareProjects
      BY <1>23 DEF Abort
    <3>2. \A p \in ShareProjects :
            IF p = job.project THEN projects'[p] = "gone" /\ claims'[p] = NoClaims
              /\ p \notin recoverable'
            ELSE /\ projects'[p] = projects[p] /\ claims'[p] = claims[p]
                 /\ (p \in recoverable' <=> p \in recoverable)
      BY <2>3, <3>1 DEF Deleted
    <3> QED
      BY <2>1, <3>2 DEF Binding
  <2> QED
    BY <1>23, <2>2, <2>3 DEF Abort
<1>24. ASSUME Unreserve PROVE SharesAgree'
  BY <1>24 DEF Unreserve, Fail, GivesUp, NoJob, Unshared
<1>25. ASSUME ShareCloses PROVE SharesAgree'
  BY <1>25 DEF ShareCloses, Fail, GivesUp, NoJob, Unshared
<1>26. ASSUME NEW s \in ShareShots, PutBack(s) PROVE SharesAgree'
  BY <1>26 DEF PutBack, Fail, GivesUp, NoJob, Unshared
<1> QED
  BY <1>1, <1>2, <1>3, <1>4, <1>5, <1>6, <1>7, <1>8, <1>9, <1>10, <1>11, <1>12, <1>13, <1>14,
     <1>15, <1>16, <1>17, <1>18, <1>19, <1>20, <1>21, <1>22, <1>23, <1>24, <1>25, <1>26
     DEF ShareNext

LEMMA JobInvStep == ASSUME ShareInv, ShareTypeOK', ShareNext PROVE JobInv'
<1> USE ShareAssumption DEF ShareInv, ShareTypeOK, Live, Inside, At, GoesTo, serverVars, local,
      callers, NoClaims, SharesAgree, ClaimsAreHeld, PublishedIsClaimed, SharedContentIsNamed,
      OthersAreEmpty, BindingInv, JobInv, OpenedStages, FreshShots, Claimed
<1>1. ASSUME NEW s \in ShareShots, AddToCollection(s) PROVE JobInv'
  BY <1>1 DEF AddToCollection, Fail, GivesUp, NoJob, Unshared
<1>2. ASSUME NEW s \in ShareShots, PublishRanged(s) PROVE JobInv'
  BY <1>2 DEF PublishRanged, StartsOrJoins, Fail, GivesUp, NoJob, Unshared
<1>3. ASSUME NEW s \in ShareShots, TakeOut(s) PROVE JobInv'
  BY <1>3 DEF TakeOut, Fail, GivesUp, NoJob, Unshared
<1>4. ASSUME Share PROVE JobInv'
  BY <1>4 DEF Share, StartsOrJoins, Fail, GivesUp, NoJob, Unshared
<1>5. ASSUME StopDeletes PROVE JobInv'
  BY <1>5 DEF StopDeletes, Deleted, Fail, GivesUp, NoJob, Unshared
<1>6. ASSUME StopUnbinds PROVE JobInv'
  BY <1>6 DEF StopUnbinds, Fail, GivesUp, NoJob, Unshared
<1>7. ASSUME NEW p \in ShareProjects, CreateProject(p) PROVE JobInv'
  <2>1. CASE job' = NoJob
    BY <2>1, NoJobInv
  <2>2. CASE job' = [job EXCEPT !.at = "reserve", !.project = p]
    <3>1. /\ binding' = binding /\ binding.project = NoShare /\ binding.pending = NoShare
          /\ job.read.project = NoShare /\ job.read.published = {}
      BY <1>7 DEF CreateProject
    <3>2. job'.at = "reserve" /\ job'.project = p /\ job'.read = job.read
      BY <2>2 DEF Job
    <3> QED
      BY <3>1, <3>2
  <2> QED
    BY <1>7, <2>1, <2>2 DEF CreateProject
<1>8. ASSUME NEW p \in ShareProjects, NEW s \in ShareShots, RemoveClaim(p, s) PROVE JobInv'
  BY <1>8 DEF RemoveClaim, Fail, GivesUp, NoJob, Unshared
<1>9. ASSUME LoadCollection PROVE JobInv'
  <2>1. /\ binding' = binding /\ job'.project = Named(binding)
        /\ job'.read = binding /\ projects' = projects
        /\ job'.at = IF Named(binding) = NoShare THEN "create" ELSE "open"
    BY <1>9 DEF LoadCollection, Job
  <2>2. CASE Named(binding) = NoShare
    BY <2>1, <2>2 DEF Named, Binding
  <2>3. CASE Named(binding) # NoShare
    <3>1. /\ Named(binding) \in ShareProjects /\ Named(binding) \in {binding.project,
               binding.pending}
          /\ binding.project \in {NoShare, Named(binding)}
          /\ binding.pending \in {NoShare, Named(binding)}
      BY <2>3 DEF Named, Binding
    <3>2. job'.at = "open"
      BY <2>1, <2>3
    <3> QED
      BY <2>1, <3>1, <3>2
  <2> QED
    BY <2>2, <2>3
<1>10. ASSUME Reserve PROVE JobInv'
  BY <1>10 DEF Reserve, Fail, GivesUp, NoJob, Unshared
<1>11. ASSUME OpenShare PROVE JobInv'
  BY <1>11 DEF OpenShare, Fail, GivesUp, NoJob, Unshared
<1>12. ASSUME PublishesInBackground PROVE JobInv'
  BY <1>12 DEF PublishesInBackground, Fail, GivesUp, NoJob, Unshared
<1>13. ASSUME StartPrepare PROVE JobInv'
  BY <1>13 DEF StartPrepare, Fail, GivesUp, NoJob, Unshared
<1>14. ASSUME EndPrepare PROVE JobInv'
  <2>1. CASE Fail
    BY <1>14, <2>1, FailInv DEF EndPrepare
  <2>2. CASE job' = [job EXCEPT !.at = "gather", !.shots = Inside]
    <3>1. job'.at = "gather" /\ job'.project = job.project
      BY <2>2 DEF Job
    <3> QED
      BY <1>14, <3>1 DEF EndPrepare
  <2> QED
    BY <1>14, <2>1, <2>2 DEF EndPrepare
<1>15. ASSUME Gather PROVE JobInv'
  <2>1. CASE Fail
    BY <1>15, <2>1, FailInv DEF Gather
  <2>2. CASE job' = [job EXCEPT !.at = "apply", !.done = binding.published,
                                   !.left = job.shots \ binding.published]
    <3>1. job'.at = "apply" /\ job'.project = job.project /\ job'.done = binding.published
          /\ job'.shots = job.shots /\ job'.left = job.shots \ binding.published
      BY <2>2 DEF Job
    <3>2. job.project \in Live => \A s \in binding.published : claims[job.project][s] # "none"
      BY <1>15 DEF Gather
    <3>3. UNCHANGED <<binding, projects, claims, holds>>
      BY <1>15 DEF Gather
    <3> QED
      BY <1>15, <3>1, <3>2, <3>3 DEF Gather
  <2> QED
    BY <1>15, <2>1, <2>2 DEF Gather, Following
<1>16. ASSUME Apply PROVE JobInv'
  BY <1>16 DEF Apply, Following, Fail, GivesUp, NoJob, Unshared
<1>17. ASSUME NEW b \in SUBSET ShareShots, Register(b) PROVE JobInv'
  <2>1. CASE Fail
    BY <1>17, <2>1, FailInv DEF Register
  <2>2. CASE /\ job.project \in Live /\ job' = [job EXCEPT !.left = @ \ b]
             /\ claims' = [claims EXCEPT ![job.project] =
                             [s \in ShareShots |-> IF s \in b THEN "shown" ELSE @[s]]]
    <3>1. job'.at = "register" /\ job'.project = job.project /\ job'.done = job.done
          /\ job'.shots = job.shots /\ job'.left = job.left \ b
      BY <1>17, <2>2 DEF Register, Job
    <3>2. /\ UNCHANGED <<binding, projects, holds>> /\ job.at = "register"
          /\ FreshShots \subseteq ShareShots /\ job.done \subseteq ShareShots
      BY <1>17 DEF Register, Job
    <3>3. \A s \in ShareShots :
            claims'[job.project][s] = IF s \in b THEN "shown" ELSE claims[job.project][s]
      BY <2>2
    <3>4. Claimed(job.done)' /\ Claimed(FreshShots \ job.left)'
      BY <2>2, <3>1, <3>2, <3>3
    <3>5. FreshShots' \subseteq holds'[job'.project] /\ job'.left \subseteq FreshShots'
      BY <3>1, <3>2
    <3> QED
      BY <2>2, <3>1, <3>2, <3>4, <3>5
  <2> QED
    BY <1>17, <2>1, <2>2 DEF Register
<1>18. ASSUME Registered PROVE JobInv'
  BY <1>18 DEF Registered, Following, Fail, GivesUp, NoJob, Unshared
<1>19. ASSUME FlushShare PROVE JobInv'
  <2>1. CASE Fail
    BY <1>19, <2>1, FailInv DEF FlushShare
  <2>2. CASE job' = [job EXCEPT !.at = "reload"]
    <3>1. job'.at = "reload" /\ job'.project = job.project /\ job'.done = job.done
            /\ job'.shots = job.shots
      BY <2>2 DEF Job
    <3> QED
      BY <1>19, <3>1 DEF FlushShare
  <2> QED
    BY <1>19, <2>1, <2>2 DEF FlushShare
<1>20. ASSUME Reload PROVE JobInv'
  BY <1>20 DEF Reload, Fail, GivesUp, NoJob, Unshared
<1>21. ASSUME SaveBinding PROVE JobInv'
  BY <1>21 DEF SaveBinding, Fail, GivesUp, NoJob, Unshared
<1>22. ASSUME StageFails PROVE JobInv'
  <2>1. CASE job' = NoJob
    BY <2>1, NoJobInv
  <2>2. CASE job.at \notin {"none", "load", "create"} /\ Fail
    BY <1>22, <2>2, FailInv DEF StageFails
  <2> QED
    BY <1>22, <2>1, <2>2 DEF StageFails
<1>23. ASSUME Abort PROVE JobInv'
  <2>1. CASE job' = NoJob
    BY <2>1, NoJobInv
  <2>2. CASE job' = [job EXCEPT !.at = "unreserve"] /\ Deleted(job.project)
    <3>1. job'.at = "unreserve" /\ job'.project = job.project
      BY <2>2 DEF Job
    <3>2. job.project \in ShareProjects /\ binding' = binding /\ projects'[job.project] = "gone"
      BY <1>23, <2>2 DEF Abort, Deleted
    <3> QED
      BY <1>23, <3>1, <3>2 DEF Abort
  <2> QED
    BY <1>23, <2>1, <2>2 DEF Abort
<1>24. ASSUME Unreserve PROVE JobInv'
  BY <1>24 DEF Unreserve, Fail, GivesUp, NoJob, Unshared
<1>25. ASSUME ShareCloses PROVE JobInv'
  BY <1>25 DEF ShareCloses, Fail, GivesUp, NoJob, Unshared
<1>26. ASSUME NEW s \in ShareShots, PutBack(s) PROVE JobInv'
  BY <1>26 DEF PutBack, Fail, GivesUp, NoJob, Unshared
<1> QED
  BY <1>1, <1>2, <1>3, <1>4, <1>5, <1>6, <1>7, <1>8, <1>9, <1>10, <1>11, <1>12, <1>13, <1>14,
     <1>15, <1>16, <1>17, <1>18, <1>19, <1>20, <1>21, <1>22, <1>23, <1>24, <1>25, <1>26
     DEF ShareNext

-----------------------------------------------------------------------------
LEMMA ShareInvInit == ASSUME ShareInit PROVE ShareInv
<1> USE ShareAssumption, ShareInit DEF ShareInit, NoClaims, Live, At, Inside
<1>1. job \in Job /\ binding \in Binding
  BY NoJobType
<1>2. shareFaults \in 0 .. MaxShareFaults
  OBVIOUS
<1>3. ShareTypeOK
  <2>1. ranged \in [ShareShots -> {"new", "in", "out"}] /\ ranging \in SUBSET Inside
    OBVIOUS
  <2>2. /\ projects \in [ShareProjects -> {"new", "live", "gone"}]
        /\ claims \in [ShareProjects -> [ShareShots -> {"none", "shown", "removed"}]]
        /\ holds \in [ShareProjects -> SUBSET ShareShots]
        /\ recoverable \in SUBSET ShareProjects
    OBVIOUS
  <2>3. waiting \in SUBSET ShareShots /\ told \in SUBSET ShareShots /\ stopping \in BOOLEAN
    OBVIOUS
  <2> QED
    BY <1>1, <1>2, <2>1, <2>2, <2>3 DEF ShareTypeOK
<1>4. SharesAgree
  BY DEF SharesAgree, ClaimsAreHeld, PublishedIsClaimed, SharedContentIsNamed, Unshared
<1>5. OthersAreEmpty /\ BindingInv /\ JobInv
  BY DEF OthersAreEmpty, BindingInv, JobInv, OpenedStages, FreshShots, Claimed, Unshared, NoJob
<1> QED
  BY <1>3, <1>4, <1>5 DEF ShareInv

LEMMA ShareInvStep == ASSUME ShareInv, [ShareNext]_shareVars PROVE ShareInv'
<1>1. CASE ShareNext
  <2>1. ShareTypeOK'
    BY <1>1, ShareTypeStep DEF ShareInv
  <2> QED
    BY <1>1, <2>1, EmptyBindingStep, AgreeStep, JobInvStep DEF ShareInv
<1>2. CASE UNCHANGED shareVars
  BY <1>2 DEF ShareInv, ShareTypeOK, SharesAgree, ClaimsAreHeld, PublishedIsClaimed,
     SharedContentIsNamed, OthersAreEmpty, BindingInv, JobInv, OpenedStages, FreshShots, Claimed, Live,
       Inside,
     At, shareVars, serverVars
<1> QED
  BY <1>1, <1>2

\* Wherever publications, stops and closings cut one another off, the rows of
\* the server, the document and the collection agree: no row names a shot the
\* document lacks, what counts as published was claimed, and what is shared is
\* named (publish() of session.ts).
THEOREM SharesStayInAgreement == ShareSpec => []SharesAgree
<1>1. ShareInit => ShareInv
  BY ShareInvInit
<1>2. ShareInv /\ [ShareNext]_shareVars => ShareInv'
  BY ShareInvStep
<1>3. ShareInv => SharesAgree
  BY DEF ShareInv
<1> QED
  BY <1>1, <1>2, <1>3, PTL DEF ShareSpec
--------------------------------------------------------------------------------
Asking(t) == toolStage[t] = "asking"

\* No number is given that was not counted.
NumbersAreCounted ==
  /\ asks \subseteq 1 .. callSeq /\ answered \subseteq 1 .. callSeq

\* A card names the turn whose call has its number.
NamesItsTurn(call, turn) ==
  /\ call \in 0 .. callSeq
  /\ \A t \in Turns : Asking(t) /\ current[t].call = call => t = turn

CardsNameTheirTurn ==
  /\ NamesItsTurn(chatApproval.call, chatApproval.turn)
  /\ \A a \in answers : NamesItsTurn(a.card.call, a.card.turn)
  /\ \A i \in 1 .. Len(chatEvents) :
       chatEvents[i].kind = "approval" => NamesItsTurn(chatEvents[i].call, chatEvents[i].turn)

\* An answer on its way was given by the user.
Answered(call, turn, allow) == [card |-> [call |-> call, turn |-> turn], allow |-> allow] \in answers
ResponsesWereGiven ==
  \A r \in chatRequests :
    r.cmd = "respond" => \E u \in Turns : Answered(r.call, u, r.allow)

\* A tool that waits was checked in a mode that asks.
WaitingIsAgreed ==
  \A t \in Turns :
    /\ toolStage[t] = "copying" => t \in duplicated
    /\ Asking(t) => current[t].mode = "ask" /\ (current[t].copy => t \in duplicated)

Agreed(t) ==
  /\ current[t].mode # "read-only"
  /\ current[t].risk = "destructive" /\ current[t].mode # "auto" => Answered(current[t].call, t, TRUE)
  /\ current[t].copy => t \in duplicated
RunningIsAgreed == \A t \in Turns : toolStage[t] = "executing" => Agreed(t)

CallInv ==
  /\ CallsAreToldApart /\ NumbersAreCounted /\ CardsNameTheirTurn /\ ResponsesWereGiven
  /\ WaitingIsAgreed /\ RunningIsAgreed

AgentInv == AgentTypeOK /\ CallInv
-----------------------------------------------------------------------------
LEMMA LastOfBatch ==
  ASSUME NEW s \in Seq(Risks), s # <<>>
  PROVE  Tail(s) \in Seq(Risks) /\ (Tail(s) = <<>> <=> Len(s) = 1)
<1>1. Tail(s) \in Seq(Risks) /\ Len(Tail(s)) = Len(s) - 1
  BY HeadTailProperties
<1>2. Len(s) \in Nat
  BY LenProperties
<1>3. CASE Tail(s) = <<>>
  BY <1>1, <1>2, <1>3, EmptySeq
<1>4. CASE Tail(s) # <<>>
  <2>1. Len(Tail(s)) \in Nat \ {0}
    BY <1>1, <1>4, EmptySeq
  <2> QED BY <1>1, <1>2, <1>4, <2>1
<1> QED BY <1>1, <1>3, <1>4

\* The end of a tool keeps the types.
LEMMA ReturnedType ==
  ASSUME AgentTypeOK, NEW t \in Turns, Returned(t), toolStage[t] # "none" \/ turnStage[t] = "tools"
  PROVE  /\ toolStage' = [toolStage EXCEPT ![t] = "none"]
         /\ current' = [current EXCEPT ![t] = NoTool]
         /\ NoTool \in ToolCalls
         /\ batch' \in [Turns -> Seq(Risks)]
         /\ turnStage' \in [Turns -> {"none", "starting", "thinking", "killed", "tools", "ended"}]
         /\ \A u \in Turns : u # t => turnStage'[u] = turnStage[u] /\ batch'[u] = batch[u]
         /\ turnStage'[t] = "tools" <=> batch'[t] # <<>>
         /\ t \in CliTurns => turnStage'[t] = turnStage[t]
         /\ turnStage'[t] = turnStage[t] \/ (turnStage[t] = "tools" /\ turnStage'[t] = "thinking")
<1>1. NoTool \in ToolCalls
  BY DEF NoTool, ToolCalls, Risks, Modes
<1>2. CASE t \in CliTurns
  BY <1>1, <1>2 DEF Returned, AgentTypeOK
<1>3. CASE t \notin CliTurns
  <2>1. turnStage[t] = "tools" /\ batch[t] # <<>> /\ batch[t] \in Seq(Risks)
    BY <1>3 DEF AgentTypeOK
  <2>2. Tail(batch[t]) \in Seq(Risks) /\ (Tail(batch[t]) = <<>> <=> Len(batch[t]) = 1)
    BY <2>1, LastOfBatch
  <2>3. /\ batch' = [batch EXCEPT ![t] = Tail(batch[t])]
        /\ turnStage' = [turnStage EXCEPT ![t] = IF Len(batch[t]) = 1 THEN "thinking" ELSE "tools"]
    BY <1>3, <2>1 DEF Returned, AgentTypeOK
  <2>4. turnStage'[t] = "tools" <=> batch'[t] # <<>>
    BY <2>2, <2>3 DEF AgentTypeOK
  <2> QED BY <1>1, <1>3, <2>1, <2>2, <2>3, <2>4 DEF Returned, AgentTypeOK
<1> QED BY <1>2, <1>3

\* What a check comes to.
Denied(t) == Returned(t) /\ UNCHANGED <<callSeq, asks, chatEvents>>
Allowed(t, risk, copy) ==
  /\ permMode # "read-only" /\ (risk = "destructive" => permMode = "auto")
  /\ toolStage' = [toolStage EXCEPT ![t] = "executing"]
  /\ current' = [current EXCEPT ![t] = [risk |-> risk, mode |-> permMode, copy |-> copy, call |-> 0]]
  /\ UNCHANGED <<batch, turnStage, callSeq, asks, chatEvents>>
Prompted(t, risk, copy) ==
  /\ permMode = "ask"
  /\ toolStage' = [toolStage EXCEPT ![t] = "asking"]
  /\ current' = [current EXCEPT ![t] =
                   [risk |-> risk, mode |-> permMode, copy |-> copy, call |-> callSeq + 1]]
  /\ callSeq' = callSeq + 1 /\ asks' = asks \cup {callSeq + 1}
  /\ chatEvents' = Append(chatEvents, [kind |-> "approval", turn |-> t, call |-> callSeq + 1])
  /\ UNCHANGED <<batch, turnStage>>

LEMMA CheckOutcomes ==
  ASSUME AgentTypeOK, NEW t, NEW risk \in Risks, NEW copy, Check(t, risk, copy)
  PROVE  Denied(t) \/ Allowed(t, risk, copy) \/ Prompted(t, risk, copy)
<1>1. permMode \in {"read-only", "ask", "auto"} /\ risk \in {"write", "destructive"}
  BY DEF AgentTypeOK, Modes, Risks
<1>2. Decision(risk) = IF permMode = "auto" THEN "allow"
                       ELSE IF permMode = "read-only" THEN "deny"
                       ELSE IF risk = "destructive" THEN "prompt" ELSE "allow"
  BY <1>1 DEF Decision
<1>3. CASE Decision(risk) = "deny"
  BY <1>3 DEF Check, Denied
<1>4. CASE Decision(risk) = "allow"
  BY <1>1, <1>2, <1>4 DEF Check, Allowed
<1>5. CASE Decision(risk) = "prompt"
  BY <1>1, <1>2, <1>5 DEF Check, Prompted, Asks, CallNumber
<1> QED BY <1>1, <1>2, <1>3, <1>4, <1>5

\* The variables that a check may change keep their types.
ToolTypes ==
  /\ chatEvents \in Seq(Events) /\ callSeq \in Nat
  /\ turnStage \in [Turns -> {"none", "starting", "thinking", "killed", "tools", "ended"}]
  /\ toolStage \in [Turns -> {"none", "copying", "asking", "executing"}]
  /\ current \in [Turns -> ToolCalls] /\ batch \in [Turns -> Seq(Risks)]
  /\ \A t \in runs : turnStage[t] \in {"starting", "thinking", "tools"}
  /\ \A t \in Turns :
       /\ turnStage[t] = "tools" <=> batch[t] # <<>>
       /\ t \in CliTurns => turnStage[t] # "tools"
       /\ toolStage[t] # "none" => t \in CliTurns \/ turnStage[t] = "tools"

UnsentStay == \A t \in Turns : turnStage[t] = "none" => turnStage'[t] = "none"

LEMMA ReturnedKeepsTypes ==
  ASSUME AgentTypeOK, NEW t \in Turns, Returned(t), UNCHANGED <<callSeq, chatEvents, runs>>,
         toolStage[t] # "none" \/ turnStage[t] = "tools"
  PROVE  ToolTypes' /\ UnsentStay
<1>0. /\ toolStage' = [toolStage EXCEPT ![t] = "none"]
      /\ current' = [current EXCEPT ![t] = NoTool]
      /\ NoTool \in ToolCalls
      /\ batch' \in [Turns -> Seq(Risks)]
      /\ turnStage' \in [Turns -> {"none", "starting", "thinking", "killed", "tools", "ended"}]
      /\ \A u \in Turns : u # t => turnStage'[u] = turnStage[u] /\ batch'[u] = batch[u]
      /\ turnStage'[t] = "tools" <=> batch'[t] # <<>>
      /\ t \in CliTurns => turnStage'[t] = turnStage[t]
      /\ turnStage'[t] = turnStage[t] \/ (turnStage[t] = "tools" /\ turnStage'[t] = "thinking")
  BY ReturnedType
<1>1. /\ toolStage' \in [Turns -> {"none", "copying", "asking", "executing"}]
      /\ current' \in [Turns -> ToolCalls]
  BY <1>0 DEF AgentTypeOK
<1>2. \A u \in runs' : turnStage'[u] \in {"starting", "thinking", "tools"}
  BY <1>0 DEF AgentTypeOK
<1>3. ASSUME NEW u \in Turns
      PROVE  /\ turnStage'[u] = "tools" <=> batch'[u] # <<>>
             /\ u \in CliTurns => turnStage'[u] # "tools"
             /\ toolStage'[u] # "none" => u \in CliTurns \/ turnStage'[u] = "tools"
  <2>1. CASE u = t
    BY <1>0, <2>1 DEF AgentTypeOK
  <2>2. CASE u # t
    BY <1>0, <2>2 DEF AgentTypeOK
  <2> QED BY <2>1, <2>2
<1>4. UnsentStay
  BY <1>0 DEF UnsentStay, AgentTypeOK
<1> QED BY <1>0, <1>1, <1>2, <1>3, <1>4 DEF AgentTypeOK, ToolTypes

LEMMA CheckKeepsTypes ==
  ASSUME AgentTypeOK, NEW t \in Turns, NEW risk \in Risks, NEW copy \in BOOLEAN, Check(t, risk, copy),
         UNCHANGED runs, turnStage[t] = "tools" \/ t \in CliTurns
  PROVE  ToolTypes' /\ UnsentStay
<1>1. CASE Denied(t)
  <2>1. CASE toolStage[t] # "none" \/ turnStage[t] = "tools"
    BY <1>1, <2>1, ReturnedKeepsTypes DEF Denied
  <2>2. CASE t \in CliTurns
    <3>1. NoTool \in ToolCalls
      BY DEF NoTool, ToolCalls, Risks, Modes
    <3> QED BY <1>1, <2>2, <3>1 DEF Denied, Returned, AgentTypeOK, ToolTypes, UnsentStay
  <2> QED BY <2>1, <2>2
<1>2. CASE Allowed(t, risk, copy)
  <2>1. [risk |-> risk, mode |-> permMode, copy |-> copy, call |-> 0] \in ToolCalls
    BY DEF ToolCalls, AgentTypeOK
  <2> QED BY <1>2, <2>1 DEF Allowed, AgentTypeOK, ToolTypes, UnsentStay
<1>3. CASE Prompted(t, risk, copy)
  <2>1. callSeq + 1 \in Nat
    BY DEF AgentTypeOK
  <2>2. [risk |-> risk, mode |-> permMode, copy |-> copy, call |-> callSeq + 1] \in ToolCalls
    BY <2>1 DEF ToolCalls, AgentTypeOK
  <2>3. [kind |-> "approval", turn |-> t, call |-> callSeq + 1] \in Events
    BY <2>1 DEF Events
  <2>4. chatEvents' \in Seq(Events)
    BY <1>3, <2>3, AppendProperties DEF Prompted, AgentTypeOK
  <2> QED BY <1>3, <2>1, <2>2, <2>4 DEF Prompted, AgentTypeOK, ToolTypes, UnsentStay
<1> QED BY <1>1, <1>2, <1>3, CheckOutcomes
-----------------------------------------------------------------------------
\* What the chat does, and what only moves a turn, keeps the types.
LEMMA TellsType ==
  ASSUME AgentTypeOK, NEW t \in Turns, TellsEnd(t)
  PROVE  chatEvents' \in Seq(Events)
<1>1. [kind |-> "done", turn |-> t, call |-> 0] \in Events
  BY DEF Events
<1> QED BY <1>1, AppendProperties DEF TellsEnd, AgentTypeOK

LEMMA ChatKeepsTypes ==
  ASSUME AgentTypeOK,
         \/ \E t \in Turns : ChatSend(t)
         \/ ChatCancel \/ ChatIngests \/ \E allow \in BOOLEAN : ChatRespond(allow)
  PROVE  AgentTypeOK'
<1>1. ASSUME NEW t \in Turns, ChatSend(t) PROVE AgentTypeOK'
  <2>1. [cmd |-> "send", turn |-> t] \in ChatCommands
    BY DEF ChatCommands
  <2> QED BY <1>1, <2>1 DEF ChatSend, Requests, CoreRests, gateVarsOfAgent, AgentTypeOK
<1>2. CASE ChatCancel
  <2>1. [cmd |-> "cancel", turn |-> chatRunId] \in ChatCommands
    BY <1>2 DEF ChatCancel, ChatCommands, AgentTypeOK
  <2> QED BY <1>2, <2>1 DEF ChatCancel, Requests, CoreRests, gateVarsOfAgent, AgentTypeOK
<1>3. CASE ChatIngests
  <2>1. chatEvents' \in Seq(Events) /\ Head(chatEvents) \in Events
    BY <1>3, HeadTailProperties DEF ChatIngests, AgentTypeOK
  <2>2. [call |-> Head(chatEvents).call, turn |-> Head(chatEvents).turn] \in Cards
    BY <2>1 DEF Events, Cards
  <2>3. chatApproval' \in Cards \cup {NoCard} /\ chatRunId' \in Turns \cup {NoTurn}
    BY <1>3, <2>2 DEF ChatIngests, AgentTypeOK
  <2> QED BY <1>3, <2>1, <2>3 DEF ChatIngests, CoreRests, gateVarsOfAgent, AgentTypeOK
<1>4. ASSUME NEW allow \in BOOLEAN, ChatRespond(allow) PROVE AgentTypeOK'
  <2>1. chatApproval \in Cards
    BY <1>4 DEF ChatRespond, AgentTypeOK
  <2>2. [cmd |-> "respond", call |-> chatApproval.call, allow |-> allow] \in ChatCommands
    BY <2>1 DEF ChatCommands, Cards
  <2>3. [card |-> chatApproval, allow |-> allow] \in [card : Cards, allow : BOOLEAN]
    BY <2>1
  <2> QED BY <1>4, <2>2, <2>3 DEF ChatRespond, Requests, CoreRests, gateVarsOfAgent, AgentTypeOK
<1> QED BY <1>1, <1>2, <1>3, <1>4

LEMMA FinishKeepsTypes ==
  ASSUME AgentTypeOK, NEW t \in Turns, NEW said \in BOOLEAN, Finishes(t, said),
         turnStage[t] \notin {"none", "tools"}, toolStage[t] # "none" => t \in CliTurns
  PROVE  AgentTypeOK'
<1>1. chatEvents' \in Seq(Events)
  BY TellsType DEF Finishes, AgentTypeOK
<1>2. turnStage' = [turnStage EXCEPT ![t] = "ended"]
  BY DEF Finishes
<1>3. \A u \in Turns :
        /\ [cmd |-> "send", turn |-> u] \in chatRequests => turnStage'[u] = "none"
        /\ turnStage'[u] = "tools" <=> batch[u] # <<>>
        /\ u \in CliTurns => turnStage'[u] # "tools"
        /\ toolStage[u] # "none" => u \in CliTurns \/ turnStage'[u] = "tools"
  BY <1>2 DEF AgentTypeOK
<1>4. \A u \in runs' : turnStage'[u] \in {"starting", "thinking", "tools"}
  BY <1>2 DEF Finishes, AgentTypeOK
<1> QED BY <1>1, <1>2, <1>3, <1>4 DEF Finishes, ChatRests, chatVars, gateVarsOfAgent, AgentTypeOK

LEMMA EngineKeepsTypes ==
  ASSUME AgentTypeOK, NEW t \in Turns,
         \/ Send(t) \/ Cancel(t) \/ EngineStarts(t) \/ EngineEnds(t) \/ EngineFails(t) \/ CliCloses(t)
         \/ ModelAsks(t)
  PROVE  AgentTypeOK'
<1>1. CASE Send(t)
  <2>1. turnStage[t] = "none" => batch[t] = <<>>
    BY DEF AgentTypeOK
  <2> QED BY <1>1, <2>1 DEF Send, chatVars, gateVarsOfAgent, AgentTypeOK
<1>2. CASE Cancel(t)
  <2>1. chatEvents' \in Seq(Events)
    BY <1>2, TellsType DEF Cancel, AgentTypeOK
  <2> QED BY <1>2, <2>1 DEF Cancel, chatVars, gateVarsOfAgent, AgentTypeOK
<1>3. CASE EngineStarts(t)
  BY <1>3 DEF EngineStarts, ChatRests, chatVars, gateVarsOfAgent, AgentTypeOK
<1>4. CASE EngineEnds(t) \/ EngineFails(t) \/ CliCloses(t)
  <2>1. /\ turnStage[t] \notin {"none", "tools"} /\ (toolStage[t] # "none" => t \in CliTurns)
        /\ \E said \in BOOLEAN : Finishes(t, said)
    BY <1>4 DEF EngineEnds, EngineFails, CliCloses, AgentTypeOK
  <2> QED BY <2>1, FinishKeepsTypes
<1>5. CASE ModelAsks(t)
  <2>1. PICK n \in 1 .. 2 : \E tools \in [1 .. n -> Risks] : batch' = [batch EXCEPT ![t] = tools]
    BY <1>5 DEF ModelAsks
  <2>0. PICK tools \in [1 .. n -> Risks] : batch' = [batch EXCEPT ![t] = tools]
    BY <2>1
  <2>2. tools \in Seq(Risks) /\ Len(tools) = n
    BY <2>0, IsASeq
  <2>3. tools # <<>>
    BY <2>2, EmptySeq
  <2> QED BY <1>5, <2>0, <2>2, <2>3 DEF ModelAsks, ChatRests, chatVars, gateVarsOfAgent, AgentTypeOK
<1> QED BY <1>1, <1>2, <1>3, <1>4, <1>5

\* A check leaves the rest.
LEMMA ToolKeepsTypes ==
  ASSUME AgentTypeOK, NEW t \in Turns,
         \/ ToolStarts(t) \/ CopyEnds(t) \/ ToolEnds(t) \/ \E risk \in Risks : CliCalls(t, risk)
  PROVE  AgentTypeOK'
<1> DEFINE Rest == UNCHANGED <<chatVars, chatRequests, permMode, duplicateFirst, runs, activeCliRun>>
<1>0. ASSUME ToolTypes' /\ UnsentStay, Rest, duplicated' \in SUBSET (Turns \ CliTurns)
      PROVE  AgentTypeOK'
  BY <1>0 DEF ToolTypes, UnsentStay, chatVars, AgentTypeOK
<1>1. CASE ToolStarts(t)
  <2>1. turnStage[t] = "tools" /\ t \notin CliTurns /\ Rest
    BY <1>1 DEF ToolStarts, ChatRests, AgentTypeOK
  <2>2. Head(batch[t]) \in Risks
    BY <2>1, HeadTailProperties DEF AgentTypeOK
  <2>3. CASE duplicateFirst /\ t \notin duplicated
    <3> DEFINE copying == [NoTool EXCEPT !.risk = Head(batch[t])]
    <3>1. copying \in ToolCalls
      BY <2>2 DEF NoTool, ToolCalls, Modes
    <3>4. /\ current' = [current EXCEPT ![t] = copying]
          /\ duplicated' = duplicated \cup {t}
          /\ toolStage' = [toolStage EXCEPT ![t] = "copying"]
          /\ UNCHANGED <<batch, turnStage, callSeq, chatEvents>>
      BY <1>1, <2>3 DEF ToolStarts
    <3> HIDE DEF copying
    <3>2. /\ current' \in [Turns -> ToolCalls]
          /\ toolStage' = [toolStage EXCEPT ![t] = "copying"]
          /\ UNCHANGED <<batch, turnStage, callSeq, chatEvents>>
          /\ duplicated' \in SUBSET (Turns \ CliTurns)
      BY <2>1, <3>1, <3>4 DEF AgentTypeOK
    <3>3. ToolTypes' /\ UnsentStay
      BY <2>1, <3>2 DEF ToolTypes, UnsentStay, AgentTypeOK
    <3> QED BY <1>0, <2>1, <3>2, <3>3
  <2>4. CASE ~ (duplicateFirst /\ t \notin duplicated)
    <3>1. /\ Check(t, Head(batch[t]), duplicateFirst) /\ UNCHANGED duplicated
          /\ duplicateFirst \in BOOLEAN
      BY <1>1, <2>4 DEF ToolStarts, AgentTypeOK
    <3>2. ToolTypes' /\ UnsentStay
      BY <2>1, <2>2, <3>1, CheckKeepsTypes
    <3> QED BY <1>0, <2>1, <3>1, <3>2 DEF AgentTypeOK
  <2> QED BY <2>3, <2>4
<1>2. CASE CopyEnds(t)
  <2>1. current[t].risk \in Risks /\ Rest /\ UNCHANGED duplicated /\ Check(t, current[t].risk, TRUE)
    BY <1>2 DEF CopyEnds, ChatRests, AgentTypeOK, ToolCalls
  <2>2. turnStage[t] = "tools" \/ t \in CliTurns
    BY <1>2 DEF CopyEnds, AgentTypeOK
  <2>3. ToolTypes' /\ UnsentStay
    BY <2>1, <2>2, CheckKeepsTypes
  <2> QED BY <1>0, <2>1, <2>3 DEF AgentTypeOK
<1>3. CASE ToolEnds(t)
  <2>1. Rest /\ UNCHANGED <<duplicated, callSeq, chatEvents>>
    BY <1>3 DEF ToolEnds, ChatRests, gateVarsOfAgent
  <2>2. ToolTypes' /\ UnsentStay
    BY <1>3, <2>1, ReturnedKeepsTypes DEF ToolEnds
  <2> QED BY <1>0, <2>1, <2>2 DEF AgentTypeOK
<1>4. ASSUME NEW risk \in Risks, CliCalls(t, risk) PROVE AgentTypeOK'
  <2>1. Rest /\ UNCHANGED duplicated /\ Check(t, risk, FALSE) /\ t \in CliTurns
    BY <1>4 DEF CliCalls, ChatRests
  <2>2. ToolTypes' /\ UnsentStay
    BY <2>1, CheckKeepsTypes
  <2> QED BY <1>0, <2>1, <2>2 DEF AgentTypeOK
<1> QED BY <1>1, <1>2, <1>3, <1>4

LEMMA RespondKeepsTypes ==
  ASSUME AgentTypeOK, NEW r \in chatRequests, Respond(r)
  PROVE  AgentTypeOK'
<1>1. ToolTypes' /\ UnsentStay
  <2>1. CASE UNCHANGED <<batch, turnStage, toolStage, current>>
    BY <2>1 DEF Respond, ToolTypes, UnsentStay, AgentTypeOK
  <2>2. CASE \E t \in Turns : /\ toolStage[t] = "asking" /\ toolStage' = [toolStage EXCEPT ![t] = "executing"]
                              /\ UNCHANGED <<batch, turnStage, current>>
    BY <2>2 DEF Respond, ToolTypes, UnsentStay, AgentTypeOK
  <2>3. CASE \E t \in Turns : toolStage[t] = "asking" /\ Returned(t)
    <3>1. UNCHANGED <<callSeq, chatEvents, runs>>
      BY DEF Respond
    <3> QED BY <2>3, <3>1, ReturnedKeepsTypes
  <2> QED BY <2>1, <2>2, <2>3 DEF Respond
<1> QED BY <1>1 DEF Respond, ToolTypes, UnsentStay, chatVars, AgentTypeOK

\* Every step keeps the types.
LEMMA TypeStep ==
  ASSUME AgentTypeOK, [AgentNext]_agentVars
  PROVE  AgentTypeOK'
<1>1. CASE UNCHANGED agentVars
  BY <1>1 DEF agentVars, chatVars, gateVarsOfAgent, AgentTypeOK
<1>2. ASSUME NEW mode \in Modes, NEW copy \in BOOLEAN, Configure(mode, copy)
      PROVE  AgentTypeOK'
  BY <1>2 DEF Configure, chatVars, AgentTypeOK
<1>3. permMode \in Modes /\ duplicateFirst \in BOOLEAN
  BY DEF AgentTypeOK
<1> QED BY <1>1, <1>2, <1>3, ChatKeepsTypes, EngineKeepsTypes, ToolKeepsTypes, RespondKeepsTypes
        DEF AgentNext
-----------------------------------------------------------------------------
\* CallsAreToldApart without its local definition.
LEMMA ToldApart ==
  CallsAreToldApart <=>
    /\ \A c : c \in asks <=> \E t \in Turns : Asking(t) /\ current[t].call = c
    /\ asks \cap answered = {}
    /\ \A t, u \in Turns : Asking(t) /\ Asking(u) /\ current[t].call = current[u].call => t = u
BY DEF CallsAreToldApart, Asking

\* A card names its turn as long as no other call takes its number.
AskersKeep ==
  \A t \in Turns : Asking(t)' => \/ Asking(t) /\ current'[t].call = current[t].call
                                \/ current'[t].call = callSeq + 1
NamesStay == \A c, t : NamesItsTurn(c, t) => NamesItsTurn(c, t)'

LEMMA NamesAreKept ==
  ASSUME AgentTypeOK, AskersKeep, callSeq' \in {callSeq, callSeq + 1}
  PROVE  NamesStay
<1> SUFFICES ASSUME NEW c, NEW t, NamesItsTurn(c, t) PROVE NamesItsTurn(c, t)'
  BY DEF NamesStay
<1>1. callSeq \in Nat /\ c \in 0 .. callSeq
  BY DEF AgentTypeOK, NamesItsTurn
<1>2. c \in 0 .. callSeq' /\ c # callSeq + 1
  BY <1>1
<1> QED BY <1>2 DEF AskersKeep, NamesItsTurn

\* No card is new among the events.
NoNewCard ==
  \A i \in 1 .. Len(chatEvents') :
    chatEvents'[i].kind = "approval" => \E j \in 1 .. Len(chatEvents) : chatEvents'[i] = chatEvents[j]

LEMMA TellsNoCard ==
  ASSUME AgentTypeOK, NEW t \in Turns, TellsEnd(t) \/ UNCHANGED chatEvents
  PROVE  NoNewCard
<1>1. CASE UNCHANGED chatEvents
  BY <1>1 DEF NoNewCard
<1>2. CASE TellsEnd(t)
  <2>1. [kind |-> "done", turn |-> t, call |-> 0] \in Events
    BY DEF Events
  <2>2. /\ Len(chatEvents') = Len(chatEvents) + 1
        /\ \A i \in 1 .. Len(chatEvents) : chatEvents'[i] = chatEvents[i]
        /\ chatEvents'[Len(chatEvents) + 1].kind = "done"
    BY <1>2, <2>1, AppendProperties DEF TellsEnd, AgentTypeOK
  <2>3. Len(chatEvents) \in Nat
    BY LenProperties DEF AgentTypeOK
  <2> QED BY <2>2, <2>3 DEF NoNewCard
<1> QED BY <1>1, <1>2

\* A step that leaves the tools alone.
ToolsRest == UNCHANGED <<toolStage, current, asks, answered, callSeq, duplicated>>

LEMMA ChannelStep ==
  ASSUME AgentTypeOK, CallInv, ToolsRest, NoNewCard,
         \/ chatApproval' \in {chatApproval, NoCard}
         \/ \E i \in 1 .. Len(chatEvents) :
              /\ chatEvents[i].kind = "approval"
              /\ chatApproval' = [call |-> chatEvents[i].call, turn |-> chatEvents[i].turn],
         answers \subseteq answers',
         \A a \in answers' \ answers : a.card = chatApproval,
         ResponsesWereGiven'
  PROVE  CallInv'
<1>1. NamesStay
  BY NamesAreKept DEF ToolsRest, AskersKeep, Asking
<1>2. CallsAreToldApart' /\ NumbersAreCounted' /\ WaitingIsAgreed'
  BY DEF CallInv, ToolsRest, CallsAreToldApart, NumbersAreCounted, WaitingIsAgreed, Asking
<1>3. RunningIsAgreed'
  BY DEF CallInv, ToolsRest, RunningIsAgreed, Agreed, Answered
<1>4. NamesItsTurn(chatApproval.call, chatApproval.turn)'
  <2>1. CASE chatApproval' = chatApproval
    BY <2>1 DEF CallInv, CardsNameTheirTurn, NamesItsTurn, ToolsRest, Asking
  <2>2. CASE chatApproval' = NoCard
    <3>1. \A t \in Turns : Asking(t) => current[t].call # 0
      BY ToldApart DEF CallInv, NumbersAreCounted, AgentTypeOK
    <3>2. \A t \in Turns : Asking(t)' => current'[t].call # 0
      BY <3>1 DEF ToolsRest, Asking
    <3>3. chatApproval'.call = 0 /\ callSeq' \in Nat
      BY <2>2 DEF NoCard, ToolsRest, AgentTypeOK
    <3> QED BY <3>2, <3>3 DEF NamesItsTurn, Asking
  <2>3. ASSUME NEW i \in 1 .. Len(chatEvents), chatEvents[i].kind = "approval",
               chatApproval' = [call |-> chatEvents[i].call, turn |-> chatEvents[i].turn]
        PROVE  NamesItsTurn(chatApproval.call, chatApproval.turn)'
    <3>1. NamesItsTurn(chatEvents[i].call, chatEvents[i].turn)
      BY <2>3 DEF CallInv, CardsNameTheirTurn
    <3> QED BY <1>1, <2>3, <3>1 DEF NamesItsTurn, ToolsRest, Asking
  <2> QED BY <2>1, <2>2, <2>3
<1>5. ASSUME NEW a \in answers' PROVE NamesItsTurn(a.card.call, a.card.turn)'
  <2>1. NamesItsTurn(a.card.call, a.card.turn)
    BY <1>5 DEF CallInv, CardsNameTheirTurn
  <2> QED BY <2>1, <1>1 DEF NamesStay
<1>6. ASSUME NEW i \in 1 .. Len(chatEvents'), chatEvents'[i].kind = "approval"
      PROVE  NamesItsTurn(chatEvents[i].call, chatEvents[i].turn)'
  <2>1. PICK j \in 1 .. Len(chatEvents) : chatEvents'[i] = chatEvents[j]
    BY <1>6 DEF NoNewCard
  <2>2. NamesItsTurn(chatEvents[j].call, chatEvents[j].turn)
    BY <1>6, <2>1 DEF CallInv, CardsNameTheirTurn
  <2> QED BY <2>1, <2>2 DEF NamesItsTurn, ToolsRest, Asking
<1>7. CardsNameTheirTurn'
  BY <1>4, <1>5, <1>6 DEF CardsNameTheirTurn
<1> QED BY <1>2, <1>3, <1>7 DEF CallInv

\* What goes on between the chat and the core, and the engines.
LEMMA ChannelsKeepCalls ==
  ASSUME AgentTypeOK, CallInv,
         \/ \E t \in Turns : \/ ChatSend(t) \/ Send(t) \/ Cancel(t) \/ EngineStarts(t) \/ EngineEnds(t)
                            \/ EngineFails(t) \/ CliCloses(t) \/ ModelAsks(t)
         \/ ChatCancel \/ \E mode, copy : Configure(mode, copy)
         \/ UNCHANGED agentVars
  PROVE  CallInv'
<1>1. /\ ToolsRest /\ UNCHANGED <<chatApproval, answers>>
      /\ (\E t \in Turns : TellsEnd(t)) \/ UNCHANGED chatEvents
      /\ \A r \in chatRequests' : r.cmd = "respond" => r \in chatRequests
  <2>1. ASSUME NEW t \in Turns, ChatSend(t) \/ Send(t) \/ Cancel(t) PROVE <1>1!:
    BY <2>1 DEF ChatSend, Send, Cancel, Requests, CoreRests, chatVars, gateVarsOfAgent, ToolsRest
  <2>2. ASSUME NEW t \in Turns,
               \/ EngineStarts(t) \/ EngineEnds(t) \/ EngineFails(t) \/ CliCloses(t) \/ ModelAsks(t)
        PROVE  <1>1!:
    BY <2>2 DEF EngineStarts, EngineEnds, EngineFails, CliCloses, ModelAsks, Finishes, ChatRests,
                chatVars, gateVarsOfAgent, ToolsRest
  <2>3. CASE ChatCancel \/ (\E mode, copy : Configure(mode, copy)) \/ UNCHANGED agentVars
    BY <2>3 DEF ChatCancel, Configure, Requests, CoreRests, agentVars, chatVars, gateVarsOfAgent,
                ToolsRest
  <2> QED BY <2>1, <2>2, <2>3
<1>2. NoNewCard
  BY <1>1, TellsNoCard DEF NoNewCard
<1>3. ResponsesWereGiven'
  BY <1>1 DEF CallInv, ResponsesWereGiven, Answered
<1> QED BY <1>1, <1>2, <1>3, ChannelStep

LEMMA CardsKeepCalls ==
  ASSUME AgentTypeOK, CallInv, ChatIngests \/ \E allow \in BOOLEAN : ChatRespond(allow)
  PROVE  CallInv'
<1>1. CASE ChatIngests
  <2>1. /\ ToolsRest /\ UNCHANGED <<answers, chatRequests>>
        /\ chatEvents # <<>> /\ chatEvents' = Tail(chatEvents)
        /\ chatApproval' = (IF Head(chatEvents).kind = "approval"
                             THEN [call |-> Head(chatEvents).call, turn |-> Head(chatEvents).turn]
                             ELSE chatApproval)
    BY <1>1 DEF ChatIngests, CoreRests, gateVarsOfAgent, ToolsRest
  <2>2. Len(chatEvents) \in Nat /\ Len(chatEvents) # 0
    BY <2>1, LenProperties, EmptySeq DEF AgentTypeOK
  <2>3. /\ Head(chatEvents) = chatEvents[1] /\ Len(chatEvents') = Len(chatEvents) - 1
        /\ \A i \in 1 .. Len(chatEvents') : chatEvents'[i] = chatEvents[i + 1]
    BY <2>1, <2>2, HeadTailProperties DEF AgentTypeOK
  <2>4. NoNewCard
    BY <2>2, <2>3 DEF NoNewCard
  <2>5. ResponsesWereGiven'
    BY <2>1 DEF CallInv, ResponsesWereGiven, Answered
  <2>6. \/ chatApproval' \in {chatApproval, NoCard}
        \/ \E i \in 1 .. Len(chatEvents) :
             /\ chatEvents[i].kind = "approval"
             /\ chatApproval' = [call |-> chatEvents[i].call, turn |-> chatEvents[i].turn]
    BY <2>1, <2>2, <2>3
  <2> QED BY <2>1, <2>4, <2>5, <2>6, ChannelStep
<1>2. ASSUME NEW allow \in BOOLEAN, ChatRespond(allow) PROVE CallInv'
  <2>1. /\ ToolsRest /\ UNCHANGED chatEvents /\ chatApproval \in Cards /\ chatApproval' = NoCard
        /\ answers' = answers \cup {[card |-> chatApproval, allow |-> allow]}
        /\ chatRequests' =
             chatRequests \cup {[cmd |-> "respond", call |-> chatApproval.call, allow |-> allow]}
    BY <1>2 DEF ChatRespond, Requests, CoreRests, gateVarsOfAgent, ToolsRest, AgentTypeOK
  <2>2. NoNewCard
    BY <2>1 DEF NoNewCard
  <2>3. chatApproval = [call |-> chatApproval.call, turn |-> chatApproval.turn]
        /\ chatApproval.turn \in Turns
    BY <2>1 DEF Cards
  <2>4. [card |-> [call |-> chatApproval.call, turn |-> chatApproval.turn], allow |-> allow] \in answers'
    BY <2>1, <2>3
  <2>5. ResponsesWereGiven'
    BY <2>1, <2>3, <2>4 DEF CallInv, ResponsesWereGiven, Answered
  <2> QED BY <2>1, <2>2, <2>5, ChannelStep
<1> QED BY <1>1, <1>2
-----------------------------------------------------------------------------
\* A step of the tool of t.
CardsRest == UNCHANGED <<chatApproval, answers>> /\ chatRequests' \subseteq chatRequests
OnlyToolOf(t) ==
  \A u \in Turns \ {t} : toolStage'[u] = toolStage[u] /\ current'[u] = current[u]

LEMMA CardsStayNamed ==
  ASSUME AgentTypeOK, CallInv, CardsRest, NamesStay, UNCHANGED chatEvents
  PROVE  CardsNameTheirTurn'
BY DEF CallInv, CardsRest, NamesStay, CardsNameTheirTurn

LEMMA ResponsesStayGiven ==
  ASSUME CallInv, CardsRest
  PROVE  ResponsesWereGiven'
BY DEF CallInv, CardsRest, ResponsesWereGiven, Answered

\* A tool that did not wait and does not wait now.
LEMMA QuietShareStep ==
  ASSUME AgentTypeOK, CallInv, NEW t \in Turns, CardsRest, OnlyToolOf(t),
         UNCHANGED <<asks, answered, callSeq, chatEvents>>, duplicated \subseteq duplicated',
         toolStage[t] # "asking", toolStage'[t] # "asking",
         toolStage'[t] = "copying" => t \in duplicated',
         toolStage'[t] = "executing" => Agreed(t)'
  PROVE  CallInv'
<1>1. \A u \in Turns : (Asking(u)' <=> Asking(u)) /\ (Asking(u) => current'[u] = current[u])
  BY DEF OnlyToolOf, Asking
<1>2. CardsNameTheirTurn'
  BY <1>1, NamesAreKept, CardsStayNamed DEF AskersKeep
<1>3. CallsAreToldApart'
  <2>1. /\ \A c : c \in asks' <=> \E u \in Turns : Asking(u)' /\ current'[u].call = c
        /\ asks' \cap answered' = {}
        /\ \A v, u \in Turns : Asking(v)' /\ Asking(u)' /\ current'[v].call = current'[u].call => v = u
    BY <1>1, ToldApart DEF CallInv
  <2> QED BY <2>1 DEF CallsAreToldApart, Asking
<1>4. NumbersAreCounted' /\ WaitingIsAgreed'
  BY <1>1 DEF CallInv, NumbersAreCounted, WaitingIsAgreed, OnlyToolOf, Asking
<1>5. RunningIsAgreed'
  <2> SUFFICES ASSUME NEW u \in Turns, toolStage'[u] = "executing" PROVE Agreed(u)'
    BY DEF RunningIsAgreed
  <2>1. CASE u # t
    BY <2>1 DEF CallInv, RunningIsAgreed, Agreed, Answered, OnlyToolOf, CardsRest
  <2> QED BY <2>1
<1> QED BY <1>2, <1>3, <1>4, <1>5, ResponsesStayGiven DEF CallInv

\* A call takes the next number, which no card has.
LEMMA PromptStep ==
  ASSUME AgentTypeOK, CallInv, NEW t \in Turns, NEW risk \in Risks, NEW copy \in BOOLEAN,
         Prompted(t, risk, copy), CardsRest, UNCHANGED <<answered, duplicated>>,
         toolStage[t] # "asking", copy => t \in duplicated
  PROVE  CallInv'
<1> DEFINE n == callSeq + 1
<1>0. /\ callSeq \in Nat /\ permMode = "ask" /\ callSeq' = n /\ asks' = asks \cup {n}
      /\ OnlyToolOf(t) /\ toolStage'[t] = "asking"
      /\ current'[t] = [risk |-> risk, mode |-> permMode, copy |-> copy, call |-> n]
  BY DEF Prompted, OnlyToolOf, AgentTypeOK
<1>1. \A u \in Turns \ {t} : (Asking(u)' <=> Asking(u)) /\ current'[u] = current[u]
  BY <1>0 DEF OnlyToolOf, Asking
<1>2. \A u \in Turns : Asking(u) => current[u].call \in asks /\ current[u].call \in 1 .. callSeq
  BY ToldApart DEF CallInv, NumbersAreCounted
<1>3. \A u \in Turns \ {t} : Asking(u)' => current'[u].call # n
  BY <1>0, <1>1, <1>2
<1>4. CallsAreToldApart'
  <2>1. \A c : c \in asks' <=> \E u \in Turns : Asking(u)' /\ current'[u].call = c
    BY <1>0, <1>1, ToldApart DEF CallInv, Asking
  <2>2. asks' \cap answered' = {}
    BY <1>0, ToldApart DEF CallInv, NumbersAreCounted
  <2>3. \A v, u \in Turns : Asking(v)' /\ Asking(u)' /\ current'[v].call = current'[u].call => v = u
    BY <1>0, <1>1, <1>3, ToldApart DEF CallInv
  <2> QED BY <2>1, <2>2, <2>3 DEF CallsAreToldApart, Asking
<1>5. NumbersAreCounted'
  BY <1>0 DEF CallInv, NumbersAreCounted
<1>6. NamesStay
  BY <1>0, <1>1, NamesAreKept DEF AskersKeep
<1>7. \A c : c = n => NamesItsTurn(c, t)'
  BY <1>0, <1>3 DEF NamesItsTurn
<1>8. CardsNameTheirTurn'
  <2>1. [kind |-> "approval", turn |-> t, call |-> n] \in Events
    BY <1>0 DEF Events
  <2>2. /\ Len(chatEvents') = Len(chatEvents) + 1 /\ Len(chatEvents) \in Nat
        /\ \A i \in 1 .. Len(chatEvents) : chatEvents'[i] = chatEvents[i]
        /\ chatEvents'[Len(chatEvents) + 1] = [kind |-> "approval", turn |-> t, call |-> n]
    BY <2>1, AppendProperties, LenProperties DEF Prompted, AgentTypeOK
  <2>3. \A i \in 1 .. Len(chatEvents') :
          chatEvents'[i].kind = "approval" => NamesItsTurn(chatEvents[i].call, chatEvents[i].turn)'
    <3> SUFFICES ASSUME NEW i \in 1 .. Len(chatEvents'), chatEvents'[i].kind = "approval"
                 PROVE  NamesItsTurn(chatEvents[i].call, chatEvents[i].turn)'
      OBVIOUS
    <3>1. CASE i = Len(chatEvents) + 1
      BY <1>7, <2>2, <3>1 DEF NamesItsTurn
    <3>2. CASE i \in 1 .. Len(chatEvents)
      <4>1. NamesItsTurn(chatEvents[i].call, chatEvents[i].turn)
        BY <2>2, <3>2 DEF CallInv, CardsNameTheirTurn
      <4>2. \A c, u : c = chatEvents[i].call /\ u = chatEvents[i].turn => NamesItsTurn(c, u)'
        BY <1>6, <4>1 DEF NamesStay
      <4> QED BY <2>2, <3>2, <4>2 DEF NamesItsTurn
    <3> QED BY <2>2, <3>1, <3>2
  <2> QED BY <1>6, <2>3 DEF CallInv, CardsRest, NamesStay, CardsNameTheirTurn
<1>9. WaitingIsAgreed' /\ RunningIsAgreed'
  BY <1>0, <1>1 DEF CallInv, CardsRest, WaitingIsAgreed, RunningIsAgreed, Agreed, Answered, OnlyToolOf, Asking
<1> QED BY <1>4, <1>5, <1>8, <1>9, ResponsesStayGiven DEF CallInv

LEMMA CheckKeepsCalls ==
  ASSUME AgentTypeOK, CallInv, NEW t \in Turns, NEW risk \in Risks, NEW copy \in BOOLEAN,
         Check(t, risk, copy), CardsRest, UNCHANGED <<answered, duplicated>>,
         toolStage[t] # "asking", copy => t \in duplicated
  PROVE  CallInv'
<1>1. CASE Denied(t)
  <2>1. OnlyToolOf(t) /\ toolStage'[t] = "none" /\ UNCHANGED <<asks, callSeq, chatEvents>>
    BY <1>1 DEF Denied, Returned, OnlyToolOf, AgentTypeOK
  <2> QED BY <2>1, QuietShareStep
<1>2. CASE Allowed(t, risk, copy)
  <2>1. /\ OnlyToolOf(t) /\ toolStage'[t] = "executing" /\ UNCHANGED <<asks, callSeq, chatEvents>>
        /\ current'[t] = [risk |-> risk, mode |-> permMode, copy |-> copy, call |-> 0]
        /\ permMode # "read-only" /\ (risk = "destructive" => permMode = "auto")
    BY <1>2 DEF Allowed, OnlyToolOf, AgentTypeOK
  <2>3. /\ current'[t].mode = permMode /\ current'[t].risk = risk /\ current'[t].copy = copy
        /\ (copy => t \in duplicated')
    BY <2>1
  <2>2. Agreed(t)'
    BY <2>1, <2>3 DEF Agreed
  <2> QED BY <2>1, <2>2, QuietShareStep
<1>3. CASE Prompted(t, risk, copy)
  BY <1>3, PromptStep
<1> QED BY <1>1, <1>2, <1>3, CheckOutcomes

LEMMA ToolKeepsCalls ==
  ASSUME AgentTypeOK, CallInv, NEW t \in Turns,
         \/ ToolStarts(t) \/ CopyEnds(t) \/ ToolEnds(t) \/ \E risk \in Risks : CliCalls(t, risk)
  PROVE  CallInv'
<1>1. CASE ToolStarts(t)
  <2>1. /\ turnStage[t] = "tools" /\ toolStage[t] = "none" /\ CardsRest /\ UNCHANGED answered
        /\ duplicateFirst \in BOOLEAN
    BY <1>1 DEF ToolStarts, ChatRests, chatVars, CardsRest, AgentTypeOK
  <2>2. Head(batch[t]) \in Risks
    BY <2>1, HeadTailProperties DEF AgentTypeOK
  <2>3. CASE duplicateFirst /\ t \notin duplicated
    <3>1. /\ duplicated' = duplicated \cup {t} /\ toolStage'[t] = "copying" /\ OnlyToolOf(t)
          /\ UNCHANGED <<asks, callSeq, chatEvents>>
      BY <1>1, <2>3 DEF ToolStarts, OnlyToolOf, AgentTypeOK
    <3> QED BY <2>1, <3>1, QuietShareStep
  <2>4. CASE ~ (duplicateFirst /\ t \notin duplicated)
    <3>1. Check(t, Head(batch[t]), duplicateFirst) /\ UNCHANGED duplicated
      BY <1>1, <2>4 DEF ToolStarts
    <3> QED BY <2>1, <2>2, <2>4, <3>1, CheckKeepsCalls
  <2> QED BY <2>3, <2>4
<1>2. CASE CopyEnds(t)
  <2>1. /\ current[t].risk \in Risks /\ CardsRest /\ UNCHANGED <<answered, duplicated>>
        /\ Check(t, current[t].risk, TRUE) /\ toolStage[t] = "copying" /\ t \in duplicated
    BY <1>2 DEF CopyEnds, ChatRests, chatVars, CardsRest, AgentTypeOK, ToolCalls, CallInv, WaitingIsAgreed
  <2> QED BY <2>1, CheckKeepsCalls
<1>3. CASE ToolEnds(t)
  <2>1. /\ CardsRest /\ OnlyToolOf(t) /\ toolStage[t] = "executing" /\ toolStage'[t] = "none"
        /\ UNCHANGED <<asks, answered, callSeq, chatEvents, duplicated>>
    BY <1>3 DEF ToolEnds, Returned, ChatRests, chatVars, gateVarsOfAgent, CardsRest, OnlyToolOf, AgentTypeOK
  <2> QED BY <2>1, QuietShareStep
<1>4. ASSUME NEW risk \in Risks, CliCalls(t, risk) PROVE CallInv'
  <2>1. /\ CardsRest /\ UNCHANGED <<answered, duplicated>>
        /\ Check(t, risk, FALSE) /\ toolStage[t] = "none"
    BY <1>4 DEF CliCalls, ChatRests, chatVars, CardsRest
  <2> QED BY <2>1, CheckKeepsCalls
<1> QED BY <1>1, <1>2, <1>3, <1>4

\* An answer reaches the one call it was given for.
LEMMA RespondKeepsCalls ==
  ASSUME AgentTypeOK, CallInv, NEW r \in chatRequests, Respond(r)
  PROVE  CallInv'
<1>1. CardsRest /\ UNCHANGED <<callSeq, chatEvents, duplicated>> /\ asks' = asks \ {r.call}
  BY DEF Respond, chatVars, CardsRest
<1>2. CASE r.call \notin asks
  BY <1>1, <1>2, SMTT(30) DEF Respond, CardsRest, CallInv, CallsAreToldApart, NumbersAreCounted, CardsNameTheirTurn,
     NamesItsTurn, ResponsesWereGiven, Answered, WaitingIsAgreed, RunningIsAgreed, Agreed, Asking
<1>3. CASE r.call \in asks
  <2>1. PICK t \in Turns :
          /\ Asking(t) /\ current[t].call = r.call /\ OnlyToolOf(t)
          /\ \/ toolStage'[t] = "none"
             \/ r.allow /\ toolStage'[t] = "executing" /\ current'[t] = current[t]
    BY <1>3 DEF Respond, Returned, Asking, OnlyToolOf, AgentTypeOK
  <2>2. answered' = answered \cup {r.call}
    BY <1>3 DEF Respond
  <2>3. \A u \in Turns : Asking(u)' <=> u # t /\ Asking(u)
    BY <2>1 DEF OnlyToolOf, Asking
  <2>4. \A u \in Turns : u # t => current'[u] = current[u]
    BY <2>1 DEF OnlyToolOf
  <2>5. CallsAreToldApart'
    <3>1. \A c : c \in asks' <=> \E u \in Turns : Asking(u)' /\ current'[u].call = c
      BY <1>1, <2>1, <2>3, <2>4, ToldApart DEF CallInv
    <3>2. asks' \cap answered' = {}
      BY <1>1, <2>2, ToldApart DEF CallInv
    <3>3. \A v, u \in Turns : Asking(v)' /\ Asking(u)' /\ current'[v].call = current'[u].call => v = u
      BY <2>3, <2>4, ToldApart DEF CallInv
    <3> QED BY <3>1, <3>2, <3>3 DEF CallsAreToldApart, Asking
  <2>6. NumbersAreCounted'
    BY <1>1, <1>3, <2>2 DEF CallInv, NumbersAreCounted
  <2>7. CardsNameTheirTurn'
    BY <1>1, <2>3, <2>4, NamesAreKept, CardsStayNamed DEF AskersKeep
  <2>8. WaitingIsAgreed'
    BY <1>1, <2>1, <2>3, <2>4 DEF CallInv, WaitingIsAgreed, OnlyToolOf
  <2>9. RunningIsAgreed'
    <3> SUFFICES ASSUME NEW u \in Turns, toolStage'[u] = "executing" PROVE Agreed(u)'
      BY DEF RunningIsAgreed
    <3>1. CASE u # t
      BY <1>1, <2>1, <3>1 DEF CallInv, RunningIsAgreed, Agreed, Answered, OnlyToolOf, CardsRest
    <3>2. CASE u = t
      <4>1. r.allow /\ current'[t] = current[t]
        BY <2>1, <3>2
      <4>2. r.cmd = "respond" /\ r.allow = TRUE
        BY <4>1 DEF Respond, AgentTypeOK, ChatCommands
      <4>3. PICK v \in Turns : Answered(r.call, v, TRUE)
        BY <4>2 DEF CallInv, ResponsesWereGiven
      <4>4. NamesItsTurn(r.call, v)
        BY <4>3 DEF CallInv, CardsNameTheirTurn, Answered
      <4>5. v = t
        BY <2>1, <4>4 DEF NamesItsTurn
      <4>6. current[t].mode = "ask" /\ (current[t].copy => t \in duplicated)
        BY <2>1 DEF CallInv, WaitingIsAgreed
      <4> QED BY <1>1, <2>1, <3>2, <4>1, <4>3, <4>5, <4>6 DEF Agreed, Answered, CardsRest
    <3> QED BY <3>1, <3>2
  <2> QED BY <1>1, <2>5, <2>6, <2>7, <2>8, <2>9, ResponsesStayGiven DEF CallInv
<1> QED BY <1>2, <1>3
-----------------------------------------------------------------------------
LEMMA AgentInvInit == AgentInit => AgentInv
<1> SUFFICES ASSUME AgentInit PROVE AgentInv
  OBVIOUS
<1>1. NoTool \in ToolCalls
  BY DEF NoTool, ToolCalls, Risks, Modes
<1>2. chatEvents = <<>> /\ Len(chatEvents) = 0 /\ \A t \in Turns : batch[t] = <<>>
  BY EmptySeq DEF AgentInit
<1>3. AgentTypeOK
  BY <1>1, <1>2 DEF AgentInit, AgentTypeOK
<1>4. CallInv
  BY <1>2 DEF AgentInit, CallInv, CallsAreToldApart, NumbersAreCounted, CardsNameTheirTurn, NamesItsTurn,
     ResponsesWereGiven, WaitingIsAgreed, RunningIsAgreed, Asking, NoCard
<1> QED BY <1>3, <1>4 DEF AgentInv

LEMMA AgentInvStep == AgentInv /\ [AgentNext]_agentVars => AgentInv'
<1> SUFFICES ASSUME AgentTypeOK, CallInv, [AgentNext]_agentVars PROVE CallInv'
  BY TypeStep DEF AgentInv
<1> QED BY ChannelsKeepCalls, CardsKeepCalls, ToolKeepsCalls, RespondKeepsCalls DEF AgentNext

\* Every tool the assistant runs was agreed to: allowed by the mode it was checked
\* in, or by the user's answer to the card of that very call, and after the copy of
\* the timeline that was asked for (permissions.check, session.runTool).
THEOREM AgentsRunWhatWasAgreed == AgentSpec => []ToolsRunAsAgreed
<1>1. AgentInv => ToolsRunAsAgreed
  BY DEF AgentInv, CallInv, RunningIsAgreed, Agreed, Answered, ToolsRunAsAgreed
<1> QED BY AgentInvInit, AgentInvStep, <1>1, PTL DEF AgentSpec
================================================================================
