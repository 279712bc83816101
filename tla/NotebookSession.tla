---------------------------- MODULE NotebookSession ----------------------------
(***************************************************************************)
(* A shared notebook in the editor                                         *)
(* (src/components/notebook/useNotebookCollaboration.ts), between the page  *)
(* that is open (src/store/notebook.ts), the pages on disk and the document *)
(* of the native service, which other devices change too.                   *)
(*                                                                          *)
(* The session sends what was typed as the difference between the pages it  *)
(* sees and those of its last snapshot, made against the revision that      *)
(* snapshot came from, and shows the document again when nothing typed      *)
(* waits.  Every await lets the user, the timers and the service run.       *)
(*                                                                          *)
(* A page is the set of the letters on it.  Left out: input methods, which  *)
(* hold the session back while they compose, databases, and pages that are  *)
(* created or deleted; ListChanges stands for what they do to the list.     *)
(***************************************************************************)
EXTENDS Naturals

CONSTANTS
  Pages, Mine, Theirs,  \* the letters typed here and by the others
  MaxVisits,            \* bound: other pages opened, changes of the list
  MaxCallFailures,      \* bound: native calls refused
  MaxSessions           \* bound: times the session is opened

ASSUME NotebookAssumption ==
  /\ Pages # {} /\ Mine \cap Theirs = {}
  /\ MaxVisits \in Nat /\ MaxCallFailures \in Nat /\ MaxSessions \in Nat

VARIABLES
  document,     \* the live document of the service
  base,         \* its content at the session's baseRevision
  corePages,    \* the pages as the core last stored them
  active, open, \* nbActivePageId and the text of nbPage
  going,        \* the page that is being loaded, or the active one
  snapshot,     \* the pages of `snapshot` and `sent`
  carried,      \* the pages that the call under way carries
  step,         \* where open, flush and project stand
  todo,         \* pages that project() has yet to store
  flags,        \* the booleans that hold
  typed, unsent, erased,  \* history: typed, on the open page and not yet sent, erased
  visits, callFailures, sessions

notebookVars == <<document, base, corePages, active, open, going, snapshot, carried, step, todo,
                  flags, typed, unsent, erased, visits, callFailures, sessions>>
shown == <<active, open, going>>
known == <<base, snapshot>>
letters == <<typed, unsent, erased>>
counts == <<visits, callFailures, sessions>>
-----------------------------------------------------------------------------
Letters == Mine \cup Theirs
Texts == [Pages -> SUBSET Letters]
NoText == [p \in Pages |-> {}]
Flags == {"ready", "dirty", "away", "pending", "moved", "refresh", "relist", "announced",
          "timer", "paused", "closing", "awaited", "last"}
Held(names) == flags \cap names # {}

NotebookInit ==
  /\ document = NoText /\ base = NoText /\ corePages = NoText
  /\ active = (CHOOSE p \in Pages : TRUE) /\ open = {} /\ going = active
  /\ snapshot = NoText /\ carried = NoText
  /\ step = "off" /\ todo = {} /\ flags = {}
  /\ typed = {} /\ unsent = {} /\ erased = {}
  /\ visits = 0 /\ callFailures = 0 /\ sessions = 0

\* schedule(): a timer, unless the session is paused or closing.
Scheduled(f) == IF f \cap {"paused", "closing"} = {} THEN f \cup {"timer"} ELSE f

\* The subscription to the store: what changes is pending, and the version moves.
LocalChange(f) ==
  IF "ready" \in f /\ "closing" \notin f THEN Scheduled(f \cup {"pending", "moved"}) ELSE f

\* Mutation: the subscription outlives the session.
AlwaysAnnounced(f) == f \cup {"announced"}
\* The subscription to the service.
Announced(f) ==
  IF "ready" \in f /\ "closing" \notin f THEN f \cup {"announced"} ELSE f

\* Mutation: what came during a flush waits for the next change.
FinishedForGood(f) == f \ {"awaited"}
\* The end of flush(): what came meanwhile is served by another one.
FlagsFinished(f) ==
  IF f \cap {"pending", "refresh"} # {} THEN Scheduled(f \ {"awaited"}) ELSE f \ {"awaited"}

\* What the operations of diffNotebook(sent, carried) make of `pages`.
MergedPages(pages) ==
  [p \in Pages |-> (pages[p] \ (snapshot[p] \ carried[p])) \cup (carried[p] \ snapshot[p])]

\* readLocal(): the snapshot, or the disk when the list of the pages is another
\* one, with the open page on top.
Local ==
  [p \in Pages |-> IF p = active /\ ~ Held({"away"}) THEN open
                   ELSE IF Held({"relist"}) THEN corePages[p] ELSE snapshot[p]]
-----------------------------------------------------------------------------
\* The user types a letter and erases one.
Edits(text) ==
  /\ Held({"ready"}) /\ ~ Held({"closing"})
  /\ open' = text
  /\ flags' = LocalChange(flags \cup {"dirty"})
  /\ UNCHANGED <<document, known, corePages, active, going, carried, step, todo, counts>>
Type(l) ==
  /\ l \notin typed
  /\ typed' = typed \cup {l} /\ unsent' = unsent \cup {l} /\ UNCHANGED erased
  /\ Edits(open \cup {l})
Erase(l) ==
  /\ l \in open \ erased
  /\ erased' = erased \cup {l} /\ unsent' = unsent \ {l} /\ UNCHANGED typed
  /\ Edits(open \ {l})

\* nbFlushPage: the open page is stored.
StoredPage == [corePages EXCEPT ![active] = IF Held({"dirty"}) THEN open ELSE @]
Autosave ==
  /\ Held({"dirty"}) /\ ~ Held({"away"})
  /\ corePages' = StoredPage /\ flags' = flags \ {"dirty"}
  /\ UNCHANGED <<document, known, shown, carried, step, todo, letters, counts>>

\* loadPageIntoState: the open page is stored, then the other one is loaded.
SwitchBegins(p) ==
  /\ visits < MaxVisits
  /\ step # "off" /\ ~ Held({"away", "closing"}) /\ going = active /\ p # active
  /\ visits' = visits + 1
  /\ going' = p
  /\ corePages' = StoredPage /\ flags' = flags \ {"dirty"}
  /\ UNCHANGED <<document, known, active, open, carried, step, todo, letters, callFailures, sessions>>
SwitchEnds ==
  /\ going # active
  /\ active' = going /\ open' = corePages[going]
  /\ flags' = LocalChange(flags \ {"dirty"})
  /\ unsent' = {}
  /\ UNCHANGED <<document, known, corePages, going, carried, step, todo, typed, erased, counts>>

\* A title, or a page elsewhere: nbPages is another list.
ListChanges ==
  /\ visits < MaxVisits
  /\ Held({"ready"}) /\ ~ Held({"closing"})
  /\ visits' = visits + 1
  /\ flags' = LocalChange(flags \cup {"relist"})
  /\ UNCHANGED <<document, known, corePages, shown, carried, step, todo, letters, callFailures, sessions>>

\* Another device writes a letter, or erases one.
RemoteEdit(p, l) ==
  /\ \/ l \in Theirs /\ \A q \in Pages : l \notin document[q]
        /\ l \notin erased /\ UNCHANGED erased
        /\ document' = [document EXCEPT ![p] = @ \cup {l}]
     \/ l \in document[p] /\ erased' = erased \cup {l}
        /\ document' = [document EXCEPT ![p] = @ \ {l}]
  /\ flags' = Announced(flags)
  /\ UNCHANGED <<known, corePages, shown, carried, step, todo, typed, unsent, counts>>
-----------------------------------------------------------------------------
\* start(): the lease, then the first projection.
Open ==
  /\ step = "off" /\ sessions < MaxSessions
  /\ sessions' = sessions + 1
  /\ open' = IF Held({"away"}) THEN corePages[active] ELSE open
  /\ flags' = flags \cap {"dirty"}
  /\ step' = "asking"
  /\ UNCHANGED <<document, known, corePages, active, going, carried, todo, letters, visits, callFailures>>

\* flush(): what is pending is captured, or the document is asked for.
Flush(f) ==
  \/ /\ "pending" \in f
     /\ step' = "sending" /\ carried' = Local
     /\ flags' = f \ {"moved", "relist"}
  \/ /\ "pending" \notin f
     /\ step' = "asking" /\ UNCHANGED carried
     /\ flags' = f \ {"moved", "refresh"}

\* The timer.  A flush that finds another one running leaves it the work, and is
\* the one that leaving awaits.
FlushTimerFires ==
  /\ Held({"timer"})
  /\ \/ step = "idle" /\ Flush((flags \ {"timer"}) \cup {"awaited"})
     \/ /\ step # "idle"
        /\ flags' = (flags \ {"timer", "awaited"}) \cup {"refresh"}
        /\ UNCHANGED <<step, carried>>
  /\ UNCHANGED <<document, known, corePages, shown, todo, letters, counts>>

\* The service applies the operations to a branch of the base, and merges it.
ApplyExecutes ==
  /\ step = "sending"
  /\ step' = "applied"
  /\ document' = MergedPages(document)
  /\ flags' = IF carried = snapshot THEN flags ELSE Announced(flags)
  /\ UNCHANGED <<known, corePages, shown, carried, todo, letters, counts>>

\* Mutation: the base is the document as the batch left it.
DocumentAsBase == document
\* authoredRevision: the base is the branch, never the merged document.
AuthoredBase == MergedPages(base)

ApplyReplies ==
  /\ step = "applied"
  /\ base' = AuthoredBase /\ snapshot' = carried /\ carried' = NoText
  /\ unsent' = unsent \ UNION {carried[p] : p \in Pages}
  /\ IF Held({"moved"})
     THEN step' = "idle" /\ flags' = FlagsFinished(flags)
     ELSE step' = "asking" /\ flags' = flags \ {"pending", "refresh"}
  /\ UNCHANGED <<document, corePages, shown, todo, typed, erased, counts>>
ProjectionAnswers ==
  /\ step = "asking"
  /\ step' = "answered" /\ carried' = document
  /\ UNCHANGED <<document, known, corePages, shown, todo, flags, letters, counts>>

ProjectionMayShow == ~ Held({"moved", "pending"})

\* project(): the document is shown, unless something was typed meanwhile.
HoldProjection ==
  /\ step = "answered" /\ ~ ProjectionMayShow
  /\ step' = "idle" /\ carried' = NoText
  /\ flags' = FlagsFinished(flags \cup {"refresh"})
  /\ UNCHANGED <<document, known, corePages, shown, todo, letters, counts>>
ShowProjection ==
  /\ step = "answered" /\ ProjectionMayShow
  /\ snapshot' = carried /\ base' = carried /\ carried' = NoText
  /\ IF Held({"away"})
     THEN open' = open /\ flags' = flags \ {"relist"}
     ELSE open' = carried[active] /\ flags' = flags \ {"dirty", "relist"}
  /\ step' = "storing" /\ todo' = Pages
  /\ UNCHANGED <<document, corePages, active, going, letters, counts>>

\* The pages that changed are stored, until something is typed.
StoreProjected(p) ==
  /\ step = "storing" /\ p \in todo /\ ~ Held({"moved"})
  /\ corePages' = [corePages EXCEPT ![p] = snapshot[p]] /\ todo' = todo \ {p}
  /\ UNCHANGED <<document, known, shown, carried, step, flags, letters, counts>>
ProjectionEnds ==
  /\ step = "storing" /\ (todo = {} \/ Held({"moved"}))
  /\ step' = "idle" /\ todo' = {}
  /\ flags' = IF Held({"ready"}) THEN FlagsFinished(flags)
              ELSE IF Held({"closing"}) THEN flags ELSE flags \cup {"ready"}
  /\ UNCHANGED <<document, known, corePages, shown, carried, letters, counts>>

\* A native call is refused: the session pauses, or does not open.
CallFails ==
  /\ callFailures < MaxCallFailures
  /\ step \in {"sending", "asking", "storing"}
  /\ callFailures' = callFailures + 1
  /\ IF Held({"ready"})
     THEN step' = "idle" /\ flags' = (flags \ {"awaited"}) \cup {"paused"}
     ELSE step' = "off" /\ flags' = flags \cap {"dirty", "away"}
  /\ carried' = NoText /\ todo' = {}
  /\ UNCHANGED <<document, known, corePages, shown, letters, visits, sessions>>
\* The sign-in is not renewed: the session pauses with its calls
\* under way and its timer set.
AuthFails ==
  /\ callFailures < MaxCallFailures
  /\ step # "off" /\ ~ Held({"closing"})
  /\ callFailures' = callFailures + 1
  /\ flags' = flags \cup {"paused"}
  /\ UNCHANGED <<document, known, corePages, shown, carried, step, todo, letters, visits, sessions>>
\* The button beside an error, of the session or of a file it loads.
Retry ==
  /\ Held({"ready"}) /\ ~ Held({"closing"})
  /\ flags' = Scheduled((flags \ {"paused"}) \cup {"refresh"})
  /\ UNCHANGED <<document, known, corePages, shown, carried, step, todo, letters, counts>>

\* The service's event.
ChangeArrives ==
  /\ Held({"announced"})
  /\ flags' = Scheduled((flags \ {"announced"}) \cup {"refresh"})
  /\ UNCHANGED <<document, known, corePages, shown, carried, step, todo, letters, counts>>
-----------------------------------------------------------------------------
\* The hook is unmounted: the panel closes, or another notebook opens.
CloseSession(leaves) ==
  /\ step # "off" /\ ~ Held({"closing"}) /\ going = active
  /\ IF leaves
     THEN /\ corePages' = StoredPage /\ unsent' = {}
          /\ flags' = (flags \ {"timer", "announced", "dirty"}) \cup {"closing", "away", "relist"}
     ELSE /\ UNCHANGED <<corePages, unsent>>
          /\ flags' = (flags \ {"timer", "announced"}) \cup {"closing"}
  /\ UNCHANGED <<document, known, shown, carried, step, todo, typed, erased, counts>>

\* finish(): one more flush for what is pending, paused or not.
CloseFlushes ==
  /\ Held({"closing"}) /\ Held({"pending"}) /\ ~ Held({"last", "awaited"}) /\ step = "idle"
  /\ Flush(flags \cup {"last", "awaited"})
  /\ UNCHANGED <<document, known, corePages, shown, todo, letters, counts>>

\* The lease is given back.  A flush that was not awaited still runs: its
\* operations have reached the service or are refused.
Dispose ==
  /\ Held({"closing"}) /\ ~ Held({"awaited"})
  /\ Held({"last"}) \/ ~ Held({"pending"}) \/ step # "idle"
  /\ document' \in IF step = "sending" THEN {document, MergedPages(document)} ELSE {document}
  /\ step' = "off" /\ flags' = flags \cap {"dirty", "away"}
  /\ base' = NoText /\ snapshot' = NoText /\ carried' = NoText /\ todo' = {}
  /\ unsent' = {}
  /\ UNCHANGED <<corePages, shown, typed, erased, counts>>

NotebookNext ==
  \/ \E l \in Mine : Type(l)
  \/ \E l \in Letters : Erase(l) \/ \E p \in Pages : RemoteEdit(p, l)
  \/ \E p \in Pages : SwitchBegins(p) \/ StoreProjected(p)
  \/ Autosave \/ SwitchEnds \/ ListChanges
  \/ Open \/ FlushTimerFires \/ ApplyExecutes \/ ApplyReplies
  \/ ProjectionAnswers \/ HoldProjection \/ ShowProjection \/ ProjectionEnds
  \/ CallFails \/ AuthFails \/ Retry \/ ChangeArrives
  \/ \E leaves \in BOOLEAN : CloseSession(leaves)
  \/ CloseFlushes \/ Dispose

\* Timers fire, events arrive, native calls and loads return.
NotebookFairness ==
  /\ WF_notebookVars(FlushTimerFires)
  /\ WF_notebookVars(ChangeArrives)
  /\ WF_notebookVars(ApplyExecutes \/ ApplyReplies \/ ProjectionAnswers)
  /\ WF_notebookVars(HoldProjection \/ ShowProjection \/ ProjectionEnds)
  /\ WF_notebookVars(\E p \in Pages : StoreProjected(p))
  /\ WF_notebookVars(SwitchEnds)

NotebookSpec == NotebookInit /\ [][NotebookNext]_notebookVars /\ NotebookFairness
-----------------------------------------------------------------------------
\* Every variable in its range; neither a timer, an event nor anything pending
\* outlives the session.
NotebookTypeOK ==
  /\ document \in Texts /\ base \in Texts /\ corePages \in Texts
  /\ snapshot \in Texts /\ carried \in Texts
  /\ active \in Pages /\ going \in Pages /\ open \in SUBSET Letters
  /\ step \in {"off", "idle", "sending", "applied", "asking", "answered", "storing"}
  /\ todo \in SUBSET Pages /\ flags \in SUBSET Flags
  /\ step = "off" => flags \subseteq {"dirty", "away"}
  /\ typed \in SUBSET Mine /\ unsent \in SUBSET typed /\ erased \in SUBSET Letters
  /\ visits \in 0 .. MaxVisits /\ callFailures \in 0 .. MaxCallFailures
  /\ sessions \in 0 .. MaxSessions

\* The differences are made against the very content that the service applies
\* them to: a text operation is an index into it.
DiffedAgainstTheBase == snapshot = base

\* What was typed on the open page stays on it until it has been captured, even
\* when the document of the others is shown meanwhile.
TypingStaysOnScreen == unsent \subseteq open

\* The session sends exactly what it sees change, and hides nothing it has yet to
\* send: both of the above.
SessionIsFaithful == DiffedAgainstTheBase /\ TypingStaysOnScreen

\* What was typed on the page that stays open is captured in the end, unless the
\* session is paused by an error or left.
TypingIsSent ==
  \A l \in Mine : l \in unsent ~> l \notin unsent \/ Held({"paused", "closing"})

\* What the service announces is shown in the end, unless it is undone, or the
\* session is paused or left.
ChangesAreShown ==
  \A l \in Theirs : \A p \in Pages :
    Held({"announced"}) /\ l \in document[p]
      ~> l \in snapshot[p] \/ l \notin document[p] \/ Held({"paused", "closing"})

\* Unless the session is paused or left, what is typed is sent and what is
\* announced is shown.
SessionsCatchUp == TypingIsSent /\ ChangesAreShown

\* "Local edits are coalesced ... and leave as one operation batch"
\* (docs/collab.md:203): at rest, what was typed and not erased is in the document.
TypingLeavesAsABatch ==
  step = "idle" /\ ~ Held({"pending", "refresh", "timer", "paused", "closing"})
    => typed \subseteq erased \cup UNION {document[p] : p \in Pages}

\* Nothing leaves the document that nobody erased.
NothingIsErasedUnasked ==
  [][\A p \in Pages : document[p] \ document'[p] \subseteq erased']_notebookVars
=============================================================================
