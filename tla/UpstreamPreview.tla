-------------------------- MODULE UpstreamPreview --------------------------
(***************************************************************************)
(* The dialog that previews and applies the upstream model changes of one  *)
(* channel: openModal, closeModal, detectChannelUpdates and applyUpdates   *)
(* of web/src/features/channels/hooks/use-channel-upstream-updates.ts and  *)
(* the selection kept in dialogs/upstream-update-dialog.tsx.               *)
(*                                                                         *)
(* The additions and removals of a channel are one set of changes.  The    *)
(* request id is only compared with the newest one: a detect request       *)
(* carries the outcome of that comparison in its field latest.             *)
(***************************************************************************)
EXTENDS Naturals, FiniteSets

CONSTANTS
    Channels,
    NoChannel,
    Changes,   \* the model additions and removals a preview may list
    Slots,     \* bound on the detect requests in flight
    MaxFaults  \* bound on failed requests and refreshes

ASSUME ConstantsAssumption ==
    /\ NoChannel \notin Channels
    /\ MaxFaults \in Nat

VARIABLES
    dlg,     \* the dialog's state and the selection of its session
    detects, \* per slot: a detect request
    apply,   \* the apply request (applyRef)
    diff,    \* per channel, on the server: the changes its upstream has
    rows,    \* per channel: the changes the channel table shows
    faults

vars == <<dlg, detects, apply, diff, rows, faults>>

\* list is what the dialog offers; of says for which channel it was computed and posts how
\* often it was submitted (both are history, no code reads them).
Lists == [of : Channels \cup {NoChannel}, items : SUBSET Changes, posts : 0 .. 2]

Dialogs == [shown : BOOLEAN, channel : Channels \cup {NoChannel}, list : Lists,
            selected : SUBSET Changes, loading : BOOLEAN, detectError : BOOLEAN,
            applyError : BOOLEAN, result : BOOLEAN]

Detects == [pc : {"idle", "sent", "served", "failed"}, channel : Channels \cup {NoChannel},
            items : SUBSET Changes, latest : BOOLEAN]

Applies == [pc : {"idle", "sent", "served", "failed"}, channel : Channels \cup {NoChannel},
            items : SUBSET Changes]

(***************************************************************************)
(* The type invariant.                                                     *)
(***************************************************************************)
TypeOK ==
    /\ dlg \in Dialogs
    /\ detects \in [Slots -> Detects]
    /\ apply \in Applies
    /\ diff \in [Channels -> SUBSET Changes]
    /\ rows \in [Channels -> SUBSET Changes]
    /\ faults \in 0 .. MaxFaults

NoList == [of |-> NoChannel, items |-> {}, posts |-> 0]

Closed == [shown |-> FALSE, channel |-> NoChannel, list |-> NoList, selected |-> {},
           loading |-> FALSE, detectError |-> FALSE, applyError |-> FALSE, result |-> FALSE]

IdleDetect == [pc |-> "idle", channel |-> NoChannel, items |-> {}, latest |-> FALSE]

IdleApply == [pc |-> "idle", channel |-> NoChannel, items |-> {}]

Init ==
    /\ dlg = Closed
    /\ detects = [s \in Slots |-> IdleDetect]
    /\ apply = IdleApply
    /\ diff \in [Channels -> SUBSET Changes]
    /\ rows = diff
    /\ faults = 0

Applying == apply.pc # "idle"

\* previewRequestRef += 1.
Superseded == [s \in Slots |-> [detects[s] EXCEPT !.latest = FALSE]]

Fault ==
    /\ faults < MaxFaults
    /\ faults' = faults + 1

(***************************************************************************)
(* Opening, closing and detecting.                                         *)
(***************************************************************************)
\* openModal with the changes a table row shows; a new preview version starts a new session.
OpenModal(c) ==
    /\ ~dlg.shown
    /\ ~Applying
    /\ detects' = Superseded
    /\ dlg' = [Closed EXCEPT !.shown = TRUE, !.channel = c, !.selected = rows[c],
                             !.list = [of |-> c, items |-> rows[c], posts |-> 0]]
    /\ UNCHANGED <<apply, diff, rows, faults>>

CloseModal ==
    /\ dlg.shown
    /\ ~Applying
    /\ detects' = Superseded
    /\ dlg' = Closed
    /\ UNCHANGED <<apply, diff, rows, faults>>

\* Mutant: a new detection leaves the spinner to the answer of the old one.
DetectNoLoading(c) ==
    \E s \in Slots :
        /\ ~Applying
        /\ dlg.shown => dlg.channel = c
        /\ detects[s].pc = "idle"
        /\ detects' = [Superseded EXCEPT ![s] =
                        [pc |-> "sent", channel |-> c, items |-> {}, latest |-> TRUE]]
        /\ dlg' = [dlg EXCEPT !.shown = TRUE, !.channel = c, !.list = NoList,
                              !.detectError = FALSE, !.applyError = FALSE, !.result = FALSE]
        /\ UNCHANGED <<apply, diff, rows, faults>>

\* detectChannelUpdates up to its await, from a table row or from the dialog.  The session
\* keeps its selection until the answer brings a new preview version.
DetectChannelUpdates(c) ==
    \E s \in Slots :
        /\ ~Applying
        /\ dlg.shown => dlg.channel = c
        /\ detects[s].pc = "idle"
        /\ detects' = [Superseded EXCEPT ![s] =
                        [pc |-> "sent", channel |-> c, items |-> {}, latest |-> TRUE]]
        /\ dlg' = [dlg EXCEPT !.shown = TRUE, !.channel = c, !.list = NoList, !.loading = TRUE,
                              !.detectError = FALSE, !.applyError = FALSE, !.result = FALSE]
        /\ UNCHANGED <<apply, diff, rows, faults>>

\* Mutant: an older answer leaves the spinner alone but fills the list.
DetectContinuesAnyList(s) ==
    LET d == detects[s] IN
    /\ d.pc \in {"served", "failed"}
    /\ detects' = [detects EXCEPT ![s] = IdleDetect]
    /\ dlg' = IF d.pc = "failed"
              THEN [dlg EXCEPT !.loading = @ /\ ~d.latest, !.detectError = d.latest]
              ELSE [dlg EXCEPT !.loading = @ /\ ~d.latest, !.selected = d.items,
                               !.list = [of |-> d.channel, items |-> d.items, posts |-> 0]]
    /\ UNCHANGED <<apply, diff, rows, faults>>

\* detectChannelUpdates with its answer: only the newest request touches the dialog.
DetectContinues(s) ==
    LET d == detects[s] IN
    /\ d.pc \in {"served", "failed"}
    /\ detects' = [detects EXCEPT ![s] = IdleDetect]
    /\ dlg' = IF ~d.latest THEN dlg
              ELSE IF d.pc = "failed"
              THEN [dlg EXCEPT !.loading = FALSE, !.detectError = TRUE]
              ELSE [dlg EXCEPT !.loading = FALSE, !.selected = d.items,
                               !.list = [of |-> d.channel, items |-> d.items, posts |-> 0]]
    /\ UNCHANGED <<apply, diff, rows, faults>>

(***************************************************************************)
(* Selecting and applying.                                                 *)
(***************************************************************************)
\* The user changes the selection of the preview.
Select(items) ==
    /\ dlg.shown
    /\ ~Applying
    /\ ~dlg.loading /\ ~dlg.detectError /\ ~dlg.result
    /\ items \subseteq dlg.list.items
    /\ dlg' = [dlg EXCEPT !.selected = items]
    /\ UNCHANGED <<detects, apply, diff, rows, faults>>

\* Mutant: a list whose submission failed can be submitted again.
ApplyUpdatesAgain ==
    LET chosen == dlg.selected \cap dlg.list.items IN
    /\ ~Applying
    /\ dlg.shown
    /\ ~dlg.loading /\ ~dlg.detectError /\ ~dlg.result
    /\ chosen # {}
    /\ apply' = [pc |-> "sent", channel |-> dlg.channel, items |-> chosen]
    /\ dlg' = [dlg EXCEPT !.list.posts = @ + 1]
    /\ UNCHANGED <<detects, diff, rows, faults>>

\* Mutant: the selection is submitted as it is, without the filter by the offered list.
ApplyUpdatesUnfiltered ==
    LET chosen == dlg.selected IN
    /\ ~Applying
    /\ dlg.shown
    /\ ~dlg.detectError /\ ~dlg.applyError /\ ~dlg.result
    /\ chosen # {}
    /\ apply' = [pc |-> "sent", channel |-> dlg.channel, items |-> chosen]
    /\ dlg' = [dlg EXCEPT !.list.posts = @ + 1]
    /\ UNCHANGED <<detects, diff, rows, faults>>

\* applyUpdates up to its await, from the confirmation dialog.
ApplyUpdates ==
    LET chosen == dlg.selected \cap dlg.list.items IN
    /\ ~Applying
    /\ dlg.shown
    /\ ~dlg.loading /\ ~dlg.detectError /\ ~dlg.applyError /\ ~dlg.result
    /\ chosen # {}
    /\ apply' = [pc |-> "sent", channel |-> dlg.channel, items |-> chosen]
    /\ dlg' = [dlg EXCEPT !.list.posts = @ + 1]
    /\ UNCHANGED <<detects, diff, rows, faults>>

\* applyUpdates with its answer; the refresh of the table is started and may fail.
ApplyContinues ==
    /\ apply.pc \in {"served", "failed"}
    /\ apply' = IdleApply
    /\ dlg' = IF apply.pc = "served" THEN [dlg EXCEPT !.result = TRUE]
              ELSE [dlg EXCEPT !.applyError = TRUE]
    /\ UNCHANGED <<detects, diff, rows, faults>>

(***************************************************************************)
(* The server, and the channel table.                                      *)
(***************************************************************************)
ServeDetect(s) ==
    /\ detects[s].pc = "sent"
    /\ detects' = [detects EXCEPT ![s].pc = "served", ![s].items = diff[detects[s].channel]]
    /\ UNCHANGED <<dlg, apply, diff, rows, faults>>

ServeApply ==
    /\ apply.pc = "sent"
    /\ diff' = [diff EXCEPT ![apply.channel] = @ \ apply.items]
    /\ apply' = [apply EXCEPT !.pc = "served"]
    /\ UNCHANGED <<dlg, detects, rows, faults>>

\* A request fails; an apply that fails may have been carried out.
RequestFails ==
    /\ Fault
    /\ \/ /\ \E s \in Slots : /\ detects[s].pc = "sent"
                              /\ detects' = [detects EXCEPT ![s].pc = "failed"]
          /\ UNCHANGED <<apply, diff>>
       \/ /\ apply.pc = "sent"
          /\ apply' = [apply EXCEPT !.pc = "failed"]
          /\ diff' \in {diff, [diff EXCEPT ![apply.channel] = @ \ apply.items]}
          /\ UNCHANGED detects
    /\ UNCHANGED <<dlg, rows>>

\* The upstream of a channel changes.
UpstreamChanges(c) ==
    /\ \E items \in SUBSET Changes : diff' = [diff EXCEPT ![c] = items]
    /\ UNCHANGED <<dlg, detects, apply, rows, faults>>

\* The channel table is fetched again.
RefreshRows ==
    /\ rows' = diff
    /\ UNCHANGED <<dlg, detects, apply, diff, faults>>

User ==
    \/ CloseModal
    \/ ApplyUpdates
    \/ \E c \in Channels : OpenModal(c) \/ DetectChannelUpdates(c)
    \/ \E items \in SUBSET Changes : Select(items)

Answer ==
    \/ ServeApply
    \/ ApplyContinues
    \/ \E s \in Slots : ServeDetect(s) \/ DetectContinues(s)

Environment == RequestFails \/ RefreshRows \/ \E c \in Channels : UpstreamChanges(c)

Next == User \/ Answer \/ Environment

Spec == Init /\ [][Next]_vars

(***************************************************************************)
(* Properties.                                                             *)
(***************************************************************************)
\* The changes the dialog offers were computed for the channel it names, however late the
\* answers of earlier detections arrive (the request id of detectChannelUpdates).  The
\* types are checked along.
ListOfChannel == TypeOK /\ dlg.list.of \in {NoChannel, dlg.channel}

\* The dialog shows that it detects exactly while the request it waits for is in flight
\* (setDetectLoading in openModal, closeModal and the guarded finally).
LoadingBacked == dlg.loading <=> \E s \in Slots : detects[s].pc # "idle" /\ detects[s].latest

\* A submitted list is never submitted again: after an apply whose outcome is unknown the
\* dialog asks for a fresh preview (the applyError and result guards of applyUpdates).
ListPostedOnce == dlg.list.posts <= 1

\* What is applied to a channel is part of the preview on screen, which nothing replaces
\* until the answer is there (applyRef, and the filter by the offered models).
AppliedAsShown ==
    Applying => /\ apply.channel = dlg.channel
                /\ apply.items \subseteq dlg.list.items

============================================================================
