----------------------- MODULE UpstreamPreviewProofs -----------------------
(***************************************************************************)
(* Proofs about UpstreamPreview, for every set of channels, changes and    *)
(* detect requests in flight.                                              *)
(***************************************************************************)
EXTENDS UpstreamPreview, TLAPS

(***************************************************************************)
(* The inductive invariant.                                                *)
(***************************************************************************)
\* The request whose answer the dialog waits for.
Awaited(s) == detects[s].pc # "idle" /\ detects[s].latest

\* A request in flight names a channel.
RequestsNamed ==
    /\ \A s \in Slots : detects[s].pc # "idle" => detects[s].channel \in Channels
    /\ Applying => apply.channel \in Channels
    /\ dlg.shown => dlg.channel \in Channels

\* At most one detect request is awaited, it is about the dialog's channel, and the dialog
\* shows that it detects.
AwaitedShown ==
    /\ \A s \in Slots : Awaited(s) => dlg.loading /\ detects[s].channel = dlg.channel
    /\ \A s, t \in Slots : Awaited(s) /\ Awaited(t) => s = t
    /\ dlg.loading => dlg.shown /\ \E s \in Slots : Awaited(s)

\* A list that was posted is being applied or is marked by the outcome of its post; while
\* it is applied nothing is awaited that could replace it.
PostedMarked ==
    /\ dlg.list.posts # 0 => /\ dlg.list.posts = 1
                             /\ Applying \/ dlg.applyError \/ dlg.result
    /\ Applying => dlg.shown /\ ~dlg.loading

Sound ==
    /\ TypeOK
    /\ RequestsNamed
    /\ AwaitedShown
    /\ PostedMarked
    /\ dlg.list.of \in {NoChannel, dlg.channel}
    /\ AppliedAsShown

(***************************************************************************)
(* Typing facts.                                                           *)
(***************************************************************************)
(* The records the actions start from have their types.                     *)
LEMMA RecordsTyped ==
    /\ NoList \in Lists
    /\ Closed \in Dialogs
    /\ IdleDetect \in Detects
    /\ IdleApply \in Applies
  BY DEF NoList, Closed, IdleDetect, IdleApply, Lists, Dialogs, Detects, Applies

(* previewRequestRef += 1 keeps every request and lets the dialog await none. *)
LEMMA SupersededTyped ==
    ASSUME TypeOK
    PROVE  /\ Superseded \in [Slots -> Detects]
           /\ \A s \in Slots : /\ Superseded[s].pc = detects[s].pc
                               /\ Superseded[s].channel = detects[s].channel
                               /\ ~Superseded[s].latest
  BY DEF TypeOK, Superseded, Detects

(* The initial states satisfy the invariant.                                 *)
LEMMA InitSound ==
    ASSUME Init
    PROVE  Sound
  <1>1. TypeOK
    BY RecordsTyped, ConstantsAssumption DEF Init, TypeOK
  <1>2. \A s \in Slots : detects[s] = IdleDetect
    BY DEF Init
  <1> QED
    BY <1>1, <1>2 DEF Init, Sound, RequestsNamed, AwaitedShown, PostedMarked, Awaited,
        AppliedAsShown, Applying, Closed, NoList, IdleDetect, IdleApply

(***************************************************************************)
(* The actions.                                                            *)
(***************************************************************************)
(* openModal and closeModal leave no request awaited and a list that was not *)
(* posted.                                                                   *)
LEMMA ModalKeepsSound ==
    ASSUME Sound, CloseModal \/ \E c \in Channels : OpenModal(c)
    PROVE  Sound'
  <1>1. /\ ~Applying
        /\ detects' = Superseded
        /\ UNCHANGED <<apply, diff, rows, faults>>
    BY DEF CloseModal, OpenModal
  <1>2. /\ dlg' \in Dialogs
        /\ ~dlg'.loading /\ dlg'.list.posts = 0
        /\ dlg'.list.of = dlg'.channel
        /\ dlg'.shown => dlg'.channel \in Channels
    <2>1. CASE CloseModal
      BY <2>1, RecordsTyped DEF CloseModal, Closed, NoList
    <2>2. ASSUME NEW c \in Channels, OpenModal(c)
          PROVE  /\ dlg' \in Dialogs
                 /\ ~dlg'.loading /\ dlg'.list.posts = 0
                 /\ dlg'.list.of = dlg'.channel
                 /\ dlg'.channel \in Channels
      <3>1. dlg' = [Closed EXCEPT !.shown = TRUE, !.channel = c, !.selected = rows[c],
                                  !.list = [of |-> c, items |-> rows[c], posts |-> 0]]
        BY <2>2 DEF OpenModal
      <3>2. rows[c] \in SUBSET Changes
        BY <2>2 DEF Sound, TypeOK
      <3>3. [of |-> c, items |-> rows[c], posts |-> 0] \in Lists
        BY <3>2 DEF Lists
      <3> QED
        BY <3>1, <3>2, <3>3, RecordsTyped DEF Closed, Dialogs
    <2> QED
      BY <2>1, <2>2
  <1>3. TypeOK'
    BY <1>1, <1>2, SupersededTyped DEF Sound, TypeOK
  <1>4. \A s \in Slots : ~Awaited(s)'
    BY <1>1, SupersededTyped DEF Awaited, Sound
  <1>5. ~Applying'
    BY <1>1 DEF Applying
  <1>6. RequestsNamed'
    BY <1>1, <1>2, <1>5, SupersededTyped DEF Sound, RequestsNamed
  <1> QED
    BY <1>2, <1>3, <1>4, <1>5, <1>6 DEF Sound, AwaitedShown, PostedMarked, AppliedAsShown

(* A new detection is the one the dialog awaits, for the channel it names.   *)
LEMMA DetectKeepsSound ==
    ASSUME Sound, NEW c \in Channels, DetectChannelUpdates(c)
    PROVE  Sound'
  <1>1. PICK s \in Slots :
            /\ ~Applying
            /\ detects' = [Superseded EXCEPT ![s] =
                             [pc |-> "sent", channel |-> c, items |-> {}, latest |-> TRUE]]
            /\ dlg' = [dlg EXCEPT !.shown = TRUE, !.channel = c, !.list = NoList,
                                  !.loading = TRUE, !.detectError = FALSE,
                                  !.applyError = FALSE, !.result = FALSE]
            /\ UNCHANGED <<apply, diff, rows, faults>>
    BY DEF DetectChannelUpdates
  <1>2. /\ detects' \in [Slots -> Detects]
        /\ detects'[s] = [pc |-> "sent", channel |-> c, items |-> {}, latest |-> TRUE]
        /\ \A t \in Slots \ {s} : detects'[t] = Superseded[t]
    BY <1>1, SupersededTyped DEF Sound, Detects
  <1>3. /\ dlg' \in Dialogs
        /\ dlg'.shown /\ dlg'.loading
        /\ dlg'.channel = c
        /\ dlg'.list = NoList
    BY <1>1, RecordsTyped DEF Sound, TypeOK, Dialogs
  <1>4. TypeOK'
    BY <1>1, <1>2, <1>3 DEF Sound, TypeOK
  <1>5. \A t \in Slots : Awaited(t)' <=> t = s
    BY <1>2, SupersededTyped DEF Awaited, Sound
  <1>6. RequestsNamed'
    BY <1>1, <1>2, <1>3, SupersededTyped DEF Sound, RequestsNamed, Applying
  <1>7. AwaitedShown'
    BY <1>2, <1>3, <1>5 DEF AwaitedShown
  <1> QED
    BY <1>1, <1>3, <1>4, <1>6, <1>7
    DEF Sound, PostedMarked, AppliedAsShown, Applying, NoList

(* Only the awaited answer reaches the dialog: it is about the channel shown *)
(* and, as nothing is applied while it is awaited, replaces a list at rest.  *)
LEMMA DetectContinuesKeepsSound ==
    ASSUME Sound, NEW s \in Slots, DetectContinues(s)
    PROVE  Sound'
  <1> DEFINE d == detects[s]
  <1>1. /\ d.pc # "idle"
        /\ d \in Detects
        /\ detects' = [detects EXCEPT ![s] = IdleDetect]
        /\ UNCHANGED <<apply, diff, rows, faults>>
    BY DEF DetectContinues, Sound, TypeOK
  <1>2. /\ detects' \in [Slots -> Detects]
        /\ detects'[s] = IdleDetect
        /\ \A t \in Slots \ {s} : detects'[t] = detects[t]
    BY <1>1, RecordsTyped DEF Sound, TypeOK
  <1>3. \A t \in Slots : Awaited(t)' <=> Awaited(t) /\ t # s
    BY <1>2 DEF Awaited, IdleDetect
  <1>4. CASE ~d.latest
    <2>1. dlg' = dlg /\ ~Awaited(s)
      BY <1>4 DEF DetectContinues, Awaited
    <2>2. TypeOK'
      BY <1>1, <1>2, <2>1 DEF Sound, TypeOK
    <2>3. RequestsNamed'
      BY <1>1, <1>2, <2>1 DEF Sound, RequestsNamed, Applying, IdleDetect
    <2>4. AwaitedShown'
      BY <1>2, <1>3, <2>1 DEF Sound, AwaitedShown
    <2> QED
      BY <1>1, <2>1, <2>2, <2>3, <2>4 DEF Sound, PostedMarked, AppliedAsShown, Applying
  <1>5. CASE d.latest
    <2>1. Awaited(s) /\ dlg.loading /\ dlg.shown /\ d.channel = dlg.channel
      BY <1>1, <1>5 DEF Awaited, Sound, AwaitedShown
    <2>2. ~Applying
      BY <2>1 DEF Sound, PostedMarked
    <2>3. \A t \in Slots : ~Awaited(t)'
      BY <1>3, <2>1 DEF Sound, AwaitedShown
    <2>4. /\ dlg' \in Dialogs
          /\ ~dlg'.loading
          /\ dlg'.shown = dlg.shown /\ dlg'.channel = dlg.channel
          /\ dlg'.list.of \in {NoChannel, dlg.channel}
          /\ dlg'.list.posts = 0 \/ /\ dlg'.list = dlg.list
                                     /\ dlg'.applyError = dlg.applyError
                                     /\ dlg'.result = dlg.result
      <3>1. CASE d.pc = "failed"
        <4>1. dlg' = [dlg EXCEPT !.loading = FALSE, !.detectError = TRUE]
          BY <1>5, <3>1 DEF DetectContinues
        <4> QED
          BY <4>1 DEF Sound, TypeOK, Dialogs
      <3>2. CASE d.pc # "failed"
        <4>1. dlg' = [dlg EXCEPT !.loading = FALSE, !.selected = d.items,
                        !.list = [of |-> d.channel, items |-> d.items, posts |-> 0]]
          BY <1>5, <3>2 DEF DetectContinues
        <4>2. [of |-> d.channel, items |-> d.items, posts |-> 0] \in Lists
          BY <1>1 DEF Detects, Lists
        <4> QED
          BY <1>1, <2>1, <4>1, <4>2 DEF Sound, TypeOK, Dialogs, Detects
      <3> QED
        BY <3>1, <3>2
    <2>5. TypeOK'
      BY <1>1, <1>2, <2>4 DEF Sound, TypeOK
    <2>6. RequestsNamed'
      BY <1>1, <1>2, <2>4 DEF Sound, RequestsNamed, Applying, IdleDetect
    <2>7. AwaitedShown'
      BY <2>3, <2>4 DEF AwaitedShown
    <2> QED
      BY <1>1, <2>2, <2>4, <2>5, <2>6, <2>7
      DEF Sound, PostedMarked, AppliedAsShown, Applying
  <1> QED
    BY <1>4, <1>5

(* Changing the selection touches nothing the invariant speaks of.           *)
LEMMA SelectKeepsSound ==
    ASSUME Sound, NEW items \in SUBSET Changes, Select(items)
    PROVE  Sound'
  <1>1. /\ dlg' = [dlg EXCEPT !.selected = items]
        /\ UNCHANGED <<detects, apply, diff, rows, faults>>
    BY DEF Select
  <1>2. /\ dlg' \in Dialogs
        /\ dlg'.shown = dlg.shown /\ dlg'.channel = dlg.channel /\ dlg'.list = dlg.list
        /\ dlg'.loading = dlg.loading
        /\ dlg'.applyError = dlg.applyError /\ dlg'.result = dlg.result
    BY <1>1 DEF Sound, TypeOK, Dialogs
  <1> QED
    BY <1>1, <1>2 DEF Sound, TypeOK, RequestsNamed, AwaitedShown, PostedMarked, Awaited,
        AppliedAsShown, Applying

(* A list is posted only when no outcome of an earlier post marks it.        *)
LEMMA ApplyKeepsSound ==
    ASSUME Sound, ApplyUpdates
    PROVE  Sound'
  <1> DEFINE chosen == dlg.selected \cap dlg.list.items
  <1>1. /\ ~Applying /\ dlg.shown /\ ~dlg.loading
        /\ ~dlg.applyError /\ ~dlg.result
        /\ apply' = [pc |-> "sent", channel |-> dlg.channel, items |-> chosen]
        /\ dlg' = [dlg EXCEPT !.list.posts = @ + 1]
        /\ UNCHANGED <<detects, diff, rows, faults>>
    BY DEF ApplyUpdates
  <1>2. dlg \in Dialogs /\ dlg.list \in Lists /\ dlg.list.posts = 0
    BY <1>1 DEF Sound, TypeOK, Dialogs, PostedMarked
  <1>3. [dlg.list EXCEPT !.posts = 1] \in Lists
    BY <1>2 DEF Lists
  <1>4. dlg' = [dlg EXCEPT !.list = [dlg.list EXCEPT !.posts = 1]]
    BY <1>1, <1>2 DEF Dialogs, Lists
  <1>5. /\ dlg' \in Dialogs
        /\ dlg'.list = [dlg.list EXCEPT !.posts = 1]
        /\ dlg'.shown = dlg.shown /\ dlg'.channel = dlg.channel
        /\ dlg'.loading = dlg.loading
    BY <1>2, <1>3, <1>4 DEF Dialogs
  <1>6. /\ dlg'.list.posts = 1
        /\ dlg'.list.of = dlg.list.of
        /\ dlg'.list.items = dlg.list.items
    BY <1>2, <1>5 DEF Lists
  <1>7. apply' \in Applies /\ Applying'
    <2>1. dlg.channel \in Channels \cup {NoChannel} /\ dlg.list.items \in SUBSET Changes
      BY <1>2 DEF Dialogs, Lists
    <2> QED
      BY <1>1, <2>1 DEF Applies, Applying
  <1>8. TypeOK'
    BY <1>1, <1>5, <1>7 DEF Sound, TypeOK
  <1>9. RequestsNamed'
    BY <1>1, <1>5 DEF Sound, RequestsNamed
  <1>10. AwaitedShown'
    BY <1>1, <1>5 DEF Sound, AwaitedShown, Awaited
  <1>11. PostedMarked'
    BY <1>1, <1>5, <1>6, <1>7 DEF PostedMarked
  <1>12. AppliedAsShown'
    BY <1>1, <1>5, <1>6 DEF AppliedAsShown
  <1> QED
    BY <1>5, <1>6, <1>8, <1>9, <1>10, <1>11, <1>12 DEF Sound

(* The answer of an apply marks the list that was posted.                    *)
LEMMA ApplyContinuesKeepsSound ==
    ASSUME Sound, ApplyContinues
    PROVE  Sound'
  <1>1. /\ apply' = IdleApply
        /\ dlg' \in {[dlg EXCEPT !.result = TRUE], [dlg EXCEPT !.applyError = TRUE]}
        /\ UNCHANGED <<detects, diff, rows, faults>>
    BY DEF ApplyContinues
  <1>2. /\ dlg' \in Dialogs
        /\ dlg'.shown = dlg.shown /\ dlg'.channel = dlg.channel /\ dlg'.list = dlg.list
        /\ dlg'.loading = dlg.loading
        /\ dlg'.applyError \/ dlg'.result
    BY <1>1 DEF Sound, TypeOK, Dialogs
  <1>3. ~Applying'
    BY <1>1 DEF Applying, IdleApply
  <1>4. TypeOK'
    BY <1>1, <1>2, RecordsTyped DEF Sound, TypeOK
  <1>5. RequestsNamed' /\ AwaitedShown'
    BY <1>1, <1>2, <1>3 DEF Sound, RequestsNamed, AwaitedShown, Awaited
  <1> QED
    BY <1>2, <1>3, <1>4, <1>5 DEF Sound, PostedMarked, AppliedAsShown

(* The server's answers and the failures of requests move a request on and   *)
(* leave its channel, its place as the awaited one and the dialog alone.     *)
LEMMA AnswerKeepsSound ==
    ASSUME Sound,
           UNCHANGED <<dlg, rows>>,
           faults' \in 0 .. MaxFaults,
           diff' \in [Channels -> SUBSET Changes],
           detects' \in [Slots -> Detects],
           \A s \in Slots : /\ detects'[s].pc = "idle" <=> detects[s].pc = "idle"
                            /\ detects'[s].channel = detects[s].channel
                            /\ detects'[s].latest = detects[s].latest,
           apply' \in Applies,
           apply'.pc = "idle" <=> apply.pc = "idle",
           apply'.channel = apply.channel,
           apply'.items = apply.items
    PROVE  Sound'
  <1>1. TypeOK'
    BY DEF Sound, TypeOK
  <1>2. (Applying' <=> Applying) /\ \A s \in Slots : Awaited(s)' <=> Awaited(s)
    BY DEF Applying, Awaited
  <1>3. RequestsNamed'
    BY <1>2 DEF Sound, RequestsNamed
  <1>4. AwaitedShown'
    BY <1>2 DEF Sound, AwaitedShown
  <1> QED
    BY <1>1, <1>2, <1>3, <1>4 DEF Sound, PostedMarked, AppliedAsShown

(* A detect request that is answered or fails.                               *)
LEMMA DetectMoves ==
    ASSUME Sound, NEW s \in Slots, detects[s].pc = "sent",
           NEW p \in {"served", "failed"}, NEW items \in SUBSET Changes,
           detects' = [detects EXCEPT ![s].pc = p, ![s].items = items],
           faults' \in 0 .. MaxFaults,
           UNCHANGED <<dlg, apply, diff, rows>>
    PROVE  Sound'
  <1>1. /\ detects' \in [Slots -> Detects]
        /\ \A t \in Slots : /\ detects'[t].pc = "idle" <=> detects[t].pc = "idle"
                            /\ detects'[t].channel = detects[t].channel
                            /\ detects'[t].latest = detects[t].latest
    BY DEF Sound, TypeOK, Detects
  <1> QED
    BY <1>1, AnswerKeepsSound DEF Sound, TypeOK

(* An apply request that is answered or fails, carried out or not.           *)
LEMMA ApplyMoves ==
    ASSUME Sound, apply.pc = "sent", NEW p \in {"served", "failed"},
           apply' = [apply EXCEPT !.pc = p],
           diff' \in {diff, [diff EXCEPT ![apply.channel] = @ \ apply.items]},
           faults' \in 0 .. MaxFaults,
           UNCHANGED <<dlg, detects, rows>>
    PROVE  Sound'
  <1>1. /\ apply' \in Applies
        /\ apply'.pc = "idle" <=> apply.pc = "idle"
        /\ apply'.channel = apply.channel
        /\ apply'.items = apply.items
    BY DEF Sound, TypeOK, Applies
  <1>2. diff' \in [Channels -> SUBSET Changes]
    BY DEF Sound, TypeOK, RequestsNamed, Applying
  <1>3. /\ detects' \in [Slots -> Detects]
        /\ \A t \in Slots : /\ detects'[t].pc = "idle" <=> detects[t].pc = "idle"
                            /\ detects'[t].channel = detects[t].channel
                            /\ detects'[t].latest = detects[t].latest
    BY DEF Sound, TypeOK
  <1> QED
    BY <1>1, <1>2, <1>3, AnswerKeepsSound

(* Every step of a server or of the network keeps the invariant.             *)
LEMMA ServerKeepsSound ==
    ASSUME Sound,
           \/ ServeApply \/ RequestFails \/ RefreshRows
           \/ \E s \in Slots : ServeDetect(s)
           \/ \E c \in Channels : UpstreamChanges(c)
    PROVE  Sound'
  <1>1. CASE ServeApply
    <2>1. "served" \in {"served", "failed"} /\ faults' \in 0 .. MaxFaults
      BY <1>1 DEF ServeApply, Sound, TypeOK
    <2> QED
      BY <1>1, <2>1, ApplyMoves DEF ServeApply
  <1>2. CASE RequestFails
    <2>1. faults' \in 0 .. MaxFaults
      BY <1>2, ConstantsAssumption DEF RequestFails, Fault, Sound, TypeOK
    <2>2. UNCHANGED <<dlg, rows>> /\ "failed" \in {"served", "failed"}
      BY <1>2 DEF RequestFails
    <2>3. ASSUME NEW s \in Slots, detects[s].pc = "sent",
                 detects' = [detects EXCEPT ![s].pc = "failed"], UNCHANGED <<apply, diff>>
          PROVE  Sound'
      <3>1. detects[s].items \in SUBSET Changes
        BY DEF Sound, TypeOK, Detects
      <3>2. detects' = [detects EXCEPT ![s].pc = "failed", ![s].items = detects[s].items]
        BY <2>3 DEF Sound, TypeOK, Detects
      <3> QED
        BY <2>1, <2>2, <2>3, <3>1, <3>2, DetectMoves
    <2>4. CASE /\ apply.pc = "sent"
               /\ apply' = [apply EXCEPT !.pc = "failed"]
               /\ diff' \in {diff, [diff EXCEPT ![apply.channel] = @ \ apply.items]}
               /\ UNCHANGED detects
      BY <2>1, <2>2, <2>4, ApplyMoves
    <2> QED
      BY <1>2, <2>3, <2>4 DEF RequestFails
  <1>3. CASE RefreshRows
    BY <1>3 DEF RefreshRows, Sound, TypeOK, RequestsNamed, AwaitedShown, PostedMarked,
        Awaited, AppliedAsShown, Applying
  <1>4. ASSUME NEW s \in Slots, ServeDetect(s)
        PROVE  Sound'
    <2>1. diff[detects[s].channel] \in SUBSET Changes
      BY <1>4 DEF ServeDetect, Sound, TypeOK, RequestsNamed
    <2>2. "served" \in {"served", "failed"} /\ faults' \in 0 .. MaxFaults
      BY <1>4 DEF ServeDetect, Sound, TypeOK
    <2> QED
      BY <1>4, <2>1, <2>2, DetectMoves DEF ServeDetect
  <1>5. ASSUME NEW c \in Channels, UpstreamChanges(c)
        PROVE  Sound'
    <2>1. diff' \in [Channels -> SUBSET Changes]
      BY <1>5 DEF UpstreamChanges, Sound, TypeOK
    <2> QED
      BY <1>5, <2>1 DEF UpstreamChanges, Sound, TypeOK, RequestsNamed, AwaitedShown,
          PostedMarked, Awaited, AppliedAsShown, Applying
  <1> QED
    BY <1>1, <1>2, <1>3, <1>4, <1>5

(***************************************************************************)
(* The theorems.                                                           *)
(***************************************************************************)
(* Every state the dialog reaches satisfies the inductive invariant.         *)
THEOREM PreviewSound == Spec => []Sound
  <1>1. Init => Sound
    BY InitSound
  <1>2. Sound /\ [Next]_vars => Sound'
    <2> SUFFICES ASSUME Sound, [Next]_vars
                 PROVE  Sound'
      OBVIOUS
    <2>1. CASE User
      BY <2>1, ModalKeepsSound, DetectKeepsSound, SelectKeepsSound, ApplyKeepsSound DEF User
    <2>2. CASE Answer
      BY <2>2, ServerKeepsSound, ApplyContinuesKeepsSound, DetectContinuesKeepsSound
      DEF Answer
    <2>3. CASE Environment
      BY <2>3, ServerKeepsSound DEF Environment
    <2>4. CASE UNCHANGED vars
      BY <2>4 DEF vars, Sound, TypeOK, RequestsNamed, AwaitedShown, PostedMarked, Awaited,
          AppliedAsShown, Applying
    <2> QED
      BY <2>1, <2>2, <2>3, <2>4 DEF Next
  <1> QED
    BY <1>1, <1>2, PTL DEF Spec

(* The changes offered were computed for the channel the dialog names, for   *)
(* any number of channels and of detections that overtake each other (the    *)
(* request id of detectChannelUpdates).                                      *)
THEOREM PreviewListOfChannel == Spec => []ListOfChannel
  <1>1. Sound => ListOfChannel
    BY DEF Sound, ListOfChannel
  <1> QED
    BY <1>1, PreviewSound, PTL

(* The dialog shows that it detects exactly while the request it waits for   *)
(* is in flight: no superseded answer stops the spinner, and no close or     *)
(* reopen leaves it on.                                                      *)
THEOREM PreviewLoadingBacked == Spec => []LoadingBacked
  <1>1. Sound => LoadingBacked
    BY DEF Sound, AwaitedShown, Awaited, LoadingBacked, TypeOK, Dialogs
  <1> QED
    BY <1>1, PreviewSound, PTL

(* No preview is submitted twice (the applyError and result guards of        *)
(* applyUpdates), whatever the outcome of its first submission was.          *)
THEOREM PreviewPostedOnce == Spec => []ListPostedOnce
  <1>1. Sound => ListPostedOnce
    BY DEF Sound, PostedMarked, ListPostedOnce, TypeOK, Dialogs, Lists
  <1> QED
    BY <1>1, PreviewSound, PTL

(* What is applied is part of the preview on screen until the answer arrives *)
(* (applyRef and the filter by the offered models).                          *)
THEOREM PreviewAppliedAsShown == Spec => []AppliedAsShown
  <1>1. Sound => AppliedAsShown
    BY DEF Sound
  <1> QED
    BY <1>1, PreviewSound, PTL

============================================================================
