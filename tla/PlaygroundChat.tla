-------------------------- MODULE PlaygroundChat --------------------------
(***************************************************************************)
(* The playground's chat: web/src/features/playground.  A send appends a   *)
(* user message and a loading assistant message and starts a streaming or  *)
(* a plain request; chunks are buffered and flushed every 50 ms; Stop, a   *)
(* new send, regenerating and editing supersede a request; the list is     *)
(* saved to localStorage 500 ms after its last change and made stable      *)
(* again when it is loaded.                                                *)
(*                                                                         *)
(* React.  setMessages(updater) queues an updater that runs in a later     *)
(* render, when the refs it reads may have moved on; with an empty queue   *)
(* React may also run it at once.  A click is rendered before the next     *)
(* event; updates of network events and timers wait for Render.            *)
(*                                                                         *)
(* A request is identified by its generation (requestGenerationRef); the   *)
(* stream controller counts generations of its own.  A text is a sequence  *)
(* of numbered pieces; content and reasoning are handled alike, and the    *)
(* model has one of them.                                                  *)
(***************************************************************************)
EXTENDS Naturals, Sequences, SequencesExt

CONSTANTS
    MaxGens,    \* bound on the generations: sends, regenerations and stops
    MaxChunks,  \* bound on the chunks of one stream
    MaxLives,   \* bound on the lives of the page
    Setups      \* users and networks the run looks at

AllActs == {"plain", "regenerate", "edit", "delete", "stop", "leave", "crash", "fail", "silent"}

\* What a stream's deltas carry: new text that repeats nothing, the whole text so far, or new
\* text of any wording.
Streams == {"new", "whole", "any"}

\* acts: the optional acts of the user and of the network; stream: what its deltas carry; the
\* rest are bounds.
ASSUME ConstantsAssumption ==
    /\ {MaxGens, MaxChunks, MaxLives} \subseteq Nat \ {0}
    /\ \A u \in Setups :
         /\ u.acts \subseteq AllActs
         /\ u.stream \in Streams
         /\ u.gens \in 1 .. MaxGens
         /\ u.chunks \in 1 .. MaxChunks
         /\ u.lives \in 1 .. MaxLives

VARIABLES
    gen,       \* requestGenerationRef
    reqs,      \* per generation: its request
    sgen,      \* the generation of the stream controller
    source,    \* the request whose source the stream controller holds, 0 for none
    buf,       \* pendingStreamChunksRef
    timer,     \* streamFlushTimerRef is set
    list,      \* the messages as rendered
    queue,     \* the updaters React has not rendered yet
    busy,      \* [requesting, streaming]: the newest state; shown: as rendered
    editing,   \* the message whose editor is open
    latest,    \* latestMessagesRef
    saving,    \* messagesSaveTimerRef is set
    stored,    \* the messages in localStorage
    life,      \* the life of the page
    setup      \* never changes

chat == <<gen, reqs, sgen, source, buf, timer, busy>>
disk == <<latest, saving, stored>>

\* What the actions change.
state == <<chat, list, queue, editing, disk, life>>

vars == <<state, setup>>

Gens == 1 .. MaxGens
NoGen == 0

Pending == {"loading", "streaming"}

Pieces == 1 .. MaxChunks
Texts == Seq(Pieces)

Messages == [from : {"user", "assistant"}, of : Gens, text : Texts,
             foreign : BOOLEAN, status : Pending \cup {"complete", "error"}]

Requests == [kind : {"none", "stream", "plain"}, pc : {"idle", "headers", "open", "silent", "over"},
             sgen : Nat, received : Texts, done : BOOLEAN]

Updaters == {"value", "chunk", "complete", "error", "response", "delete"}

(***************************************************************************)
(* The type invariant.                                                     *)
(***************************************************************************)
TypeOK ==
    /\ gen \in 0 .. MaxGens
    /\ reqs \in [Gens -> Requests]
    /\ sgen \in Nat
    /\ source \in 0 .. MaxGens
    /\ buf \in [gen : 0 .. MaxGens, text : Texts]
    /\ timer \in BOOLEAN
    /\ list \in Seq(Messages)
    /\ \A i \in DOMAIN queue : queue[i].kind \in Updaters
    /\ busy \in [requesting : BOOLEAN, streaming : BOOLEAN, shown : BOOLEAN]
    /\ editing \in [from : {"user", "assistant"}, of : 0 .. MaxGens]
    /\ latest \in Seq(Messages)
    /\ saving \in BOOLEAN
    /\ stored \in Seq(Messages)
    /\ life \in 1 .. setup.lives
    /\ setup \in Setups

NoRequest == [kind |-> "none", pc |-> "idle", sgen |-> 0, received |-> <<>>, done |-> FALSE]
NotEditing == [from |-> "user", of |-> NoGen]
Idle == [requesting |-> FALSE, streaming |-> FALSE, shown |-> FALSE]

Init ==
    /\ gen = 0
    /\ reqs = [g \in Gens |-> NoRequest]
    /\ sgen = 0
    /\ source = NoGen
    /\ buf = [gen |-> 0, text |-> <<>>]
    /\ timer = FALSE
    /\ list = <<>>
    /\ queue = <<>>
    /\ busy = Idle
    /\ editing = NotEditing
    /\ latest = <<>>
    /\ saving = FALSE
    /\ stored = <<>>
    /\ life = 1
    /\ setup \in Setups

(***************************************************************************)
(* Messages and updaters.                                                  *)
(***************************************************************************)
UserMessage(g) ==
    [from |-> "user", of |-> g, text |-> <<1>>, foreign |-> FALSE, status |-> "complete"]

LoadingMessage(g) ==
    [from |-> "assistant", of |-> g, text |-> <<>>, foreign |-> FALSE, status |-> "loading"]

\* The key of a message.
Key(m) == [from |-> m.from, of |-> m.of]

IsPending(m) == m.from = "assistant" /\ m.status \in Pending

\* Regenerate and Edit are offered on a message with content; an error's text is content.
HasContent(m) == m.text # <<>> \/ m.status = "error"

\* mergePendingStreamChunk: a delta that begins with the buffered text replaces it.
MergePendingStreamChunk(current, next) ==
    IF current = <<>> \/ ~IsPrefix(current, next) THEN current \o next ELSE next

\* Mutant: a chunk is appended although it begins with the text that is there.
GetAppendableChunkWhole(content, chunk) == chunk

\* getAppendableChunk: of a chunk that begins with the text that is there, the rest.
GetAppendableChunk(content, chunk) ==
    IF content = <<>> \/ ~IsPrefix(content, chunk) THEN chunk
    ELSE SubSeq(chunk, Len(content) + 1, Len(chunk))

\* completeAssistantMessage, updateAssistantMessageWithError, applyStreamingChunk and
\* applyChatCompletionResponse on the last message; foreign marks one that a request other
\* than its own has changed (by is the request behind the update, NoGen for Stop).
UpdateMessage(u, m) ==
    LET touched == [m EXCEPT !.foreign = @ \/ u.by \notin {m.of, NoGen}]
    IN  CASE u.kind = "complete" -> IF ~IsPending(m) THEN m ELSE [touched EXCEPT !.status = "complete"]
          [] u.kind = "error" -> [touched EXCEPT !.status = "error", !.text = <<>>]
          [] u.kind = "response" -> [touched EXCEPT !.status = "complete", !.text = <<1>>]
          [] u.kind = "chunk" -> IF m.status = "error" THEN m
                                 ELSE [touched EXCEPT !.status = "streaming",
                                       !.text = @ \o GetAppendableChunk(@, u.text)]

\* removeMessageByKey: the messages that have another key, in their order.
Without(key, msgs) ==
    LET keep[i \in 0 .. Len(msgs)] ==
            IF i = 0 THEN <<>>
            ELSE IF Key(msgs[i]) = key THEN keep[i - 1]
            ELSE Append(keep[i - 1], msgs[i])
    IN  keep[Len(msgs)]

\* An updater run against the generation g of the moment: updateLastAssistantMessage, or
\* the list as it is when the request was superseded.
Apply(u, msgs, g) ==
    CASE u.kind = "value" -> u.list
      [] u.kind = "delete" -> Without(u.key, msgs)
      [] OTHER ->
            IF u.gen # g \/ msgs = <<>> \/ Last(msgs).from # "assistant" THEN msgs
            ELSE [msgs EXCEPT ![Len(msgs)] = UpdateMessage(u, @)]

\* The updaters us run in turn.
ApplyAll(us, msgs, g) ==
    LET run[i \in 0 .. Len(us)] == IF i = 0 THEN msgs ELSE Apply(us[i], run[i - 1], g)
    IN  run[Len(us)]

Value(msgs) == [kind |-> "value", list |-> msgs]
Chunk(g, text) == [kind |-> "chunk", gen |-> g, by |-> g, text |-> text]
Complete(g, by) == [kind |-> "complete", gen |-> g, by |-> by]
Fail(g) == [kind |-> "error", gen |-> g, by |-> g]
Response(g) == [kind |-> "response", gen |-> g, by |-> g]

\* setMessages from an event: React runs the first of us now, or leaves all to the render.
Queue(us) ==
    \/ /\ queue' = queue \o us
       /\ UNCHANGED <<list, disk>>
    \/ /\ queue = <<>>
       /\ us # <<>>
       /\ LET now == Apply(Head(us), list, gen)
          IN  /\ queue' = <<Value(now)>> \o Tail(us)
              /\ latest' = now
              /\ saving' = TRUE
       /\ UNCHANGED <<list, stored>>

\* A render with the list msgs, after which latestMessagesRef is to be saved.
Rendered(msgs) ==
    /\ list' = msgs
    /\ queue' = <<>>
    /\ latest' = msgs
    /\ saving' = TRUE
    /\ UNCHANGED stored

\* The chunks flushStreamUpdates hands to setMessages.
Flushed(g) ==
    IF g = gen /\ buf.gen = g /\ buf.text # <<>> THEN <<Chunk(g, buf.text)>> ELSE <<>>

\* discardPendingStreamUpdates: an empty buffer for the generation g.
DiscardPendingStreamUpdates(g) == buf' = [gen |-> g, text |-> <<>>] /\ timer' = FALSE

Show(b) == [b EXCEPT !.shown = b.requesting \/ b.streaming]

(***************************************************************************)
(* The user.                                                               *)
(***************************************************************************)
\* sendStreamingChat and sendNonStreamingChat: the new generation supersedes the request
\* before it and the stream controller's source.
SendChat(kind, msgs) ==
    LET g == gen + 1 IN
    /\ kind = "plain" => "plain" \in setup.acts
    /\ gen' = g
    /\ sgen' = sgen + 1
    /\ source' = NoGen
    /\ DiscardPendingStreamUpdates(g)
    /\ reqs' = [reqs EXCEPT ![g] = [NoRequest EXCEPT !.kind = kind, !.sgen = sgen + 1,
                                     !.pc = IF kind = "stream" THEN "headers" ELSE "open"]]
    /\ busy' = Show([busy EXCEPT !.requesting = TRUE, !.streaming = FALSE])
    /\ Rendered(msgs)

\* handleSendMessage; the input is disabled while the page shows that it generates.
Send(kind) ==
    /\ ~busy.shown
    /\ gen < setup.gens
    /\ SendChat(kind, list \o <<UserMessage(gen + 1), LoadingMessage(gen + 1)>>)
    /\ UNCHANGED <<editing, life>>

\* handleRegenerateMessage of the message at i.
Regenerate(kind, i) ==
    /\ "regenerate" \in setup.acts
    /\ ~busy.shown
    /\ HasContent(list[i])
    /\ list[i].status # "loading"
    /\ gen < setup.gens
    /\ SendChat(kind, Append(SubSeq(list, 1, IF list[i].from = "user" THEN i ELSE i - 1),
                             LoadingMessage(gen + 1)))
    /\ UNCHANGED <<editing, life>>

\* handleEditMessage: opening an editor needs an idle page, using it later does not.
OpenEditor(i) ==
    /\ "edit" \in setup.acts
    /\ ~busy.shown
    /\ HasContent(list[i])
    /\ editing = NotEditing
    /\ editing' = Key(list[i])
    /\ UNCHANGED <<chat, list, queue, disk, life>>

\* handleEditOpenChange: the editor is closed without an edit.
CloseEditor ==
    /\ editing # NotEditing
    /\ editing' = NotEditing
    /\ UNCHANGED <<chat, list, queue, disk, life>>

\* applyEdit with shouldSubmit on a user message.
SubmitEdit(kind, i) ==
    /\ editing = Key(list[i])
    /\ list[i].from = "user"
    /\ gen < setup.gens
    /\ SendChat(kind, Append(SubSeq(list, 1, i), LoadingMessage(gen + 1)))
    /\ editing' = NotEditing
    /\ UNCHANGED life

\* applyEdit without sending: the list of the last render replaces whatever is queued
\* (the new wording of the edited message is not told apart from the old).
SaveEdit(i) ==
    /\ editing = Key(list[i])
    /\ editing' = NotEditing
    /\ busy' = Show(busy)
    /\ Rendered(list)
    /\ UNCHANGED <<gen, reqs, sgen, source, buf, timer, life>>

\* handleDeleteMessage.
Delete(i) ==
    /\ "delete" \in setup.acts
    /\ ~busy.shown
    /\ Rendered(ApplyAll(Append(queue, [kind |-> "delete", key |-> Key(list[i])]),
                         list, gen))
    /\ busy' = Show(busy)
    /\ UNCHANGED <<gen, reqs, sgen, source, buf, timer, editing, life>>

\* handleClearMessages.
Clear ==
    /\ "delete" \in setup.acts
    /\ ~busy.shown
    /\ list # <<>>
    /\ Rendered(<<>>)
    /\ editing' = NotEditing
    /\ busy' = Show(busy)
    /\ UNCHANGED <<gen, reqs, sgen, source, buf, timer, life>>

\* Mutant: Stop closes the stream but leaves the last message as it is.
StopGenerationOnly ==
    LET idle == gen + 1 IN
    /\ "stop" \in setup.acts
    /\ busy.shown
    /\ gen < setup.gens
    /\ gen' = idle
    /\ DiscardPendingStreamUpdates(idle)
    /\ sgen' = sgen + 1
    /\ source' = NoGen
    /\ busy' = Idle
    /\ Rendered(ApplyAll(queue, list, idle))
    /\ UNCHANGED <<reqs, editing, life>>

\* stopGeneration: the flush of the buffer is an updater of the old generation, which is
\* lost unless React runs it at once.
StopGeneration ==
    LET idle == gen + 1 IN
    /\ "stop" \in setup.acts
    /\ busy.shown
    /\ gen < setup.gens
    /\ gen' = idle
    /\ DiscardPendingStreamUpdates(idle)
    /\ sgen' = sgen + 1
    /\ source' = NoGen
    /\ busy' = Idle
    /\ \E base \in {list} \cup (IF queue = <<>> THEN {ApplyAll(Flushed(gen), list, gen)} ELSE {}) :
            Rendered(ApplyAll(Append(queue, Complete(idle, NoGen)), base, idle))
    /\ UNCHANGED <<reqs, editing, life>>

(***************************************************************************)
(* The stream controller and the plain request.                            *)
(***************************************************************************)
\* isCurrent: events of a superseded source are ignored.
Current(g) == reqs[g].sgen = sgen /\ source = g

\* send, once getHeaders has answered.
HeadersReady(g) ==
    /\ reqs[g].pc = "headers"
    /\ IF reqs[g].sgen = sgen
       THEN /\ source' = g
            /\ reqs' = [reqs EXCEPT ![g].pc = "open"]
            /\ busy' = [busy EXCEPT !.streaming = TRUE]
       ELSE /\ reqs' = [reqs EXCEPT ![g].pc = "over"]
            /\ UNCHANGED <<source, busy>>
    /\ UNCHANGED <<gen, sgen, buf, timer, list, queue, editing, disk, life>>

\* The text the next message event may carry, and the answer so far once it has arrived.
Deltas(received) ==
    LET new == Len(received) + 1
    IN  CASE setup.stream = "new" -> {<<new>>}
          [] setup.stream = "whole" -> {Append(received, new)}
          [] OTHER -> {<<p>> : p \in 1 .. new}

Extended(received, delta) == IF setup.stream = "whole" THEN delta ELSE received \o delta

\* A message event with text: handleStreamUpdate.
ChunkArrives(g) ==
    /\ reqs[g].pc = "open"
    /\ Len(reqs[g].received) < setup.chunks
    /\ Current(g)
    /\ \E delta \in Deltas(reqs[g].received) :
         /\ reqs' = [reqs EXCEPT ![g].received = Extended(@, delta)]
         /\ IF g = gen /\ buf.gen = g
            THEN /\ buf' = [buf EXCEPT !.text = MergePendingStreamChunk(@, delta)]
                 /\ timer' = TRUE
            ELSE UNCHANGED <<buf, timer>>
    /\ UNCHANGED <<gen, sgen, source, busy, list, queue, editing, disk, life>>

\* Mutant: the end of a request leaves requesting to the stream controller.
FinishStreamingOnly(g, updater) ==
    IF g # gen THEN UNCHANGED <<buf, timer, list, queue, disk>> /\ busy' = [busy EXCEPT !.streaming = FALSE]
    ELSE /\ Queue(Append(Flushed(g), updater))
         /\ buf' = [gen |-> g, text |-> <<>>]
         /\ timer' = FALSE
         /\ busy' = [busy EXCEPT !.streaming = FALSE]

\* The callbacks of request g end it: flush, then the updater that closes its message.
Finish(g, updater) ==
    IF g # gen THEN UNCHANGED <<buf, timer, list, queue, disk>> /\ busy' = [busy EXCEPT !.streaming = FALSE]
    ELSE /\ Queue(Append(Flushed(g), updater))
         /\ buf' = [gen |-> g, text |-> <<>>]
         /\ timer' = FALSE
         /\ busy' = [busy EXCEPT !.requesting = FALSE, !.streaming = FALSE]

\* The [DONE] message: handleStreamComplete.
StreamDone(g) ==
    /\ reqs[g].pc = "open"
    /\ reqs[g].kind = "stream"
    /\ Current(g)
    /\ source' = NoGen
    /\ reqs' = [reqs EXCEPT ![g].pc = "over", ![g].done = TRUE]
    /\ Finish(g, Complete(g, g))
    /\ UNCHANGED <<gen, sgen, editing, life>>

\* An error event, an unparsable message or a non-200 close: handleStreamError.
StreamFails(g) ==
    /\ "fail" \in setup.acts
    /\ reqs[g].pc = "open"
    /\ reqs[g].kind = "stream"
    /\ Current(g)
    /\ source' = NoGen
    /\ reqs' = [reqs EXCEPT ![g].pc = "over"]
    /\ Finish(g, Fail(g))
    /\ UNCHANGED <<gen, sgen, editing, life>>

\* The connection closes with status 200 and no [DONE]: nothing handles it.
StreamCloses(g) ==
    /\ "silent" \in setup.acts
    /\ reqs[g].pc = "open"
    /\ reqs[g].kind = "stream"
    /\ reqs' = [reqs EXCEPT ![g].pc = "silent"]
    /\ UNCHANGED <<gen, sgen, source, buf, timer, busy, list, queue, editing, disk, life>>

\* getHeaders fails: onError, unless the request was superseded.
HeadersFail(g) ==
    /\ "fail" \in setup.acts
    /\ reqs[g].pc = "headers"
    /\ reqs' = [reqs EXCEPT ![g].pc = "over"]
    /\ IF reqs[g].sgen = sgen THEN Finish(g, Fail(g))
       ELSE UNCHANGED <<buf, timer, list, queue, disk, busy>>
    /\ UNCHANGED <<gen, sgen, source, editing, life>>

\* Mutant: the generation is read when the answer arrives, not when the request is sent.
PlainAnsweredLate(g) ==
    /\ reqs[g].pc = "open"
    /\ reqs[g].kind = "plain"
    /\ reqs' = [reqs EXCEPT ![g].pc = "over"]
    /\ Finish(gen, [Response(g) EXCEPT !.gen = gen])
    /\ UNCHANGED <<gen, sgen, source, editing, life>>

\* sendNonStreamingChat with its answer; a superseded request was aborted.
PlainAnswered(g) ==
    /\ reqs[g].pc = "open"
    /\ reqs[g].kind = "plain"
    /\ reqs' = [reqs EXCEPT ![g].pc = "over"]
    /\ IF g # gen THEN UNCHANGED <<buf, timer, list, queue, disk, busy>>
       ELSE \/ Finish(g, Response(g))
            \/ "fail" \in setup.acts /\ Finish(g, Fail(g))
    /\ UNCHANGED <<gen, sgen, source, editing, life>>

\* The 50 ms timer: flushStreamUpdates.
FlushTimer ==
    /\ timer
    /\ timer' = FALSE
    /\ Queue(Flushed(buf.gen))
    /\ buf' = [buf EXCEPT !.text = <<>>]
    /\ UNCHANGED <<gen, reqs, sgen, source, busy, editing, life>>

Render ==
    /\ queue # <<>> \/ busy # Show(busy)
    /\ busy' = Show(busy)
    /\ IF queue = <<>> THEN UNCHANGED <<list, queue, disk>>
       ELSE Rendered(ApplyAll(queue, list, gen))
    /\ UNCHANGED <<gen, reqs, sgen, source, buf, timer, editing, life>>

(***************************************************************************)
(* localStorage.                                                           *)
(***************************************************************************)
\* The 500 ms timer: saveMessages.
SaveTimer ==
    /\ saving
    /\ saving' = FALSE
    /\ stored' = latest
    /\ UNCHANGED <<chat, list, queue, editing, latest, life>>

\* loadMessages: interrupted messages with text are complete; of those without, the last
\* becomes an error (sanitizeMessagesOnLoad looks for one message only).
Sanitize(msgs) ==
    LET empty == {i \in DOMAIN msgs : IsPending(msgs[i]) /\ msgs[i].text = <<>>}
    IN  [i \in DOMAIN msgs |->
            IF ~IsPending(msgs[i]) THEN msgs[i]
            ELSE IF i \notin empty THEN [msgs[i] EXCEPT !.status = "complete"]
            ELSE IF \A j \in empty : j <= i THEN [msgs[i] EXCEPT !.status = "error"]
            ELSE msgs[i]]

\* A new life of the page on what localStorage holds.
Reload(saved) ==
    /\ life < setup.lives
    /\ life' = life + 1
    /\ gen < setup.gens
    /\ gen' = gen + 1
    /\ sgen' = sgen + 1
    /\ source' = NoGen
    /\ buf' = [gen |-> gen + 1, text |-> <<>>]
    /\ timer' = FALSE
    /\ reqs' = [g \in Gens |-> IF reqs[g].pc = "idle" THEN reqs[g]
                               ELSE [reqs[g] EXCEPT !.pc = "over"]]
    /\ busy' = Idle
    /\ list' = Sanitize(saved)
    /\ queue' = <<>>
    /\ latest' = Sanitize(saved)
    /\ saving' = FALSE
    /\ stored' = Sanitize(saved)
    /\ editing' = NotEditing

\* The unmount effects save what the timer has not saved yet.
Leave == "leave" \in setup.acts /\ Reload(IF saving THEN latest ELSE stored)

\* The tab is closed or reloaded without them.
Crash == "crash" \in setup.acts /\ Reload(stored)

(***************************************************************************)
(* The specification.  Timers fire, React renders, headers are fetched and *)
(* a stream that has not closed silently ends.                             *)
(***************************************************************************)
RequestStep(g) == HeadersReady(g) \/ StreamDone(g) \/ PlainAnswered(g)

Network(g) ==
    \/ ChunkArrives(g)
    \/ StreamFails(g)
    \/ StreamCloses(g)
    \/ HeadersFail(g)

User ==
    \/ \E kind \in {"stream", "plain"} :
          \/ Send(kind)
          \/ \E i \in DOMAIN list : Regenerate(kind, i) \/ SubmitEdit(kind, i)
    \/ \E i \in DOMAIN list : OpenEditor(i) \/ SaveEdit(i) \/ Delete(i)
    \/ CloseEditor
    \/ Clear
    \/ StopGeneration
    \/ Leave
    \/ Crash

Next ==
    /\ \/ User
       \/ \E g \in Gens : RequestStep(g) \/ Network(g)
       \/ FlushTimer
       \/ Render
       \/ SaveTimer
    /\ UNCHANGED setup

Spec == Init /\ [][Next]_vars

Fairness ==
    /\ \A g \in Gens : WF_state(RequestStep(g))
    /\ WF_state(FlushTimer)
    /\ WF_state(Render)
    /\ WF_state(SaveTimer)

FairSpec == Spec /\ Fairness

(***************************************************************************)
(* Properties.                                                             *)
(***************************************************************************)
\* No request writes to the answer of another one: late chunks, completions, errors and
\* responses of a superseded request find its generation gone, also when React runs their
\* updaters late.  The types are checked along.
NoForeignText == TypeOK /\ \A i \in DOMAIN list : ~list[i].foreign

\* A page that neither requests nor streams shows no message that still seems to be
\* written, after any mix of sends, stops, failures, deletions and reloads.  (An edit saved
\* while an update is queued overwrites it: see the README.)
SettledMessages ==
    (queue = <<>> /\ ~busy.requesting /\ ~busy.streaming /\ "edit" \notin setup.acts)
        => \A i \in DOMAIN list : ~IsPending(list[i])

\* The answer of a stream that reached [DONE] is the text that arrived, whether its deltas
\* carry new text or the whole text so far, and however they were merged and flushed
\* (mergePendingStreamChunk, getAppendableChunk, the flush before the message is completed).
\* Stop, an edit and a reload may lose text.  So does a delta that happens to begin with the
\* text before it, as the second of "ha", "ha": streams of any wording are excepted.
AllTextShown ==
    (/\ queue = <<>>
     /\ setup.acts \cap {"stop", "edit", "leave", "crash"} = {}
     /\ setup.stream # "any")
        => \A i \in DOMAIN list :
              (list[i].from = "assistant" /\ reqs[list[i].of].done)
                  => list[i].text = reqs[list[i].of].received

\* What is generating ends, and the page shows that it ended, unless a stream closed
\* without an error and without [DONE], which nothing handles.
GenerationEnds ==
    busy.shown ~> (~busy.shown \/ \E g \in Gens : reqs[g].pc = "silent" /\ Current(g))

============================================================================
