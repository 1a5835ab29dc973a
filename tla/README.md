# DCENT Voice: TLA+ models

DCENT Voice is a desktop dictation program: a global chord is held (or toggled),
the microphone is recorded, speech is transcribed locally, and the text is typed
into whatever window has the focus.  It also speaks replies of a coding
environment (ADE) over a local socket.  It is a multi-threaded Python program;
nearly everything that is hard to get right in it is an interleaving of a few
threads around a few locks, and that is what these modules are about.

    Hotkeys.tla          HotkeyManager: hooks, watchdog, rebinds, start, stop
    PushToTalk.tla       Hotkeys composed with the pipeline's worker and timers
    Capture.tla          the microphone, and the failover that leaves a dead input
    Dictation.tla        one utterance after another, from the release to the answer
    Session.tla          what Dictation implements
    Streaming.tla        streaming dictation and the undo ledger
    Recognizer.tla       load, use, idle unload and replacement of the speech models
    Clipboard.tla        inserting a text through the clipboard of a user who copies
    InstanceLock.tla     one running instance: the lock file or mutex, and refused launches
    Privacy.tla          consents and the record of what leaves the machine, two shared files
    Cleanup.tla          the language model's pass over a text: pool, circuit, probes, close
    Retention.tla        the recovery vault under the settings that govern it
    Personalization.tla  the correction memory, shared by processes over one file
    Memory.tla           what Personalization implements
    Playback.tla         spoken replies: the player, its engine and the sound device
    <module>Proofs.tla   theorems of a module, with proofs checked by TLAPS
    HotkeysProofs.tla    those of Hotkeys and of PushToTalk, which extends it
    DictationProofs.tla  those of Dictation and of Recognizer
    ProcessProofs.tla    those of the modules about processes: Clipboard, InstanceLock, Privacy
    MC*.tla, *.cfg       instances for TLC; MCProcesses has the same three modules
    PROJECT.json         runs, mutations, map to the source, hazards, findings

Paths below are relative to `src/src/dcent_voice/`.

## 1. The system

Threads: one keyboard-hook thread per listener generation (pynput), the hotkey
watchdog, the session-resume monitor, the event-bus dispatcher, the pipeline
worker, one stream thread per streaming utterance, the auto-stop timer, the
wake-silence watcher, the PortAudio callback, the TTS synthesis and playback
threads, the DVAP connection's event loop, the settings-reload worker, the wake
word's inference thread, idle-unload timers, and the application thread.

| component | state | operations | interacts with |
|---|---|---|---|
| hotkey manager `hotkeys.py`, `util/win_session.py` | pressed keys, active chord and its age, toggle latches, listener and its generation, health | callbacks, watchdog tick, `force_rebind`, `start`, `stop`, `voice.mode.set` | publishes presses and releases on the bus |
| event bus `events.py` | subscribers, queue | `publish`, `subscribe`, `stop` | one dispatcher thread calls every subscriber in order |
| push-to-talk worker `pipeline.py`, `state.py` | event queue, mode state machine, auto-stop timer, wake watcher | press, release, wake, timer, stop | takes bus events, drives capture, ASR, injector |
| streaming dictation `pipeline.py` | committer, ledger of streamed text, undo entry, stop event, generation | stream pass, finalize, reconcile, stash, undo, stop | ASR, injector, clipboard, recovery |
| utterance processing `pipeline.py`, `commands/router.py` | focus snapshot, generation, pending Enter | dictate, command, press-enter, cleanup | injector, recovery, personalization |
| audio capture `audio/*.py` | ring with a mark, callback generation, configured and resolved device, tried fallbacks | start, stop, drain, peek, failover | PortAudio callback, worker, settings |
| TTS playback `tts/*.py` | text queue, chunk queue, generations, gate count | push, flush, cancel, reset, close | microphone gate, DVAP |
| DVAP and streaming service `service/*.py` | connection, player, session buffer | hello, speak, barge-in, voice mode, stream | bus, player, engine |
| wake word `wake_word.py` | stream, thread, cooldown | start, stop, detect | bus |
| ASR lifecycle `asr/*.py` | model, idle timer, load and transcribe locks | load, transcribe, unload | worker, settings |
| injection and clipboard `inject/*.py` | the system clipboard, a mutex of all processes | paste transaction, restore, undo keys | target window |
| recovery store `recovery.py` | encrypted file, policy, retention | record, list, clear, policy switch | worker, settings |
| personalization `personalization.py` | terms, styles, policy, durable state | learn, save, merge, roll back | worker, settings |
| configuration reload `util/coalescing.py`, `app.py` | latest pending reload | request, stop, apply | replaces the hotkey manager, updates the pipeline |
| single instance and registry `attach/*.py` | lock file, mutex, registry file | acquire, reclaim, release, clear a stale lock | other processes |
| privacy `privacy.py` | consent ledger, egress log, a lock for each | grant, revoke, consult, record | cloud providers, other processes |
| cleanup `llm/cleanup.py` | pool, circuit, health, probe | clean, probe, close | worker, service, reload |

The rest (settings and tray UI, text rewriting, model registry, HTTP requests,
credentials, packaging, doctor, benchmarks) is listed in PROJECT.json with the reason why it is left aside: it is sequential, or I/O, or
rewriting of text.

### What is hard, and what must hold

* **Hotkeys.** Events are decided under `_lock` and published after it.  A hook
  thread may die, be fenced and replaced while a chord is down.  Wanted: a stop
  leaves no hook of its own behind and publishes nothing; one current hook; no recording
  outlives its chord; a second chord really is a second chord.
* **Worker.** Its timers race with the real release.  Wanted: every recording is
  bounded, and ends.
* **Streaming.** A stream pass may outlive the release (the join is limited to
  three seconds), the utterance and even the next one; the injector may raise in
  the middle of a retraction.  Wanted: the ledger is exactly what has been typed;
  the utterance reads as its final transcript or its words are kept; a stopped
  pipeline touches nothing; undo retracts the last insert.
* **Capture.** Failover drops its lock while it lists devices; a callback may
  hold an old generation.  Wanted: the microphone is closed when no utterance is
  open; an utterance's audio is exactly what came after its mark.
* **TTS.** Cancel and reset race with two threads which read different
  generations.  Wanted: nothing cancelled becomes audible, the gate is engaged
  while something is audible and released afterwards.
* **Utterance.** Every call of an utterance may raise, before or after its effect,
  and a stop may come between any two.  Wanted: the words are kept, the utterance is
  answered, once and truthfully, and nothing happens after the stop.
* **Models.** An idle timer, a failed accelerator, a changed setting and a transcription
  under way share a model.  Wanted: one decode at a time where the library needs it, a
  tray that tells the truth, and in the end every model released.
* **Clipboard.** The user copies, other programs keep the clipboard open, targets read
  late, a process dies holding the mutex.  Wanted: the last copy of the user comes back,
  a text is inserted once, and no target gets another process's text.
* **Stores.** A record waiting behind a policy switch, a reload with an older policy
  behind a newer save, a write that fails after memory changed, another process with
  a stale copy.  Wanted: an off switch stays off; the saved policy wins; memory and
  disk agree; no correction is silently overwritten.
* **Processes.** A lock file is removed and created again while others open it; a process
  dies between any two system calls and its pid is given away; two windows change
  the ledger of consents at once.  Wanted: one running instance, whose file stays; no
  stale file blocks a start; no consent lost or revived; nothing sent without consent or
  without a record.
* **Cleanup.** A provider that hangs keeps its thread, several threads find it down at
  once, a reload closes the pipeline under a call.  Wanted: a call comes back, and a
  provider that is back is used again.

PROJECT.json lists each hazard at its line, with the properties that cover it.

## 2. How the modules correspond to the code

### Hotkeys

One variable per attribute of `HotkeyManager`; the comment beside each
declaration names it.  `gen` is `_listener_generation`, `bound` the generation of
`_listener`, `live` the set of generations whose hook is installed: a listener leaves
it when it is stopped or when the operating system kills its thread.  A callback is the part under `_lock` (`PressHold`,
`PressToggle`, `ReleaseHold`, `ReleaseToggle`) and then one `HookPublish` per
event, because `bus.publish` is called outside the lock.  `force_rebind` is cut
where it gives up atomicity with `_lock`, or where other threads may see what it
did: `RebindDetach` (under `_lock`, keeping `_lifecycle_lock`), the binding, `RebindRelease`
(old thread joined, dropped chord released).  The binding is `_bind_listener`, which `start()`
and both callers of `force_rebind` share: `BindListener` (old hook stopped, new hook in: it may
call back), then `BindRecords` (listener recorded, lifecycle lock released) or `BindStartRaises`
("a listener that partially started before raising": fenced and forgotten, but not stopped, so that it
stays in `live` and joins `stray`); or `BindFails`, when it raised with no hook installed.
`pc`, `was` and `old` are the locals of the three (`Starter` is the thread in `start()`).  The
watchdog tick is cut in the same way.  `stop()` is `StopTakes`, and
`StopFinishes`, which joins.  `late` is a history variable: a stray's thread was fenced with an
event between its lock and its publish.  Two facts about callers are in guards: application
shutdown stops the session monitor before the hotkeys, so an abandoning stop
finds the monitor idle; a settings change (`finalize`) may meet it anywhere.

Left out: the health events and the restart counter (presentation), time (an
over-age chord is the flag `aged`; a back-off that has or has not elapsed is a
choice between `DogBacksOff` and `DogRestarts`), and the one-second limits of the
joins: between its lock and its publish a hook thread does one queue put.

### PushToTalk

EXTENDS Hotkeys and adds the state machine (`rec`, `busy`), the auto-stop timer
(`timer`; `firing` after its check and before its publish) and the wake watcher.
The bus and the worker's queue are one queue: the dispatcher copies events in
order.  `HandlePress`, `HandleWake`, `HandleRelease` are the handlers of the worker,
whole; a microphone that does not open is the second disjunct of `Record`.

### Streaming

The worker goes idle, recording, decoding, delivering, finishing, cut where it
waits or takes `_inject_gate` and `_terminal_lock`; what happens under both is one
step.  The head of `_finish_streaming` ends with a text (`DecodeFinal`), without one (`DecodeNothing`), or in
an exception of the post-processing (`PolishRaises`); the delivery puts the text aside
(`SetAside`) or brings the field in line with it and presses the spoken Enter (`BringInLine`), and the
injector, the Enter and the overlay may each raise in it.  `expected`, `needed` and `reason` are
`insertion_expected`, `recovery_needed` and `reason`, from which `Finish` decides whether the store gets the
words; the store, which is off, or refuses, or takes them, is `RecordsFailedResult` (`VaultMayRefuse`; `refused`
remembers that it did not).  What follows the delivery (`_record_corrections`, `_note_utterance`,
`pipeline.py:1457-1471`) suppresses every exception of its own and so has no raising branch.
`LoopPass` and `LoopDelivers` are the stream thread of utterance `u`; a
thread which the join did not wait for goes on in the next utterances.  `Agreed`,
`Window` and `Commit` are `IncrementalCommitter.update`.  A text is a sequence
of pieces; transcription and post-processing choose one.  An injector that
raises has typed or has not (`Types`), a reconcile that retracts and types may
raise between the two.  `base` and `raised` are history variables: they appear in
properties only.

Left out: a second press of the chord of the streaming utterance in progress
(`_active` masks the auto-repeat, so it takes a rebind, see the observations), the pacing of passes,
meters, learning from what was dictated, and an overlay that raises in the finally block (`_run` then
recovers to idle).

### Playback

One connection: its asyncio loop (append, cancel, close), the bus dispatcher
(barge-in), the synthesis worker of `TtsPlayer` and the playback worker of
`PlaybackEngine`.  An action is one section under a lock, or one access to an
attribute that the code reads without a lock; `worker`, `synth` and `call` hold the
place and the locals of each thread.  `cancel()` is eight actions
(`CancelPlayer` ... `CancelReturns`), because it takes and drops four locks and both
callers may be in it at once; `stop_through` is two of them, `Detach` under the lock of the sink and
`Abort` after it, for a cancel, for the close and for a stale worker alike, and `doomed` holds the stream
that each thread has detached and not yet aborted.  A barge-in is a notification
that may have left the bus before the connection closed (`BusNotifies`, then `BargeIn` or
`NoBargeIn`): `EventBus` reads its subscribers before it calls them.  `close()` enters the actions of `cancel()` after its
join of the synthesis worker.  `gen`, `stream` and `stopped` are the generations of the engine
and of the sink, `spokenGen` that of the player, which is another one.  `gate`
counts `on_tts_start` less `on_tts_stop`.  `sounding` is what the
device plays: `SoundEnds` ends it at any time, an aborted stream at once.

`dead` and `overlapped` are history variables.  `GateCoversSound` excepts
two cases which the code has: between the engine's half of a cancel and the end of the sink's the
worker may have released the gate while the last few milliseconds sound; and two overlapping
cancels may leave one chunk of the new stream with the gate open.  `CancelledChunksAreSilent` and
`ClosedIsSilent` except what a call that overlaps another cannot help: the stream that the
other has detached and is about to abort (`BeingAborted`).
`GateIsOwned` counts a worker that died of a raising device as owner: the gate then
waits for the next cancel, which is the code's only remedy.

Left out: time (pacing waits for the end of the sound), the gate shared by several
connections (`RefCountMicGate`) and what it does to the capture, where a sentence ends
(a choice in `Sentences`), and sample rates.  The two-second join of the synthesis
worker may expire while the voice synthesises, and only then; the join of the playback
worker is taken to wait, and `abort()` of a stream not to raise.

### Capture

The worker, the watcher threads of `_arm_dead_default_failover` and the PortAudio callback
around `AudioCapture`.  Every method runs under `_lifecycle_lock` and is one step, but
`maybe_failover_dead_default` lets go of the lock while it lists the devices: `WatcherLeaves`
and `WatcherSwitches` (`WorkerLeaves` and `WorkerSwitches` for the worker's own
attempt after a silent utterance) are its two halves.  `CallbackChecks` and
`CallbackWrites` are the two halves of `_on_audio`, which takes no lock: between them the stream may
be closed, replaced, and another ring bound.  A block of audio is the number of the hold
in which it was recorded; a ring is the set of the blocks since its mark.  `Join` waits for a
watcher half a second: with `SlowListing` it may go on without it, and `late` remembers that.

Left out: the arithmetic of the ring, resampling, level meters, and which devices the operating
system lists (a choice).

### Dictation and Session

`_process_current_utterance`, cut at each section of `_terminal_lock` and at each call
outside it; the phases follow the function from top to bottom and `Fail`, `Finish`,
`Keep`, `Report`, `Close` are its handler and its finally clause.  The text of an utterance is its
number, which is enough to say what became of it.  An injector that raises has typed or
has not; the clipboard and the vault may refuse.  `stop()` may come between any two steps: a
step that begins with a checkpoint is guarded by `At`, one that does not is not.

`Session` is what the user can tell: utterances are opened one after the other, a
text arrives at most once and while its utterance is open, an answer that says
"injected" is true, and nothing is typed, copied or answered after a stop.  `ToSession`
is the refinement mapping; its `answered` and `claimed` are read off the sequence of
`TranscriptReady` events.

### Recognizer

Each provider has its `_lock` (`holder`), the whisper also its `_infer_lock` (`infer`).  The threads
are clients that transcribe, the startup load, the idle timers, the reload and the
thread that unloads a replaced provider; `at`, `with` and `then` are the place, the provider and
the continuation of each.  The listener of the application (`_bind_asr_lifecycle`) looks whether
a provider is the wired one and then publishes: two steps (`Checks`, and `TellsLoaded` or
`TellsUnloaded`), with the provider's lock held for a load and without it for an unload.  An
armed timer may fire at any moment.  `lost` is a history variable: the model failed on the GPU while it
decoded, its load for the CPU failed as well, and it has not been loaded since.

### Clipboard

One transaction of `ClipboardInjector` per client: mutex, snapshot, publication, sequence number,
paste, wait, check, restoration, release.  A step opens and closes the Windows clipboard at
most once, so that it is atomic; what lies between two steps is open to `Copy` (the user),
`Consume` (the target reads the paste), `Crash` and the other clients.  `Fallback` is
the router's second way, which it takes only if the transaction failed before it changed anything
(`refused`).  `late`, `raced` and `broken` are history variables: a target that read after the wait, a
copy between two steps that do not look for one, a clone that could not be put back.

Left out: `restore_clipboard = false`, keystrokes, macOS and Linux.

### InstanceLock

Files are numbered in the order of their creation, so that `Matches` (the path still names the
open file) is an equation, as `samestat` is; number 0 is no file.  Each launch is one process: `acquire`,
`release` and `force_clear_stale_lock` are cut at every system call on the path, the file or the mutex,
and `Kill` may come between any two.  `Fails` is an `OSError` of a call of `acquire` and its
retry loop; `Retries` is the second launch that `handle_already_running` makes of a
refused one.  A pid is the process that wrote it; `ReadNote` may find a dead process's pid alive,
because the system gives it away.  `lone` and `hurt` are history variables: nobody else was
about, and a system call failed.

Left out: links and foreign owners of the file (refused), `refresh()`, which only tests call, and
`PermissionError` on an unlink.

### Privacy

An access is `TakeInner` (the lock of the process), `TakeOuter` (the advisory lock), what it does with the
file, and `Leaves`; `Expires` is the one deadline over both.  A send is a consultation of the ledger, an append
to the log and `Post`, three steps between which anything may happen.  The ledger
file is replaced at once; an append may be cut short (`CutShort`), by an error or by a crash, where
`Torn` gives what is left of it.  An operation has a number, which is what its record and its
request are told by.  `agreed`, `since` and `unasked` are history variables: what the user has last said,
and whether the key was agreed to at some time since the send began.

Left out: reading the log (`tail`), which changes nothing, links and permissions, other
errors than those of reads and writes.

### Cleanup

A task of the pool is a number with an owner, a state and a pool; the callers, the threads of the
pools and `close()` are cut at each access to a field that another may change between.  `_pool()`
is three steps (look, make, read again), because `close()` may clear the field
between them.  `lock` is held across the submission of a probe; the other sections under it are
one step.  Time shows in two flags: `circuit` (open) and `due` (the retry of the probe).
A call whose pool is gone, or was shut down, raises (`SubmitRaises`), outside the
`try` of `clean()`.  `Timeout` may come at any moment; a hung request is one that never takes `Finish`.

Left out: what the text is and whether it is accepted, and the availability shown in the settings.

### Retention

A policy is the number of items that may be kept, 0 for off.  `Save`, `SaveApplies`, `SaveNotes` and
`SavePublishes` are `set_config` in a settings window; `Request` and `Signal` the
coalescing worker's `request`; `Wake`, `Take`, `Load`, `ReloadApplies` (twice), `ReloadNotes` the reload, which
`Abandon` may end at any step that can raise.  `Record`, `Snapshot`, `Clear` and `Delete` are
sections of the store under its lock; `_last_error` is assigned after it (`Notes`).
`Crash` restarts the process with the policy on disk.

### Personalization and Memory

A store object is a record of its fields (`ram`), the file is a flag with a list of terms,
`Missing` or `Damaged`.  An operation that writes is one transaction under the file's
advisory lock; `Commit` has the ways it can end: written; failed, with the file left or put
back and the store rolled back; or failed with the new file in place, which the
reconciliation reads, or cannot read and closes the store.  `Memory` is the promise: one bounded list that grows by one correction at a time, is
forgotten as a whole, and after damage only forgotten.  `Memories` maps the file to it; what is
left to show is that no stale store, failed write or restart makes the file do
anything else.

## 3. What is checked

| run | instance | distinct states | shows |
|---|---|---|---|
| `ptt` | two nested chords, hold mode, 5 listener generations, two rebinders, a stop | 2,077,408 | `NoListenerAfterStop`, `OneCurrentListener`, `ShutdownIsSilent`, `ReleaseEndsRecording` |
| `ptt_wake` | one chord, both modes with `voice.mode.set`, a wake word | 182,530 | `RecordingIsBounded`, and under fairness `RecordingEnds` |
| `capture` | two holds, a default and two alternate inputs, two watchers that may outlive their join | 178,521 | `OwnAudio`, `ExplicitInput`, `ClosedBetween` |
| `dictation` | two utterances in either mode, every call may fail, a stop | 38,701 | `WordsAreKept`, `VaultKeepsFailures`, `Answered` under fairness, `IsSession` |
| `streaming` | two utterances, agreement over three passes or the first two, dictations, undos, a stop; injector, clipboard, store and overlay may fail | 3,969,538 | `LedgerIsField`, `WordsAreKept`, `LatePassesAreSilent`, `StopIsFinal` |
| `recognizer` | two transcribing threads, a startup load, one change from either kind of model to the other | 341,055 | `OneDecode`, `ReadyIsLoaded`, and under fairness `UsedIsReleased` |
| `retention` | two windows, two saves, two records, a crash, a vault and reloads that may fail | 586,600 | `RetentionIsEnforced`, and under fairness `PolicyConverges` |
| `personalization` | two processes, two phrases with two targets, damage, writes that fail | 105,657 | `RamFollowsDisk`, `NoSilentOverwrite`, `IsMemory` |
| `playback` | two texts of one chunk, two cancels from either side, a close, voice and device that may raise | 1,864,927 | `CancelledChunksAreSilent`, `GateCoversSound`, `GateIsOwned`, `ClosedIsSilent` |
| `processes` | three launches, three files, a failing call and a kill, on either platform; or two processes with two insertions, two copies, one that cannot be cloned, and a crash; or two processes with three operations on two keys, a failing read, writes that fail and a kill | 883,943 | `SingleOwner`, `OwnerKeepsPath`, `StaleNeverBlocks`; `LatestCopyKept`, `InsertedOnce`, `OwnText`; `LedgerIsAgreed`, `SentOnlyAgreed`, `SentIsLogged` |
| `cleanup` | one caller, a pool of two threads, a provider that goes down, hangs and comes up, a close | 128,428 | `CleanReturns` and `Recovers` under fairness |
| `wake_unbounded` | as `ptt_wake`, with a second, command chord | - | the finding below |

`processes` is three instances in one configuration: the lock, the clipboard and the privacy files
have no variable in common, so an invariant of one holds in every interleaving with the others if it holds
of that one alone.  `about`, which no step changes, says which of them a behaviour is of.

Bounds, and why they are enough:

* *Chords.* `{k1}` and `{k1, k2}` have what longest-match is about: a chord that
  grows into another, shrinks back, and one released while the other is down.
* *MaxGen.* A start takes one generation, a rebind two (one to fence, one to
  bind; three when binding fails), a stop one.  `Start` and `RebindDetach` ask for
  the generations they may need, so the bound never cuts an operation in two.  The three of `ptt_wake`
  are a start, a stop and no rebind: with four, and so a rebind, the run passes as well (992,156
  states), but takes four minutes and a half.  For `RecordingIsBounded` the theorem has any
  number; `RecordingEnds` follows from it and the timers, which no rebind touches.
* *MaxBus.* A full bus makes publishers wait, which the real queue does not do.  One event suffices: what the worker
  does commutes with what the manager does, which reads nothing of the worker's, so that every
  behaviour has one with the same order of publications in which the worker takes each event before the
  next is published.
* *Capture.* Two holds are the one a watcher outlives and the one it disturbs; two alternates
  let a failover try one in vain.
* *Dictation.* Two utterances give an undo something to undo; the locals of an utterance
  end with it, so a third would meet the state the second met.
* *Streaming.* `Heard` and `Polished` have a text, its extension, and a final that
  diverges from the streamed prefix; that gives all three branches of reconcile.
  Two utterances let a late thread meet the next one; three passes with a shortcut
  after two take every branch of the committer.  `MaxDoc` bounds plain dictations only.
* *Recognizer.* The one replacement may be in progress while both clients and both timers
  are; `MaxUses` lets each client transcribe.
* *Clipboard.* The mutex separates processes, so two are a holder and one that waits
  or takes over, each with an insertion; the crash may fall between any two steps of either.
* *InstanceLock.* Three launches are a leaving owner, one that opened its file and one that creates
  the next; three files are one for each.  The theorems have any number of them.
* *Privacy.* Two processes with three operations lose an update, or send after a
  revocation, if any number of them does: a grant, a revocation and a send.
* *Cleanup.* One caller, whom hung tasks of earlier calls delay as another caller would; two pools
  are the first and one made after the close has taken that away.
* *Retention.* Two saves are an older and a newer policy; a vault of one item is full at
  once; the crash may fall between any two steps of both.
* *Personalization.* Two targets of one phrase are a correction and its stale rival,
  two phrases with room for two terms fill the list.
* *Playback.* Two texts are a cancelled one and its successor; two cancels overlap
  each other or a close; a queue of one lets a chunk wait behind the one that
  sounds.
* `CHECK_DEADLOCK FALSE`: a stopped manager, pipeline or connection has nothing
  left to do, and bounds on what users do run out.

Symmetry is used in `personalization` (stores, phrases, targets) and `processes` (the keys and the
two processes of the privacy files), which have no liveness property.

Type invariants are not run: they are proved, but for those of Cleanup and of the abstract
modules, which have none.

Every property of a passing run has a mutation of the modelled code that TLC
finds to violate it; the mutated operator stands before the definition it
replaces, marked "(Mutant: ...)".

**Fairness.**  Threads of the program that have something to do go on; nothing is assumed of
users, wake words, hooks, watchdog, targets or the operating system.

* `PttFairness`: the worker thread and an armed `threading.Timer` run (weak). The
  publishing half of the timer and the wake watcher have strong fairness, only because
  `MaxBus`, which the code does not have, disables them now and then.  `RecordingEnds` holds
  even if no key-up is ever seen.
* `Dictation`: `WF_vars(Work)`, the worker between a release and the answer; a decoder or an
  injector that never returns is not modelled.
* `AsrFairness`: every thread inside an operation goes on, and an armed idle timer fires.
  Nobody need dictate or change the settings.
* `Retention!Fairness`: a settings call that has begun, the bus dispatcher and the
  `ConfigApply` thread go on.
* `Cleanup!Fairness`: callers, pool threads and callbacks go on; strong where a step waits for
  `_health_lock`, which is given back again and again.  Nothing is assumed of the
  provider.  `Recovers` has assumptions of its own (`Answering`): that requests end (the clients have
  timeouts, `llm/openai_compat.py:63-76`) and that time passes.

**Refinement.**  `Dictation` implements `Session` and `Personalization` implements `Memory`: checked as
properties of the runs `dictation` and `personalization`, and proved (section 4).

### Finding

`wake_unbounded` - `_handle_release` cancels timers and watcher before it looks
at the mode (`pipeline.py:523`): the release of a command chord that was
rejected during a wake-word dictation leaves that dictation without a
bound, where the docstring of `_handle_wake_word` promises "the same max hold as
push-to-talk".

### Observations

Behaviour that the models show and that the properties except, each because the code has no
means against it or promises nothing else.  They have no run of their own.

* After a `voice.mode.set` from hold to toggle with a chord down, the next press may be taken for a longer
  chord without the release of the first (`hotkeys.py:268-271`): its recording then ends with a release that
  `_handle_release` does not take for its own, and that cancels its timer first, as in the
  finding.  `ReleasesEndRecordings` excludes it by its hypothesis (section 4).
* `stop()` is said to "Permanently stop hooks" (`hotkeys.py:170`).  A listener whose `start()` raised after its hook was
  in is fenced and forgotten (`hotkeys.py:445`): no later rebind and no `stop()` stops it.  Its callbacks
  are refused from then on (`OneCurrentListener`), and `NoListenerAfterStop` says that no other hook remains.
* Nobody joins the thread of such a listener: a press that it had computed before the fence may be published
  after the release that a rebind made up for its chord, or after `stop()`.  `ReleaseEndsRecording` excepts that
  (`Timely`), and so does `ShutdownIsSilent`.
* The watchdog's release of an over-age chord leaves `_toggle_recording` set
  (`hotkeys.py:354`): the next chord is taken for the stopping one.
* `force_rebind` publishes the dropped release after the new hook is live
  (`hotkeys.py:222`): the auto-repeat of a held chord may press before that release, and the
  utterance is started again.
* A watchdog tick that passed its `_stopped` check may overwrite the status of a stop
  that has returned (`hotkeys.py:372`).
* `TimerPublishes` may follow the release it raced with (`pipeline.py:550`) and then ends the next
  recording of the same mode early.
* A watcher that outlives its half-second join may reopen the microphone after the
  utterance; it stays open until the next hold or `stop()` (`pipeline.py:664`).
* An injector that raises in the streaming finalize (`pipeline.py:1501`) leaves the
  words nowhere when the recovery store is off or refuses; the plain path puts them on the clipboard.
* Post-processing that raises in the streaming finalize (`pipeline.py:1392-1429`) leaves the decoded words nowhere, whatever the
  store: `insertion_expected` is set only at the delivery (`:1432`).  `CHANGELOG.md:223` says "A transcript is
  never lost: on any injection/ASR/cleanup failure it is left on the clipboard".
* An overlay that raises after a delivery (`pipeline.py:1489`) makes it a failed one: what was typed is then also put
  into the recovery store.
* `_last_injected` is set only by a delivered, non-empty finalize (`pipeline.py:1481`): after
  streamed words followed by a finalize that is too short, quiet or raises, an undo
  retracts the older entry's length from the wrong text.
* `_speak` checks the player's generation and then submits under the engine's own
  (`tts/playback.py:561`), and `_run` reads the player's generation after it has taken the text
  (`:547`): a cancel that runs and resets in between leaves the old text current, where
  `docs/ADE_API.md:664` says "any queued/in-flight synthesis is abandoned".
* `stop_through` detaches the stream under its lock and aborts it after it
  (`tts/playback.py:247-257`): a second `cancel()` or the `close()` of a connection that comes in between finds no
  stream and may return while the first is about to silence it.
* A barge-in that the bus had begun to deliver may call `cancel()` after the connection has closed its player
  (`events.py:160-164`); nothing is open any more, and nothing sounds.
* A copy between the publication and the reading of the sequence number
  (`inject/clipboard.py:177`), or between the check and the restoration (`:195`), is overwritten;
  a target that reads a paste after the fixed delay gets the restored clipboard (`:211`).
* A store that meets a damaged file closes its policy, and the reset that repairs the file makes the
  closed policy the durable one (`personalization.py:205`, `:400-421`): a process that was constructed
  with `enabled=True, learn=True` stays off.
* A purge of the vault that the file system refuses leaves results behind with the policy
  off, until the next update (`refused` in Retention).
* A model that fails on the GPU while it decodes, and then on the CPU as well, is gone without the tray being told, until it is
  loaded again (`asr/faster_whisper_provider.py:237`).
* A model that is loaded at startup before the listener is wired is ready without the tray being told.
* A launch that opened the lock file just before the leaving owner removed it is told that the program is
  running (`attach/single_instance.py:344`), though nobody holds the lock any more.
* On Windows a refused launch may remove the note of a live owner that has just replaced a stale one
  (`attach/single_instance.py:309`): the mutex alone decides, and nothing else reads the note.
* `_read_entries` takes a ledger that cannot be read for an empty one (`privacy.py:128`): a grant after such a
  read erases the other consents.  `LedgerIsAgreed` excepts that direction only.
* `clean()` looks at `_closed` once (`llm/cleanup.py:78`).  A `close()` after that look either makes its
  submit raise, outside the `try` (`:97`), so that the utterance is stashed instead of inserted, or, when it
  has already cleared the field, lets `_pool()` make a pool that nobody closes.
* A probe that began before a call succeeded may report the provider down after it (`llm/cleanup.py:183`).
* `inject/selection.py:125-145` saves and restores the clipboard without the transaction
  mutex and as text only.  It is not modelled.

## 4. What is proved

`HotkeysProofs.tla` proves, for every set of keys, modes and chords and all
bounds that satisfy `HotkeysAssumption` (chords are sets of keys; the order of
`_chords` decides ties, so that a non-empty set of matching chords has a best
one) and `PushToTalkAssumption`:

| theorem | property |
|---|---|
| `TypeCorrect`, `PttTypes` | `TypeOK`, `PttTypeOK` |
| `StopRemovesHooks` | `NoListenerAfterStop` |
| `CurrentListenerOnly` | `OneCurrentListener` |
| `ShutdownStaysSilent` | `ShutdownIsSilent` |
| `LoopKeepsHooks` | `NoListenerAfterStop` and `OneCurrentListener` of the whole loop |
| `ReleasesEndRecordings` | `ReleaseEndsRecording` |
| `RecordingsAreBounded` | `RecordingIsBounded` |

The properties of the manager are not inductive.  Two strengthenings are:

* `ListenerInv` = `TypeOK`, `LockInv`, `HookInv`.  `LockInv`: whoever binds a listener
  holds `_lifecycle_lock`, from before it unhooks the old one until the new one is recorded or given up; a started
  manager is not stopped, a manager that is not started has neither a lock holder
  nor a recorded listener, and `stop()` is past its lock exactly when `_stopped`
  is set.  `HookInv`: an installed hook that is not a stray is the recorded one, or the one that the
  stopper or a lock holder has detached and not yet unhooked, or the one the
  lock holder has just started; a recorded listener has the current generation, and a stray an older one.
  So when `stop()` gets the lock there is at most one hook beside the strays and it takes it, and since
  `_stopped` is then set, every later rebind is refused.
* `SilentInv` = `ListenerInv`, `PendingInv`, `QuietInv`.  `PendingInv`: a hook
  thread that still has events to publish is installed or a stray's, or a rebind that
  detached it has yet to join it.  `QuietInv`: a stop that abandons the chord finds
  the session monitor idle and leaves it so, and when `stop()` has returned the
  watchdog is idle.  With no hook installed and nobody left to join one, only a stray is
  left who could publish.

Each is proved by one lemma for the initial states and one for each group of
actions, with a step per action; the temporal theorems combine them with PTL.
`NoListenerAfterStop` and `OneCurrentListener` are proved for any number of generations,
where TLC has five.  The joins are assumed to wait (see 2).

The steps of the loop are those of the manager, which leave the worker alone, and those of the worker,
which take from the bus: `LoopKeepsHooks` carries the first invariant over.  The two
properties of the recording rest on `LoopInv`:

* `CarryInv` - what a thread carries from its lock to its publish: the chord that a rebind has taken,
  one release of the watchdog; an active chord belongs to the current hook, and an aged one has
  no event of its hook still to be published.
* `PressedInv` - a press that a hook thread has yet to publish is of the active chord, or of one whose
  release waits for that thread: whoever takes the chord takes the hook, and joins it before
  it publishes the release.  It needs `Timely`: a stray's thread is joined by nobody.
* `BusInv`, `RecInv` - if the bus holds a press with no release of its mode behind it
  (`Unanswered`), or a recording goes on, then the release is `Owed`: the chord is active, or its release
  is with a hook thread, the watchdog, a rebind or the stop; for a recording, or it is on the bus.
  Nothing owed and an empty bus leave no recording but that of the active chord.
* `WakesInv` - no hook thread publishes a wake word.
* `BoundedInv` - with one mode, the timer of a recording is armed, or about to publish, or its release is on the bus.

Both theorems have hypotheses, because the code does not keep the properties without them; `Timely` is one of either, but
for the second only with several modes.  `ReleasesEndRecordings`
assumes `Steady`: `voice.mode.set` is not used, or there is one mode.  `RecordingsAreBounded` assumes one mode, or neither a wake
word nor `voice.mode.set`.  With two modes and a wake word the second is the finding; with two
modes and a switch TLC violates the first (see the observations).  The runs `ptt` and `ptt_wake` are
instances of both hypotheses.

`PlaybackProofs.tla` does the same for `Playback`, for all bounds:

| theorem | property |
|---|---|
| `TypeCorrect` | `TypeOK` (with `gate` at most 1: never engaged twice) |
| `CancelledStaysSilent` | `CancelledChunksAreSilent` |
| `GateStaysOwned` | `GateIsOwned` |
| `GateStaysOverSound` | `GateCoversSound` |
| `ClosedStaysSilent` | `ClosedIsSilent` |

* `SoundInv` = types, `StreamInv`, `CancelInv`.  What sounds belongs to the open stream, or to
  one that its detacher is about to abort, and the open stream's generation is later than every one stopped
  (`StreamInv`, with `DoomInv`: only a thread between its detach and its abort has a doomed stream); a cancel that is past the lock of the sink has stopped its generation,
  so what a returned cancel ended is no later than what is stopped
  (`CancelInv`).  That the engine's event is reset at once, while an old worker
  iteration may be anywhere, plays no part: the sink alone decides.
* `GateInv` = types, `ShutInv`, `GateIsOwned`.  The worker leaves an
  engaged gate to the next chunk when one waits (`_maybe_idle`); it would be
  left to nobody if the engine closed first.  `ShutInv` follows the order of `close()`: after
  the join the synthesis worker submits nothing, and the cancel inside
  `PlaybackEngine.close` has emptied the queue before `_closed` is set.
* `ClosedInv` adds `AgeInv` (a chunk that waits is of the engine's generation, what the worker holds and
  what is open is no newer), `BoundInv` (a generation ends once per cancel, which keeps the bounds
  from ending `close()` halfway) and `CloseInv` (after its cancel no chunk is
  current any more, so that the gate which it then releases is not engaged again, and the stream which it detaches is
  the last).
* `CoverInv` adds `AloneInv` (unless two callers have overlapped, one of them is idle), `EndingInv` (from the
  end of a generation to the return of its cancel nothing of the new one is queued, held or open) and
  `PlayInv` (a worker past `_begin_playing` with a current chunk is playing, one past `_activate_gate` has the
  gate engaged, and once no cancel is about to abort (`AbortSilences`) what sounds is the chunk that it paces).

`RetentionProofs.tla`, for any windows, records, saves and crashes: `TypeCorrect` (with one
writer of the configuration file at a time), `Enforced` (`RetentionIsEnforced`) and `NeverGrows`
(`DisabledNeverGrows`).  `IInv` = types, `RetentionIsEnforced`: the second is inductive given
the first, because every section of the store ends with a vault that obeys the policy it has
read or set, or refused.  The proof rests on lemmas about what `Prune` leaves.

`PersonalizationProofs.tla`, for any stores, phrases, targets and length of the list: `TypeCorrect`,
`ImplementsMemory` (`IsMemory`), `RamIsDurable` (`RamFollowsDisk`) and `StaleNeverOverwrites`
(`NoSilentOverwrite`).  `IInv` = types, `NothingYet`
(while there is no file no store has terms, so that a first write cannot bring back what another
process never had).  Each transaction is shown to map to a step of `Memory` or to a stutter.
The last theorem adds `SingleInv` (a list has one target for a phrase) and rests on `LearntTargets`: what is
learnt changes the target of its own phrase and, when the list is full, drops one.

`DictationProofs.tla`, for any number of utterances and any choice of what may fail: `TypeCorrect`,
`WordsStayKept` (`WordsAreKept`), `VaultHoldsFailures` (`VaultKeepsFailures`) and
`ImplementsSession` (`IsSession`).  `DictationInv` has five parts beside the types: `LocalInv` (the locals
belong to the present phase), `PastInv` (nothing is known of an utterance not yet spoken),
`OnceInv` (until it is delivered the utterance is neither typed nor kept, until it is reported not
answered), `TruthInv` (`injected` is true only of a text that has arrived; one that has arrived is
known unless its call raised) and `KeptInv` (a text that has passed its delivery is
somewhere, unless the worker was stopped).  The refinement uses `OnceInv` for "at most once"
and `TruthInv` for the truth of the answer.

For Recognizer, any clients, kinds of model, uses and replacements: `AsrTypes` (`AsrTypeOK`),
`DecodesStayApart` (`OneDecode`) and `ReadyStaysLoaded` (`ReadyIsLoaded`).  `AsrInv` adds to the types `LockedInv`
(a provider's lock is with a thread that tells of it, and whoever tells of a load finds the model
loaded), `DecodeInv` (from the decoding to its end, a reload for the CPU included, a client keeps the
`_infer_lock` of a whisper) and `OrderInv` (no notice is of a model that is not wired yet, and the thread
that lets a replaced model go is idle until the reload ends).  The second property needs all of them: an
unload is told without the lock, and what makes it come after the load it follows is that the load is told with it.

`StreamingProofs.tla`, for any texts, any agreement window and any number of utterances: `TypeCorrect`,
`LedgerStaysField` (`LedgerIsField`), `LateStaySilent` (`LatePassesAreSilent`), `StopStaysFinal`
(`StopIsFinal`), and `WordsStayKept` (`WordsAreKept`), whether or not the store may refuse.  `StreamInv` = types, `ThreadInv` (a
thread not told to end is that of the open recording), `FreshInv` (an utterance begins with
an empty ledger and nothing expected of it), `LedgerIsField`, `DeliveredInv` (a delivery either left the field in line, or its `needed`,
`expected` and `reason` make `Finish` turn to the store).  It rests on lemmas about sequences (what a retraction by
length leaves of base and ledger, what a common prefix adds), about the committer (`Agreed` is
the greatest common length, so that what is committed lies within the present pass) and about
the injector (`TypesEffect`, `ReconcileEffect`).

`ProcessProofs.tla`, for Clipboard, any number of processes, insertions, copies and crashes: `TypeCorrect` (a
client is inside its transaction exactly when it holds the mutex), `CopyIsKept`
(`LatestCopyKept`), `InsertedAtMostOnce` (`InsertedOnce`), `OwnTextOnly` (`OwnText`).  `ClipboardInv` adds
`OrderInv` (copies are numbered; a number that was read is not ahead of the sequence number),
`WindowInv` (from publication to check the clipboard holds the client's own text or a
newer copy, never the clone), `CopyInv` (where the user's last copy is: on the
clipboard or cloned) and `GotInv` (what a target has received so far).

For InstanceLock, any number of launches, files, attempts, errors and kills, on either platform: `LockTypes`
(`LockTypeOK`), `OneOwner` (`SingleOwner`), `OwnerStays` (`OwnerKeepsPath`), `StartsAlone` (`StaleNeverBlocks`).
`LockInv` adds to the types `AttemptInv` (attempts are counted out), `PlatformInv` (who is at which step on
which platform), `FileInv` (an advisory lock belongs to a process that has the file open and is past its
`flock`; past the second comparison under the lock the path names the locked file, which only the
holder removes), `MutexInv` (a process past the creation of the mutex has the one handle but for those
about to close theirs) and `LoneInv` (what a process that nobody disturbs finds at
each step).

For Privacy, any threads, processes, keys, operations, faults and kills: `PrivacyTypes` (`PrivacyTypeOK`),
`LedgerStaysAgreed` (`LedgerIsAgreed`), `OnlyAgreedIsSent` (`SentOnlyAgreed`), `SentStaysLogged` (`SentIsLogged`).
`PrivacyInv` adds to the types `AccessInv` (the advisory lock of a file is with the one thread that is at work on it),
`PlaceInv` (each place belongs to one file and one kind of operation), `LedgerInv` (what a thread has
read and is about to replace is what the file holds), `AskedInv` (whoever has found consent has had it since its
operation began) and `LogInv` (who appends knows how the log ends; who goes on to send has its record there).

`CaptureProofs.tla`, for any inputs, watchers and holds: `TypeCorrect`, `HoldsKeepApart` (`OwnAudio`),
`ExplicitInputStays` (`ExplicitInput`), `ClosedBetweenHolds` (`ClosedBetween`), `WordsOfHoldStay`
(`WordsStay`).  `CaptureInv` = types, `DeviceInv` (a named input is the one to be opened),
`BlockInv` (neither the ring nor a callback on its way carries a block of an earlier hold),
`WatcherInv` (unless something is late: one watcher, which ends with its hold, and an input
being left was silent and stays closed).

The assumptions of the theorems are the named `ASSUME`s of the modules, which TLC evaluates
in the runs, and the hypotheses named above: bounds are natural numbers, special values differ from the ordinary ones.

Only model-checked: the liveness properties `RecordingEnds`, `Answered`, `UsedIsReleased`, `PolicyConverges`,
`CleanReturns` and `Recovers`, which are outside what TLAPS proves (liveness under fairness, and
ENABLED).  Every other property of a passing run is stated by a theorem.

## 5. What is not modelled, and why

* *The gate of several connections* (`RefCountMicGate`) and a reply that starts in the middle of a
  recording (`service/dvap.py:599`): Playback has one connection; its effect on the
  microphone is `Interrupt` of Capture.
* *The ring of samples*: the arithmetic of wrapping and marks is sequential, and the tests reach it.
* *Wake-word threads* (`wake_word.py:135`) and *the streaming session of the service*
  (`service/streaming.py:104`): small objects; the first is a candidate for a next module.
* *Learned application styles, keystrokes, selection capture, macOS and Linux injection*: see the notes of
  the components.
* *Text*: post-processing, styles, rewriting, commands' grammar and cleanup are functions of
  strings without state; a transcript is a choice in the models.
* *I/O*: model registry and downloads, HTTP requests, credential stores, the registry file of the
  service: sequential code around operating system calls.
* *User interface and tools*: tray, settings pages, overlay, the doctor, the self-test and
  certification harnesses (the largest files of the repository), the engine facade with
  its benchmarks, configuration parsing, packaging.

These last four groups make up most of the repository's lines.  They keep hardly any state that two
threads or two steps could disagree about; that is why the map covers the concurrent core
and a small share of the whole.

What would come next: safety properties of the pools of Cleanup; Playback composed with Capture
through the shared gate; the wake-word service.

## 6. Running

    tlc -workers 2 -config ptt.cfg MCPushToTalk
    tlapm StreamingProofs.tla

A configuration `x.cfg` belongs to the MC module that PROJECT.json names for the run `x`.  The longest
runs take about two minutes, each proof module up to four.
