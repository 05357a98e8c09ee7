# Verification of the ASMB8-iKVM collection

TLA+ models of the parts of this collection where several processes, threads,
machines or plays meet, the TLC runs that check them on small instances, and
TLAPS proofs of their main invariants for every instance. Paths below are
relative to `src/`.

## The system

An Ansible collection that drives one kind of server-management board (the
BMC). Its parts, and how they meet:

| part | code | state | hard behaviour |
|---|---|---|---|
| media session daemon | `plugins/module_utils/media_session.py`, `daemon_runtime.py` | a detached process, its JSON state file, its trace sidecar | outlives the module call that forked it; can be killed or lose its peer anywhere; the BMC has one media slot |
| `asmb8_media` | `plugins/modules/asmb8_media.py` | none of its own | finds, stops, reclaims and forks daemons it knows only from state files |
| iUSB | `plugins/module_utils/iusb.py` | a TCP stream, counters | frames cut anywhere by timeouts, stalls and closes |
| image cache | `Cache`, `FileReader`, `CDROMDevice._read` in `iusb.py` | LRU of windows | eviction at the limit, boundaries, a file that shrinks between a seek and its read |
| HTTP origin daemon | `plugins/module_utils/http_origin.py` | shared dict, state file, port | main thread and handler threads publish through one temp file; lifetime cap |
| `asmb8_http_origin` | `plugins/modules/asmb8_http_origin.py` | none | start and stop against that daemon |
| ASP client, `asmb8_ntp` | `plugins/module_utils/asp.py`, `plugins/modules/asmb8_ntp.py` | web session, BMC configuration | requests that are retried although they may have been carried out |
| KVM channel, `asmb8_console` | `plugins/module_utils/ivtp.py`, `plugins/modules/asmb8_console.py` | TCP stream, reassembly buffer | abandoned frames, interleaved packets, a session to release on every path |
| `asmb8_baremetal_install` | `roles/asmb8_baremetal_install/tasks` | run-state file per target | a play may be cut off between any two tasks, and the next one has only the file |
| IPMI and power, boot, reset, identify | `plugins/module_utils/ipmi.py`, `asmb8_power.py`, `asmb8_boot.py`, `asmb8_reset.py`, `asmb8_identify.py` | chassis power, boot override, light | commands of unknown outcome, transitions that take time, an override that is used up |
| bootstrap image builder | `plugins/module_utils/bootstrap_image.py`, `asmb8_bootstrap_image.py` | the file at `output_path` | the file outlives the play, and a tool or the controller can stop half way |
| read-only modules | `asmb8_alerts`, `_auditlog`, `_info`, `_inventory`, `_network`, `_postcode`, `_redirection`, `_sel`, `_sensors`, `_sessions`, `_users` over `asp.py` and `ipmi.py` | a web session that nobody ends | a session that expires between two reads, retries, failures that are swallowed and failures that are not, odd records, a sampling against the clock |
| everything else | ISO role, errors, models | none that lasts | parsing and formatting |

The role calls the modules; the media module forks the media daemon, which
logs in through the ASP client and serves the image through iUSB and the
cache; the HTTP origin module forks the other daemon. State files are the only
channel between module calls and daemons.

## Modules and how they correspond to the code

Names in the modules are the source's names where there is one. A *step* is
what happens between two points where another process, thread or machine can
be seen. Operators named `X_Word` above an operator `X` are plausible faults
of `X`, used only to see that the properties notice them.

* **MediaSession**: `Sessions` (state files), `Pids`, `Callers` (one module
  call at a time each) and `Endpoints` (one media slot each). `file` is what
  is on disk, `pc[p]` where daemon `p` is in `_run_daemon`, `call[c]` a module
  call with its locals. Actions of a daemon: `ClaimStateFile`, `OpenImage`,
  `Connect`, `ReportAttached`, `CheckStop`, `ServeOne`, `PeerEnds`,
  `ReadBreaks`, `CloseAndExit`. Actions of a call follow `_attach` (lookup,
  stale record, reclamation loop, fork, fallback record in two steps, wait)
  and `_detach`. Faults: `Killed`, `CallerDies`, `HostLoss`, `BmcReset`, a
  foreign client of the BMC. `_write_state_atomic` is one step here: a media
  daemon has one thread.
* **IusbSession**: one connection. The stream is a position, so every split of
  a frame over `recv` calls is covered; actions are `recv`, header parsing,
  timeout, EOF, socket error, the callbacks of `serve_forever` and the reply.
* **TraceLog**: `read_trace_summary` over the sidecar that `IusbSession` writes,
  a fold over its lines; a line is an entry, blank, cut off or not an object.
* **Medium**: what a redirected image promises: a READ returns that part of the
  image, zeros past its end; capacity and table of contents agree on its last
  block, and the table is cut to what the host has allocated.
* **ImageCache**: the commands of `CDROMDevice`, and `_read` over `Cache` over
  `FileReader`: hit, miss, then `Seek` and `Read` on the one file object without
  the lock, install with the second look, respond. It is shown to implement
  `Medium` (`INSTANCE Medium WITH intact <- length = Size`) for one reader,
  which is what the media daemon has. `Readers` may be larger, and then
  `IsMedium` fails: two threads of one `Cache` would move each other's file
  position between seek and read. `write_at` and `_invalidate` are left out: no
  `Cache` in this program has a writer.
* **HttpOrigin**: the daemon's main thread, its handler threads, and one module
  call at a time. `_persist` is four steps (copy, open with `O_TRUNC`, write,
  `os.replace`) because two threads share the temp path, and the model follows
  where an open file's inode is. Records differ in length, so a text written
  over another in one file may leave either a whole record or a torn one
  (`Overlay`).
* **HttpRequest**: what a handler thread of `HttpOrigin` answers, as functions:
  `resolve_within_root` over a directory tree with links, `parse_range_header`,
  and `_handle` with a file that vanishes, shrinks or grows and a client that
  leaves; the daemon's self-test is one of these requests. A path is a sequence of segments, a file a sequence of bytes.
* **NtpApply**: `_send_once` and `_send_with_retry` under log in, read, plan,
  write, read again, for concurrent invocations. The BMC holds requests in
  `wire` and may serve them late, after their sender has given up, or never; an
  answer lacks any of the sets of fields in `Lacking`. `overtaken` is history:
  which task's view of the configuration a write of another has made old.
* **ConsoleCapture**: handshake, capture loop, `FrameReassembler.feed`, and the
  `finally` of `run_capture`. The BMC may send packets of no interest and
  abandon frames any number of times; `FrameNames` names are used in rotation.
* **ChassisControl**: `asmb8_power`, `asmb8_boot`, `asmb8_reset` and
  `asmb8_identify`, each call a task: `Start` (refusals, check mode without a
  read), `Connect`, `ReadState` (with `plan`), `Command` and `ResetCommand`
  (carried out, answer or none), `Poll`. pyghmi is modelled from what
  `ipmi.py` says and uses of it. The chassis changes power some time after a
  command, or not at all, and uses up the override when it boots. `alone` and
  `again` are history: who has been disturbed, who repeats what.
* **BaremetalInstall**: the role. Each phase is a module call and then a
  `set_fact` with `save_state.yml`, because the controller can die between
  them (`Crash`). Module calls are what a play sees of them, failures with and
  without effect included. A detach whose wait runs out moves a live daemon from
  `daemons` (on record) to `leaving` (told to stop, record removed).
* **BootstrapImage**: the role with the inside of its `build` task: tools looked
  for, script, `grub-mkrescue` and whatever it leaves, the check of the output,
  a controller that dies in between. `image` is what is at `output_path` and
  ages when a play ends; `opened` is what the daemon of a session was opened on,
  and `confirmed` whether the attach of this play found it alive. It EXTENDS `BaremetalInstall`, and each of its steps
  is one of the role's steps or a stutter.
* **WebReport**: one invocation of one of the eleven read-only modules. What a
  module reads, in which order, and which failures it catches is a sequence of
  steps (`Steps`, from operators named after the modules and their functions); what its decoder
  makes of a record that is missing, lacks a field or holds something odd is a
  `Shape`. The actions are common: `BuildClient` (trust policy), `LoggedIn`,
  `Answered`, `NoAnswer` (retries), `ConnectionFails`, `RequestBreaks` (what
  `_send_once` does not catch), `Probe`, `IpmiConnect`,
  `IpmiRead`, `Pause` (the sampling of POST codes), `ResolveServices`, `Finish`.
* **MC\***: instances for TLC, with symmetry sets where no liveness property is
  checked. **\*Proofs**: theorems.

Constants that are bounds of the model: `MaxFrames`, `MaxRequests`,
`MaxFragments`, `MaxLine`, `MaxMeddling`, `MaxLines`, `MaxLimit`, `MaxSize`,
`MaxDepth`, `MaxFaults`, `ReadTime`, `Oversleep`. Constants that name an
assumption of a run: `StopWaitsExpire`, `CallersDie` (which includes the loss of
the host).

## Runs

| run | instance | what it shows |
|---|---|---|
| `media_shared` | 1 session, 2 callers, 2 daemons, all faults | `RecordHonest`: a record never claims more of its process than was reached. `AttachConfirmed`: a reported attach was acknowledged by the BMC. `RecordNeverRegresses`: the fallback write and the daemon's writes never take a record back. |
| `media_calls` | 2 sessions of 1 endpoint, 2 daemons, 1 caller | `EjectBeforeInsert`, `DaemonTracked`: reclamation stops the old daemon first and loses none; `StopTakesEffect`, `CallsReturn`. Calls come one at a time and stop waits last until the exit. |
| `iusb_session` | 3 frames, lengths 0, 1, 3, 4 with a limit of 3 and headers of 2 | `ResponsesPaired`: a response carries the number of its request. `AccountsExact`: trace and counters are within one request of what was served. `TraceSummaryExact`: what a status call shows of the trace leaves nothing out unannounced. `StopNoticed`, `DesyncEnds`, `RequestServed` |
| `cache_reads` | 1 reader, image of 7, blocks of 3, windows of 2, 2 windows kept | `LastUsedKept`: the cache holds the windows used last, in order, within its limit; `IsMedium` (refinement), `EveryReadAnswered` |
| `http_handlers` | 1 daemon, 2 clients; every path of 3 segments, every range over files of up to 3 bytes | `ServedExactly`, `RangeExact`: exactly the files of the root, exactly the bytes of the range, as RFC 7233 defines it, and a sound daemon passes its self-test; `OnlyHandlersUndoTheEnd`; `SelfTerminates` |
| `http_calls` | 2 daemons, 1 client, calls in sequence | `ServingProved`, `StopLeavesNothing` |
| `role_resume` | 2 media ids, 2 origin ids, any number of plays, the image builder inside | `ImageIsThisPlays`: an iPXE play goes on with the image it has built itself and its daemon serves that one, but for a tool that lies and for a session left by a play that was cut off; `OwnSessionToldToStop`: a play that ends by itself has told its daemon to stop and left no record of it; `UnsettledIsOnFile`, `SettledBeforeReset`, `ClaimedFirst` |
| `ntp_apply` | 2 tasks, 3 sets of options, 1 retry, answers without a name or without a record | `SuccessIsInForce`: what is reported holds until another task writes; `UnsetLeftAlone`: a field not asked for changes only if the read lacked it or was overtaken |
| `console_capture` | frames of up to 3 fragments without number, limit 2 | `CaptureIsOneFrame`, `SessionReleased`; `CaptureEnds`: a capture ends unless the BMC sends diverting packets for ever |
| `chassis_control` | 2 concurrent calls of the IPMI modules, options for every path, 2 polls, 1 change by others | `SuccessIsInForce`: what is reported holds until somebody else changes it; `Convergent`: repeating a convergent task commands nothing |
| `web_report` | every module with its options, every combination of TLS options and certificates, 2 faults, 2 retries | `ReportComplete`: a success leaves nothing out that is not marked. `ExpiredNeverReported`: no login page and no list terminator is reported as data. `SessionBudget`, `SampleFaithful`, `ReportEnds` |
| `role_reset` | as `role_resume` | `MidInstallSpared` is **violated** |

Type correctness of `MediaSession` and `BaremetalInstall` is proved. Deadlock is checked except where the
modelled activity really ends: a connection, a module call.

**Why the bounds are enough to be interesting.** Two daemons of one session id
meet in `media_shared`; a reclaimed one and its successor in `media_calls`, whose
properties also hold with three daemons (700,000 states, ten minutes) and with
two endpoints (540,000 states, five minutes). Three iUSB frames are the acknowledgement, a request whose
payload comes late, and the request after it; payloads are empty, shorter than
a header, longer than a header and too long. In `cache_reads` a block spans two
windows, the image ends inside a block and inside a window, one address lies
past the end, and four windows compete for two places. In `console_capture` a
frame can be abandoned any number of times, and can exceed the limit; four names
tell apart the frames that buffer and line can hold together. One retry is enough for
a late first attempt to be carried out after the second; with two tasks it may
be carried out after the other's write, too. Two requests in
the life of the daemon of `http_handlers` are two handlers beside the main
thread, or one that comes after the other has renamed the file. Two faults in one
call of `web_report` are one that is swallowed and one that is not, or a login
retried to its end and a read that fails after it; a poll takes up to two
seconds against intervals of one to three, so that polls are shorter, as long
and longer than the pause. Five trace lines overflow a head and a tail of two.
Three segments reach through a link, out of it and back.
The served root has files in it, so the self-test's branch for an empty root is
defined and not exercised.

**Fairness.** Only the program's own steps are fair, weakly: every blocking
call it makes has a timeout, so a process that is not killed goes on. Nothing
is assumed of the BMC, clients, hosts, operators or faults; steps that are
faults (socket errors, failed connections) are outside the fair actions, so no
liveness property rests on a fault coming to the rescue. The deadline of the
HTTP origin is the passing of time, and fair; it is disabled once a stop is
requested, so a stopped origin does not end by its deadline. A read-only module is one
process whose every request ends in an answer or a timeout, so that its next
step is fair as a whole (`WebReport`). In `media_calls`
stop waits never expire, so no call returns merely because it gave up.

## Proofs

TLAPS proves, for every value of the constants allowed by the named
assumptions (which only keep model values such as `None` apart from ids):

* `MediaSessionProofs`: type correctness, `RecordHonest`, `AttachConfirmed`,
  `RecordNeverRegresses`, `ReclaimScoped`. None of these is inductive: a call
  remembers a record, or a list of daemons to reclaim, over many steps of
  others. `IndInv` adds what a call remembers (`CallOK`) and what a daemon's
  place implies (`JobInv`). The argument rests on one lemma: daemons only move
  forward (`Monotone`), so whatever was true of a record when it was read
  stays true (`HonestStable`, `CallStable`); the rest is one case per action.
* `BaremetalInstallProofs`: type correctness, `UnsettledIsOnFile`,
  `SettledBeforeReset`, `OwnSessionToldToStop`, `ClaimedFirst`, for any number of
  plays, crashes and ids. `IInv` adds that fact and file agree while a play
  runs, which flags each task may find set, and which id is claimed when.
* `BootstrapImageProofs`: the role with the builder inside implements the role
  in which the build is one step (`Implements`: each step is a step of
  `BaremetalInstall` or a stutter), so every theorem above holds for it;
  `NoBlindResetWithBuilder` draws that conclusion for `SettledBeforeReset`.
  `ImageIsOfThisPlay` proves `ImageIsThisPlays`; its `ImageInv` adds what
  may lie at `output_path` and that, when the build begins, the run state
  names the origin just started; the tasks after the build leave image, origin
  and run-state id alone, which is one lemma for all of them (`ElsewhereKeeps`).
  For what the daemon serves, a second lemma (`RoleKeepsSession`) says that no
  task between the attach and the end of the play starts a daemon or changes
  the play's session id. The theorem carries the two exceptions of the
  property: a tool that reports success without writing, and a live session
  confirmed after a play that was cut off. `AlwaysDetaches` is about daemons on
  record; one that outlasts `detach_timeout` lives on without one
  (`NoDaemonLeft` below).

Only model-checked: everything else in the table of runs. Liveness is out of
the prover's reach, and so are the runs' claims that depend on bounds.

## Where code and documentation disagree

One disagreement has a run of its own:

* `role_reset`: `tasks/state.yml:50` starts from a clean slate "when the prior
  run fully completed", but tests `reset_confirmed`, which `observe.yml` sets
  before the hand-off. A play cut off between the two, waiting or not, is
  followed by one that resets the machine in mid-install.

The modules state further sentences of the documentation as properties that no
run lists; TLC refutes each within a minute when the property of the run named
first is replaced by it.

| property | run | sentence | what the code does |
|---|---|---|---|
| `SuccessMeansAttached` | `media_shared` | `asmb8_media.py:164-166` "will not report success for an attach it has not confirmed" | a second attach that finds a daemon still connecting answers ok at once (`asmb8_media.py:669`) |
| `StaleMeansDead` | `media_shared` | `asmb8_media.py:283-285` "recorded pid no longer running" | a terminal record of a process still closing its socket is discarded too (`:679`) |
| `ReportIsOwn` | `media_shared` | `asmb8_media.py:20-22` "returns once that process has reported" | any record under the id is accepted, also an abandoned daemon's (`:711`) |
| `IdleOnlyAtBoundary` | `iusb_session` | `iusb.py:882-884` idle only for "a fresh packet header" | a timeout between header and payload is idle too, and the reader is out of step (`:996`); `DesyncEnds` shows that the session then ends |
| `TraceIsServed` | `iusb_session` | `media_session.py:357-358` "actually served" | the line is written before the reply (`iusb.py:1178`); `AccountsExact` is what holds |
| `NeverTorn` | `http_handlers` | `daemon_runtime.py:119-120` "a reader never observes a partially-written file" | the temp path is named after the pid alone (`daemon_runtime.py:127`) and the main thread persists without `state_lock`, so it can rename a file a handler has just truncated |
| `MalformedIgnored` | `http_handlers` | `http_origin.py:422-424` "Returns None ... malformed syntax" | a last byte that is no number, or before the first, is answered with 416 when the first is past the end |
| `TerminalStays` | `http_handlers` | `http_origin.py:132-134` "will never revert out of" | a late handler publishes serving over stopped; `OnlyHandlersUndoTheEnd` is what holds |
| `CleanSlateForgetsNothing` | `role_resume` | role `vars/main.yml:12-13` "already been detached" | the clean slate drops the id of a daemon a killed play left |
| `OriginNeverOutlives` | `role_resume` | `stop_ipxe_origin.yml:9-10` "can never outlive this play" | a start that times out leaves a running origin and no id |
| `FailedAttachNotRecorded` | `role_resume` | `attach_media.yml:77-78` | `media_attached` stays true from an earlier play |
| `QuietToolNoticed` | `role_resume` | `docs/asmb8_bootstrap_image.md:143` an error when the tool "reported success but produced no output file" | an image of an earlier build at `output_path` passes for the output |
| `AttachServesThisImage` | `role_resume` | `attach_media.yml:56-58` attaches the image "just built" | an attach under an id whose daemon still lives is confirmed as it is, with the image it was opened on; `ImageIsThisPlays` names the exception |
| `NoDaemonLeft` | `role_resume` | `tasks/main.yml:107` "so no daemon is left holding the BMC's single media slot open" | a detach whose wait runs out removes the record with a warning and the daemon may live on (`asmb8_media.py:830-847`); `OwnSessionToldToStop` is what holds |
| `UncertainNeverRetried` | `ntp_apply` | `README.md:332` "An uncertain mutation is never retried automatically" | `_send_with_retry` resends writes and logins (`asp.py:690`); `SuccessIsInForce` is what holds |
| `DefiniteMeansNotDone` | `ntp_apply` | `README.md:332-333` "reported with `indeterminate=true`" | a retry that cannot connect, or a failed read after a good write, fails without the mark |
| `UnsetNeverTouched` | `ntp_apply` | `docs/asmb8_ntp.md:142-154` "leaves the current value alone" | a read that lacks a name, or has no record, makes the write clear it; a concurrent task's change is written back; `UnsetLeftAlone` is what holds |
| `DefiniteMeansNotDone` | `chassis_control` | the same | a lost answer, or a failing poll after an accepted power command, fails without the mark (`ipmi.py:360`) |
| `ArmedIsOneTime` | `chassis_control` | `asmb8_boot.py` "Boot device to select for exactly one upcoming reset" | `plan` ignores `persistent`: a standing override of the same device counts as armed (`asmb8_boot.py:282-283`) |
| `EveryFailureClassified` | `console_capture` | `README.md:341` "Every failure carries a stable, machine-readable `error_class`" | `EOFError` is caught by nobody (`ivtp.py:579`) |
| `UnknownStatusIsRemote` | `console_capture` | `docs/asmb8_console.md:222-224` | an unknown status byte is a protocol error (`ivtp.py:382`) |
| `FrameTimeoutEnds` | `console_capture` | `asmb8_console.py:175` "Seconds to wait for one complete video frame" | every packet starts the timeout again (`ivtp.py:759`); `CaptureEnds` is what holds |
| `ConnectionLossNotHidden` | `web_report` | `asmb8_alerts.py:579-580` "a per-endpoint refusal, not a connection problem this module should hide" | `_read_endpoint` catches every `IkvmError`, a lost connection included |
| `FailureClassified` | `web_report` | `README.md:341` as above | a decoder that does arithmetic on a value that is no number, a service without `SERVICEID`, or a chain of redirects raises what no module catches |

## What is not modelled

* Pid recycling: `is_pid_alive` cannot tell, and neither can a property.
* Failures of single file operations (disk full, permissions) and `fsync`.
* JNLP parsing, the scanner under `parse_webvar`, the frame layout of iUSB and
  IVTP (headers, `_build_response`), percent-decoding of request paths:
  functions of one input text without state. Their outcomes (whole, incomplete, odd, unparsable, refused)
  appear where a component's control depends on them.
* Where a redirect leads: `requests` follows it, with the default adapter for
  `http://` (`asp.py:501-504`, `629-636`), and `WebReport` and `NtpApply` have
  only its end, as an answer, a failure or an exception. What a module's trust
  options decide is therefore modelled for the BMC itself (`Accepts`).
* The text tests by which an expired session is told (`asp.py:380-384`): a login
  page is taken to be recognised, and nothing else is.
* Two threads on one `Cache`: the code has the lock for it, no caller has them.
* The wording, units and names of what the read-only modules report; receipts,
  redaction, and the error classes where nothing depends on them.
* The check mode of `asmb8_bootstrap_image`, which the role never uses, and the
  network part of its script.
* `Cache.write_at` and `_invalidate`: every `Cache` here has no writer.
* The unattended-ISO role: it renders one file and runs one external tool.

## Plan

1. Abstract specification of the media slot (one holder, released on close)
   with `MediaSession` as its implementation; composition of `MediaSession` and
   `BaremetalInstall` through it.
2. `BaremetalInstall` over `ChassisControl`: the role's power and boot commands
   as the calls they are.
3. Pure operators against reference definitions: `_scan_matching_bracket`,
   `parse_jnlp_arguments`.
4. Proofs: `IusbSession` (`ResponsesPaired`, `AccountsExact`),
   `ConsoleCapture` (`CaptureIsOneFrame`), `HttpOrigin` (`ServingProved`),
   `WebReport` (`SessionBudget`), `EjectBeforeInsert` and
   `DaemonTracked` under their assumptions, `ChassisControl`
   (`SuccessIsInForce`, `Convergent`).
