------------------------------- MODULE Frontend -------------------------------
(***************************************************************************)
(* The life of an emulator run: the frontend process (main.c), the QEMU it *)
(* forks, the run directory the two meet in, and the card that USB DISK    *)
(* MODE hands from the guest to the host and back (usb_poll() of main.c,   *)
(* ot_usb_poll_active() of board/ot-board.c).                              *)
(*                                                                         *)
(* fe is where the frontend's main thread is; a signal handler interrupts  *)
(* it (handler) and never returns to it.  audio is where its audio thread  *)
(* is, conn the connection that thread makes to the DSP shim, and vcpu     *)
(* says whether the guest's thread waits in the shim's backstop: the       *)
(* module AudioLink has the detail of that, here it is what keeps QEMU     *)
(* from ending.                                                            *)
(***************************************************************************)
EXTENDS Naturals, Sequences

CONSTANTS
  Mixes,         \* which of the optional events below a run may meet
  MAX_MODES      \* how often the guest enters USB DISK MODE

Optional == {"setup", "term", "crash", "deaf", "disk", "eject", "dies"}

ASSUME FrontendAssumption == Mixes \subseteq SUBSET Optional /\ MAX_MODES \in Nat

VARIABLES
  mix,           \* chosen once
  \* the frontend
  fe, how, handler,
  g_qemu,        \* is g.qemu the child's pid?
  g_quit,
  audio,
  \* QEMU and its link to the frontend
  qemu,
  term,          \* SIGTERM sent and not yet acted on
  vcpu, conn, consumer_alive,
  \* /tmp/octemu-<pid>
  dir, files,
  \* USB DISK MODE
  guest,         \* who has the card's filesystem, as the guest sees it
  modes,
  ot_usb_attached,
  lines,         \* the contents of the file usb
  usb_notify_pos,
  usb_disk_dev,  \* is there a device node to eject?
  host,          \* is the card mounted on the host?
  misfire        \* a mount or an eject failed

feVars == <<fe, how, handler, g_qemu, g_quit>>
linkVars == <<audio, vcpu, conn, consumer_alive>>
dirVars == <<dir, files>>
boardVars == <<guest, modes, ot_usb_attached, lines>>
hostVars == <<usb_notify_pos, usb_disk_dev, host, misfire>>
vars == <<mix, feVars, qemu, term, linkVars, dirVars, boardVars, hostVars>>

Starting == {"setup", "listening", "forked", "spawned"}
Looping == {"loop", "usb"}
Cleaning == {"kill", "wait", "eject", "stop", "remove"}
QemuAlive == qemu \in {"forked", "starting", "up"}

TypeOK ==
  /\ mix \in Mixes
  /\ fe \in Starting \union Looping \union Cleaning \union {"gone"}
  /\ how \in {"none", "return", "term", "crash"}
  /\ handler \in {"none", "unlink", "rmdir"}
  /\ {g_qemu, g_quit, term, consumer_alive, dir, ot_usb_attached, usb_disk_dev, host, misfire} \subseteq BOOLEAN
  /\ audio \in {"off", "connecting", "hello", "running", "failed", "done"}
  /\ qemu \in {"none", "forked", "starting", "up", "over", "reaped"}
  /\ vcpu \in {"free", "stuck"}
  /\ conn \in {"none", "queued", "accepted", "closed"}
  /\ files \subseteq {"panel", "mon", "audio", "usb"}
  /\ guest \in {"mounted", "unmounted", "disk", "leaving"}
  /\ modes \in 0 .. MAX_MODES
  /\ lines \in Seq({"attach", "detach"}) /\ Len(lines) <= 2 * MAX_MODES
  /\ usb_notify_pos \in 0 .. Len(lines)

\* The run directory is made and the handlers are installed.
Init ==
  /\ mix \in Mixes
  /\ fe = "setup" /\ how = "none" /\ handler = "none"
  /\ g_qemu = FALSE /\ g_quit = FALSE
  /\ audio = "off"
  /\ qemu = "none" /\ term = FALSE
  /\ vcpu = "free" /\ conn = "none" /\ consumer_alive = FALSE
  /\ dir = TRUE /\ files = {}
  /\ guest = "mounted" /\ modes = 0
  /\ ot_usb_attached = FALSE /\ lines = <<>>
  /\ usb_notify_pos = 0 /\ usb_disk_dev = FALSE /\ host = FALSE /\ misfire = FALSE

-----------------------------------------------------------------------------
(* The frontend's main thread *)

\* The main thread goes from one place to another, unless a handler has it.
Main(from, to) ==
  /\ fe = from /\ handler = "none"
  /\ fe' = to
  /\ UNCHANGED <<mix, how, handler>>

\* emu_die() and exit(2): atexit runs cleanup().  The script or the panel
\* socket cannot be opened; there is no QEMU to run; there is no window.
Die ==
  /\ "setup" \in mix
  /\ \E from \in {"setup", "listening", "spawned"} : Main(from, "kill")
  /\ UNCHANGED <<g_qemu, g_quit, qemu, term, linkVars, dirVars, boardVars, hostVars>>

\* panel_start(): from here on QEMU can connect.
PanelStart ==
  /\ Main("setup", "listening")
  /\ files' = files \union {"panel"}
  /\ UNCHANGED <<g_qemu, g_quit, qemu, term, linkVars, dir, boardVars, hostVars>>

\* spawn_qemu(): the child exists before the parent has its pid in g.qemu.
Fork ==
  /\ Main("listening", "forked")
  /\ qemu' = "forked"
  /\ UNCHANGED <<g_qemu, g_quit, term, linkVars, dirVars, boardVars, hostVars>>

Forked ==
  /\ Main("forked", "spawned")
  /\ g_qemu' = TRUE
  /\ UNCHANGED <<g_quit, qemu, term, linkVars, dirVars, boardVars, hostVars>>

AudioStart ==
  /\ Main("spawned", "loop")
  /\ audio' = "connecting"
  /\ UNCHANGED <<g_qemu, g_quit, qemu, term, vcpu, conn, consumer_alive, dirVars, boardVars, hostVars>>

\* The loop ends: the script is done, the timeout has passed, or SDL_QUIT has
\* set g_quit.
LoopEnds ==
  /\ Main("loop", "kill")
  /\ g_quit' \in {g_quit, TRUE}
  /\ UNCHANGED <<g_qemu, qemu, term, linkVars, dirVars, boardVars, hostVars>>

\* ... or panel_peer_gone(): the panel thread has read the end of the stream.
PeerGone ==
  /\ qemu = "over"
  /\ Main("loop", "kill")
  /\ UNCHANGED <<g_qemu, g_quit, qemu, term, linkVars, dirVars, boardVars, hostVars>>

\* ... or waitpid(WNOHANG) reaps the child.
Reap ==
  /\ qemu = "over"
  /\ Main("loop", "kill")
  /\ qemu' = "reaped"
  /\ g_qemu' = FALSE
  /\ UNCHANGED <<g_quit, term, linkVars, dirVars, boardVars, hostVars>>

\* usb_poll() opens the file and reads on from where it was.
UsbPoll ==
  /\ "usb" \in files
  /\ usb_notify_pos < Len(lines)
  /\ Main("loop", "usb")
  /\ UNCHANGED <<g_qemu, g_quit, qemu, term, linkVars, dirVars, boardVars, hostVars>>

\* Mutant of UsbLine: a detach is acted on and the device kept.
UsbLineKeepsDev ==
  /\ usb_notify_pos < Len(lines)
  /\ Main("usb", "usb")
  /\ usb_notify_pos' = usb_notify_pos + 1
  /\ LET attach == lines[usb_notify_pos'] = "attach" /\ ~ usb_disk_dev
         detach == lines[usb_notify_pos'] = "detach" /\ usb_disk_dev
     IN \E ok \in (IF "eject" \in mix /\ (attach \/ detach) THEN BOOLEAN ELSE {TRUE}) :
          /\ usb_disk_dev' = (usb_disk_dev \/ (attach /\ ok))
          /\ host' = IF ok THEN (attach \/ host) /\ ~ detach ELSE host
          /\ misfire' = (misfire \/ ~ ok)
  /\ UNCHANGED <<g_qemu, g_quit, qemu, term, linkVars, dirVars, boardVars>>

\* One line of the file.  platform_disk_attach() mounts the card, or fails and
\* leaves no device; platform_disk_detach() ejects it, or fails, and either way
\* the device is forgotten.
UsbLine ==
  /\ usb_notify_pos < Len(lines)
  /\ Main("usb", "usb")
  /\ usb_notify_pos' = usb_notify_pos + 1
  /\ LET attach == lines[usb_notify_pos'] = "attach" /\ ~ usb_disk_dev
         detach == lines[usb_notify_pos'] = "detach" /\ usb_disk_dev
     IN \E ok \in (IF "eject" \in mix /\ (attach \/ detach) THEN BOOLEAN ELSE {TRUE}) :
          /\ usb_disk_dev' = ((usb_disk_dev \/ (attach /\ ok)) /\ ~ detach)
          /\ host' = IF ok THEN (attach \/ host) /\ ~ detach ELSE host
          /\ misfire' = (misfire \/ ~ ok)
  /\ UNCHANGED <<g_qemu, g_quit, qemu, term, linkVars, dirVars, boardVars>>

UsbEof ==
  /\ usb_notify_pos = Len(lines)
  /\ Main("usb", "loop")
  /\ UNCHANGED <<g_qemu, g_quit, qemu, term, linkVars, dirVars, boardVars, hostVars>>

-----------------------------------------------------------------------------
(* cleanup() *)

\* The audio thread is told to go before QEMU is waited for.
CleanupKill ==
  /\ Main("kill", IF g_qemu THEN "wait" ELSE "eject")
  /\ g_quit' = TRUE
  /\ term' = (term \/ (g_qemu /\ QemuAlive))
  /\ UNCHANGED <<g_qemu, qemu, linkVars, dirVars, boardVars, hostVars>>

\* Mutant of CleanupWait: the child is told to end and not waited for.
CleanupNoWait ==
  /\ Main("wait", "eject")
  /\ g_qemu' = FALSE
  /\ UNCHANGED <<qemu, g_quit, term, linkVars, dirVars, boardVars, hostVars>>

CleanupWait ==
  /\ qemu = "over"
  /\ Main("wait", "eject")
  /\ qemu' = "reaped"
  /\ g_qemu' = FALSE
  /\ UNCHANGED <<g_quit, term, linkVars, dirVars, boardVars, hostVars>>

\* Died while host-mounted: eject, best effort.
CleanupEject ==
  /\ Main("eject", "stop")
  /\ usb_disk_dev' = FALSE
  /\ \E ok \in (IF "eject" \in mix /\ usb_disk_dev THEN BOOLEAN ELSE {TRUE}) :
       /\ host' = (host /\ ~ (usb_disk_dev /\ ok))
       /\ misfire' = (misfire \/ ~ ok)
  /\ UNCHANGED <<g_qemu, g_quit, qemu, term, linkVars, dirVars, boardVars, usb_notify_pos>>

\* audio_stop() and panel_stop() join their threads.
CleanupStop ==
  /\ audio \in {"off", "failed", "done"}
  /\ Main("stop", "remove")
  /\ UNCHANGED <<g_qemu, g_quit, qemu, term, linkVars, dirVars, boardVars, hostVars>>

\* remove_rundir(): the names it knows, then the directory, which goes only
\* when it is empty.  cleanup() runs again at exit and finds nothing to do.
CleanupRemove ==
  /\ fe = "remove" /\ handler = "none"
  /\ files' = {} /\ dir' = FALSE
  /\ fe' = "gone" /\ how' = "return"
  /\ UNCHANGED <<mix, handler, g_qemu, g_quit, qemu, term, linkVars, boardVars, hostVars>>

-----------------------------------------------------------------------------
(* on_term(), and a frontend that dies without it *)

\* SIGTERM, SIGINT or SIGHUP: kill QEMU and do not wait for it ...
OnTerm ==
  /\ "term" \in mix
  /\ fe # "gone" /\ handler = "none"
  /\ handler' = "unlink"
  /\ term' = (term \/ (g_qemu /\ QemuAlive))
  /\ UNCHANGED <<mix, fe, how, g_qemu, g_quit, qemu, linkVars, dirVars, boardVars, hostVars>>

\* ... flush the recording and remove the run directory, in which QEMU may
\* still make a file between the two calls ...
OnTermUnlink ==
  /\ handler = "unlink"
  /\ files' = {}
  /\ handler' = "rmdir"
  /\ UNCHANGED <<mix, fe, how, g_qemu, g_quit, qemu, term, linkVars, dir, boardVars, hostVars>>

\* ... and _exit().
OnTermExit ==
  /\ handler = "rmdir"
  /\ dir' = (files # {})
  /\ fe' = "gone" /\ how' = "term"
  /\ UNCHANGED <<mix, handler, g_qemu, g_quit, qemu, term, linkVars, files, boardVars, hostVars>>

\* SIGKILL, or a crash, of a handler too.
Crash ==
  /\ "crash" \in mix
  /\ fe # "gone"
  /\ fe' = "gone" /\ how' = "crash"
  /\ handler' = "none"
  /\ UNCHANGED <<mix, g_qemu, g_quit, qemu, term, linkVars, dirVars, boardVars, hostVars>>

-----------------------------------------------------------------------------
(* The frontend's audio thread *)

Audio(from, to) ==
  /\ fe # "gone" /\ audio = from
  /\ audio' = to
  /\ UNCHANGED <<mix, feVars, qemu, term, vcpu, dirVars, boardVars, hostVars>>

\* audio_connect(): it tries until QEMU listens ...
AudioConnect ==
  /\ ~ g_quit
  /\ qemu = "up" /\ "audio" \in files
  /\ Audio("connecting", "hello")
  /\ conn' = "queued"
  /\ UNCHANGED consumer_alive

\* ... or gives up: g_quit, or two hundred times in vain.
AudioGivesUp ==
  /\ Audio("connecting", "failed")
  /\ UNCHANGED <<conn, consumer_alive>>

\* The hello line names the segment, which is mapped; or it is not, and the
\* thread ends with its socket open.
AudioHello ==
  /\ conn = "accepted"
  /\ \E to \in {"running"} \union (IF "deaf" \in mix THEN {"failed"} ELSE {}) : Audio("hello", to)
  /\ UNCHANGED <<conn, consumer_alive>>

\* The read() of the hello line does not look at g_quit: it ends with QEMU.
AudioHelloEof ==
  /\ ~ QemuAlive
  /\ Audio("hello", "failed")
  /\ UNCHANGED <<conn, consumer_alive>>

\* Mutant of AudioDone: the segment still says that somebody consumes.
AudioDoneSilent ==
  /\ g_quit \/ ~ QemuAlive
  /\ Audio("running", "done")
  /\ UNCHANGED <<conn, consumer_alive>>

\* audio_main() leaves its loop and says so in the segment.
AudioDone ==
  /\ g_quit \/ ~ QemuAlive
  /\ Audio("running", "done")
  /\ consumer_alive' = FALSE
  /\ UNCHANGED conn

-----------------------------------------------------------------------------
(* QEMU *)

Qemu(from, to) ==
  /\ qemu = from
  /\ qemu' = to
  /\ UNCHANGED <<mix, feVars>>

\* Before exec() the child has the frontend's handlers: it removes the run
\* directory and ends.
ChildTerm ==
  /\ term
  /\ Qemu("forked", "over")
  /\ term' = FALSE
  /\ files' = {} /\ dir' = FALSE
  /\ UNCHANGED <<linkVars, boardVars, hostVars>>

\* exec() fails, or QEMU finds no panel to connect to or nowhere to put its
\* monitor's socket.
QemuFails ==
  /\ "setup" \in mix \/ "panel" \notin files \/ fe = "gone"
  /\ Qemu("forked", "over")
  /\ term' = FALSE
  /\ UNCHANGED <<linkVars, dirVars, boardVars, hostVars>>

\* It connects to the panel and listens for its monitor ...
QemuStarts ==
  /\ "panel" \in files /\ fe # "gone"
  /\ Qemu("forked", "starting")
  /\ files' = files \union {"mon"}
  /\ UNCHANGED <<term, linkVars, dir, boardVars, hostVars>>

\* ... and for the frontend's audio: audioListen() only complains when it cannot.
QemuListens ==
  /\ Qemu("starting", "up")
  /\ files' = IF dir THEN files \union {"audio"} ELSE files
  /\ UNCHANGED <<term, linkVars, dir, boardVars, hostVars>>

\* closeBlock() accepts the frontend and greets it, or finds it gone.
Accept ==
  /\ qemu = "up" /\ vcpu = "free" /\ conn = "queued"
  /\ conn' = IF fe = "gone" THEN "closed" ELSE "accepted"
  /\ consumer_alive' = TRUE
  /\ UNCHANGED <<mix, feVars, qemu, term, audio, vcpu, dirVars, boardVars, hostVars>>

\* Nobody takes the blocks of an accepted frontend: the guest's thread waits.
Consuming == audio = "running" /\ ~ g_quit /\ fe # "gone"

Stuck ==
  /\ qemu = "up" /\ vcpu = "free"
  /\ conn = "accepted" /\ consumer_alive /\ ~ Consuming /\ fe # "gone"
  /\ vcpu' = "stuck"
  /\ UNCHANGED <<mix, feVars, qemu, term, audio, conn, consumer_alive, dirVars, boardVars, hostVars>>

\* The backstop lets go: the blocks are taken, nobody claims to take them, or
\* the connection is closed.
Unstuck ==
  /\ vcpu = "stuck"
  /\ ~ consumer_alive \/ Consuming \/ fe = "gone"
  /\ vcpu' = "free"
  /\ UNCHANGED <<mix, feVars, qemu, term, audio, conn, consumer_alive, dirVars, boardVars, hostVars>>

ClientGone ==
  /\ qemu = "up" /\ vcpu = "free"
  /\ conn = "accepted" /\ fe = "gone"
  /\ conn' = "closed"
  /\ UNCHANGED <<mix, feVars, qemu, term, audio, vcpu, consumer_alive, dirVars, boardVars, hostVars>>

\* exit-with-frontend=on.
OrphanExit ==
  /\ conn = "closed" /\ vcpu = "free"
  /\ Qemu("up", "over")
  /\ UNCHANGED <<term, linkVars, dirVars, boardVars, hostVars>>

\* SIGTERM: QEMU stops its vCPU, for which that thread has to come back.
Terminate ==
  /\ term /\ vcpu = "free"
  /\ \E from \in {"starting", "up"} : Qemu(from, "over")
  /\ term' = FALSE
  /\ UNCHANGED <<linkVars, dirVars, boardVars, hostVars>>

\* The guest resets under -no-reboot, the monitor says quit, QEMU aborts.
QemuDies ==
  /\ "dies" \in mix
  /\ \E from \in {"starting", "up"} : Qemu(from, "over")
  /\ term' = FALSE
  /\ vcpu' = "free"
  /\ UNCHANGED <<audio, conn, consumer_alive, dirVars, boardVars, hostVars>>

-----------------------------------------------------------------------------
(* USB DISK MODE in the guest and on the board *)

GuestMoves(from, to) ==
  /\ qemu = "up" /\ vcpu = "free" /\ guest = from
  /\ guest' = to
  /\ UNCHANGED <<mix, feVars, qemu, term, linkVars, dirVars, hostVars, ot_usb_attached, lines>>

\* The guest unmounts, then sets its flag; clears the flag, then mounts again.
GuestEnters ==
  /\ "disk" \in mix /\ modes < MAX_MODES
  /\ GuestMoves("mounted", "unmounted")
  /\ modes' = modes + 1

GuestFlag ==
  /\ GuestMoves("unmounted", "disk") \/ GuestMoves("disk", "leaving")
  /\ UNCHANGED modes

GuestRemounts == GuestMoves("leaving", "mounted") /\ UNCHANGED modes

Active == guest = "disk"        \* usb_diskmode_active

\* ot_usb_poll_active(), five times a second, and ot_usb_notify(), which
\* appends to a file it may have to make.
PollActive ==
  /\ qemu = "up"
  /\ Active # ot_usb_attached
  /\ ot_usb_attached' = Active
  /\ IF dir
     THEN /\ lines' = Append(lines, IF Active THEN "attach" ELSE "detach")
          /\ files' = files \union {"usb"}
     ELSE UNCHANGED <<lines, files>>
  /\ UNCHANGED <<mix, feVars, qemu, term, linkVars, dir, hostVars, guest, modes>>

-----------------------------------------------------------------------------
Startup == PanelStart \/ Fork \/ Forked \/ AudioStart
Loop == PeerGone \/ Reap \/ UsbPoll \/ UsbLine \/ UsbEof
Cleanup == CleanupKill \/ CleanupWait \/ CleanupEject \/ CleanupStop \/ CleanupRemove
Signalled == OnTermUnlink \/ OnTermExit
AudioThread == AudioConnect \/ AudioHello \/ AudioHelloEof \/ AudioDone
QemuRuns == ChildTerm \/ QemuStarts \/ QemuListens
ShimRuns == Accept \/ Unstuck \/ ClientGone \/ OrphanExit
Board == PollActive

Next ==
  \/ Startup \/ Die \/ Loop \/ LoopEnds \/ Cleanup
  \/ OnTerm \/ Signalled \/ Crash
  \/ AudioThread \/ AudioGivesUp
  \/ QemuRuns \/ QemuFails \/ ShimRuns \/ Stuck \/ Terminate \/ QemuDies
  \/ GuestEnters \/ GuestFlag \/ GuestRemounts \/ Board

Spec == Init /\ [][Next]_vars

\* Every thread of both processes is scheduled, a signal is acted on, the
\* DSP goes on making blocks and the poll timer goes on firing.  Nothing says
\* that a run is ended, that the guest leaves its mode or that it is killed.
FairSpec ==
  /\ Spec
  /\ WF_vars(Startup) /\ WF_vars(Loop) /\ WF_vars(Cleanup) /\ WF_vars(Signalled)
  /\ WF_vars(AudioThread) /\ WF_vars(AudioGivesUp /\ g_quit)
  /\ WF_vars(QemuRuns) /\ WF_vars(QemuFails) /\ WF_vars(ShimRuns) /\ WF_vars(Terminate)
  /\ WF_vars(Board)

-----------------------------------------------------------------------------
\* A frontend that returned from main() or exit() leaves nothing behind: no
\* QEMU, no run directory, and no card on the host unless the host would not
\* eject it.  It is the order of cleanup() that gives this, wherever in its
\* life the frontend ended (remove_rundir() of main.c: "Removed on EVERY exit
\* path").
ReturnClean ==
  how = "return" =>
    /\ qemu \in {"none", "reaped"}
    /\ ~ dir /\ files = {}
    /\ host => misfire

\* However a frontend ends, it does end, and QEMU with it: cleanup() comes
\* through its wait although the audio thread and the guest's thread wait for
\* each other's side, a signal is passed on, and after a SIGKILL QEMU sees the
\* connection close.  Left out is what nothing can tell QEMU: a frontend killed
\* before it is connected, or by a signal that comes between fork() and the
\* assignment of its result.
Abandoned == conn = "none" /\ ~ term /\ (how = "crash" \/ ~ g_qemu)
BothEnd ==
  (fe \in Cleaning \union {"gone"} \/ handler # "none") ~> (fe = "gone" /\ (~ QemuAlive \/ Abandoned))

\* The host follows the guest: once neither moves any more the card is mounted
\* on the host exactly when the guest is in USB DISK MODE, as long as every
\* mount and eject went through.
HandoffFollows ==
  <>[](fe \in Looping /\ qemu = "up" /\ ~ misfire => (host <=> Active))

\* What the doc says of the handoff, which fails: the guest and the host never
\* have the card mounted together.
HandoffClean == ~ (host /\ guest = "mounted")
=============================================================================
