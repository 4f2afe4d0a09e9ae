----------------------------- MODULE HostSystem -----------------------------
(***************************************************************************)
(* A program, the devices it drives, and the host that shows what it does: *)
(* the runtime's thread, which serves the program's accesses and ticks the *)
(* devices, and the viewer of sim-view (viewer.rs with its backends) or a  *)
(* console, which has the byte queue and the DMA engine instead.           *)
(*                                                                         *)
(* A device is ticked at least once between two accesses: the simulator    *)
(* (sim_core.rs) ticks on every cycle, and an access takes several; the    *)
(* runtime of the board (fpga.rs) ticks as it serves each request and each *)
(* time it finds none.  Only the simulator tells the devices the time.     *)
(*                                                                         *)
(* The performance figures, the title and the frame count of the viewer,   *)
(* which nothing reads but the user, are left out.                         *)
(***************************************************************************)
EXTENDS SharedBuffers

CONSTANTS KIND,          \* of the runtime: "sim" or "fpga"
          Run,           \* the programs that are tried
          INPUT,         \* the bytes the console sends
          MAX_RELOADS,   \* times the user loads a program again
          Reloaded,      \* the programs that are loaded again
          Pulls          \* numbers of samples the sound card asks for

ASSUME RunAssumption == Run \subseteq Programs

VARIABLES gui,           \* whether a sound card plays, or a test captures, the samples
          bus, guest,
          ticked,        \* the devices have been ticked since the last access
          events,        \* of the runtime, for whoever polls: exit codes
          video_buffer, audio_buffer,
          audio_config,  \* configurations on their way to the viewer
          viewer,        \* where the viewer is in its step
          state,         \* "running" or "halted"
          held,          \* a configuration the viewer has taken
          backend,       \* the configuration of the audio backend
          shown,         \* frames that have reached the video backend
          played,        \* samples that have reached the sound card
          console,       \* bytes that have reached the console
          reloads

vars == <<gui, bus, guest, ticked, events, video_buffer, audio_buffer, audio_config, viewer,
          state, held, backend, shown, played, console, reloads>>

view_vars == <<viewer, state, held, backend, shown, played, reloads>>

Video(program) == program \in {"video_pattern", "video_loop", "sim_view"}
Audio(program) == program \in {"audio_pattern", "audio_loop", "sim_view"}
Console(program) == ~Video(program) /\ ~Audio(program)

\* A window and a sound card, or headless, which differs where sound is played.
Modes(program) == IF Audio(program) THEN BOOLEAN ELSE {TRUE}

\* The devices that a front end registers.
MapOf == [program \in Run |->
  IF Console(program)
  THEN RegisterDevice(RegisterDevice(InternalMap, FIFO_BASE, 8, "fifo"), DMA_BASE, 20, "dma")
  ELSE RegisterDevice(RegisterDevice(InternalMap, VIDEO_BASE, 16, "video"), AUDIO_BASE, 16, "audio")]

Map == MapOf[guest.program]

Init ==
  /\ \E program \in Run :
       /\ gui \in Modes(program)
       /\ guest = Boot(program)
       /\ bus = IF Console(program) THEN [NewDevices EXCEPT !.fifo = PushString(<< >>, INPUT)]
                ELSE NewDevices
       /\ viewer = IF Console(program) THEN "console" ELSE "events"
  /\ ticked = TRUE /\ events = << >>
  /\ video_buffer = << >> /\ audio_buffer = NewAudioBuffer /\ audio_config = << >>
  /\ state = "running" /\ held = NoConfig /\ backend = NoConfig
  /\ shown = << >> /\ played = << >> /\ console = << >> /\ reloads = 0

\* The runtime goes when the viewer does.
Up == viewer # "stopped"

\* An endless program is followed no further than its last frame.
Note(log, entry) == IF guest.program \in Endless THEN <<entry>> ELSE Append(log, entry)

(***************************************************************************)
(* The thread of the runtime                                               *)
(***************************************************************************)

\* An access of the program is served; the callbacks it causes run at once.
\* The configuration goes both into the buffer and to the viewer.
GuestAccess ==
  /\ Up /\ ticked /\ ~Off(guest)
  /\ LET access == Request(guest)
         answer == IF access.write THEN 0 ELSE BusRead(Map, bus, access)
         after == BusAccess(Map, bus, access)
         config == after[2].audio_config
     IN  /\ bus' = after[1]
         /\ guest' = Continue(guest, answer)
         /\ console' = console \o after[2].fifo
         /\ audio_config' = audio_config \o config
         /\ audio_buffer' = IF config = << >> THEN audio_buffer
                            ELSE SetConfig(audio_buffer, config[1])
  /\ ticked' = FALSE
  /\ UNCHANGED <<gui, events, video_buffer, view_vars>>

\* All devices are ticked, and an exit code is taken and passed on.
Tick ==
  /\ Up /\ (~ticked \/ DevicesBusy(bus) \/ bus.tohost # {})
  /\ LET after == ClockAll(bus)
         frames == after[2].video
         samples == after[2].audio
     IN  /\ bus' = AcknowledgeTermination(after[1])
         /\ video_buffer' = IF frames = << >> THEN video_buffer
                            ELSE PushFrame(video_buffer, frames[1])
         /\ audio_buffer' = IF samples = << >> THEN audio_buffer
                            ELSE PushSamples(audio_buffer, samples[1])
         /\ events' = events \o SetToSeq(bus.tohost)
  /\ ticked' = TRUE
  /\ UNCHANGED <<gui, guest, audio_config, console, view_vars>>

\* The simulator tells the bus how long it has run.
UpdateElapsedTime ==
  /\ Up /\ KIND = "sim" /\ Ageing(bus)
  /\ bus' = Elapse(bus)
  /\ UNCHANGED <<gui, guest, ticked, events, video_buffer, audio_buffer, audio_config, console,
                 view_vars>>

(***************************************************************************)
(* The viewer: SimViewer::step, piece by piece                             *)
(***************************************************************************)
Goes(place) == viewer' = place

sim_vars == <<gui, bus, guest, ticked, console>>

\* The user has done nothing, or has left.
HandleEvents ==
  /\ viewer = "events"
  /\ Goes("configs") \/ Goes("stopped")
  /\ UNCHANGED <<sim_vars, events, video_buffer, audio_buffer, audio_config, state, held, backend,
                 shown, played, reloads>>

\* Ctrl+R, or load and boot on a console: the core is reset and starts over;
\* the devices are left as they are.  The codes that wait are passed over
\* while the core is reset and booted.  The simulator may end at once, since its
\* hung detector still times the instruction the core was reset in (see
\* HungDetector).
LoadElf ==
  /\ viewer \in {"events", "console"} /\ reloads < MAX_RELOADS /\ guest.program \in Reloaded
  /\ guest' = Boot(guest.program)
  /\ events' = << >> /\ bus' = AcknowledgeTermination(bus)
  /\ state' = "running" /\ reloads' = reloads + 1
  /\ UNCHANGED viewer \/ (KIND = "sim" /\ Goes("stopped"))
  /\ UNCHANGED <<gui, ticked, console, video_buffer, audio_buffer, audio_config, held, backend,
                 shown, played>>

\* Wrong variant: of the configurations that wait, only the first is taken.
TakeConfig_First ==
  /\ viewer = "configs" /\ audio_config # << >>
  /\ held' = Head(audio_config) /\ audio_config' = << >>
  /\ Goes("set_config")
  /\ UNCHANGED <<sim_vars, events, video_buffer, audio_buffer, state, backend, shown, played, reloads>>

\* The next of the configurations that wait.
TakeConfig ==
  /\ viewer = "configs" /\ audio_config # << >>
  /\ held' = Head(audio_config) /\ audio_config' = Tail(audio_config)
  /\ Goes("set_config")
  /\ UNCHANGED <<sim_vars, events, video_buffer, audio_buffer, state, backend, shown, played, reloads>>

NoMoreConfigs ==
  /\ viewer = "configs" /\ audio_config = << >>
  /\ Goes("poll")
  /\ UNCHANGED <<sim_vars, events, video_buffer, audio_buffer, audio_config, state, held, backend,
                 shown, played, reloads>>

\* The backend sets the configuration of the shared buffer as well.
ApplyConfig ==
  /\ viewer = "set_config"
  /\ backend' = held /\ audio_buffer' = SetConfig(audio_buffer, held)
  /\ held' = NoConfig
  /\ Goes("configs")
  /\ UNCHANGED <<sim_vars, events, video_buffer, audio_config, state, shown, played, reloads>>

PollRuntimeEvents ==
  /\ viewer = "poll"
  /\ state' = IF events = << >> THEN state ELSE "halted"
  /\ events' = << >>
  /\ Goes("frames")
  /\ UNCHANGED <<sim_vars, video_buffer, audio_buffer, audio_config, held, backend, shown, played,
                 reloads>>

UpdateVideo ==
  /\ viewer = "frames" /\ video_buffer # << >>
  /\ shown' = Note(shown, Head(video_buffer)) /\ video_buffer' = Tail(video_buffer)
  /\ UNCHANGED <<sim_vars, events, audio_buffer, audio_config, viewer, state, held, backend, played,
                 reloads>>

EndStep ==
  /\ viewer = "frames" /\ video_buffer = << >>
  /\ Goes(IF state = "halted" THEN "stopped" ELSE "events")
  /\ UNCHANGED <<sim_vars, events, video_buffer, audio_buffer, audio_config, state, held, backend,
                 shown, played, reloads>>

\* The sound card asks for samples; what is missing it fills with silence.
\* Without one the samples are captured between two steps.
PullSamples(count) ==
  /\ Up /\ audio_buffer.chunks # << >> /\ (gui \/ viewer = "events")
  /\ played' = IF guest.program \in Endless THEN played
               ELSE played \o Pulled(audio_buffer.chunks, count)
  /\ audio_buffer' = [audio_buffer EXCEPT !.chunks = AfterPull(@, count)]
  /\ UNCHANGED <<sim_vars, events, video_buffer, audio_config, viewer, state, held, backend, shown,
                 reloads>>

\* The console polls the runtime as well.
PollConsole ==
  /\ viewer = "console" /\ events # << >>
  /\ state' = "halted" /\ events' = << >>
  /\ UNCHANGED <<sim_vars, video_buffer, audio_buffer, audio_config, viewer, held, backend, shown,
                 played, reloads>>

ViewerStep == \/ TakeConfig \/ NoMoreConfigs \/ ApplyConfig
              \/ PollRuntimeEvents \/ UpdateVideo \/ EndStep \/ PollConsole

Next == \/ GuestAccess \/ Tick \/ UpdateElapsedTime \/ HandleEvents \/ LoadElf
        \/ ViewerStep \/ \E count \in Pulls : PullSamples(count)

Spec == Init /\ [][Next]_vars

\* An access is what clears ticked, and a tick what sets it.
Served == Up /\ ticked /\ ~Off(guest) /\ ticked' = FALSE
Ticked == Up /\ ~ticked /\ ticked' = TRUE

\* The runtime's thread and the viewer keep running.  The clock of the
\* simulator's host moves on: some of its cycles take a microsecond.
FairSpec == Spec /\ WF_ticked(Served) /\ WF_ticked(Ticked) /\ WF_vars(UpdateElapsedTime)
                 /\ WF_vars(HandleEvents) /\ WF_vars(ViewerStep)

(***************************************************************************)
(* Properties                                                              *)
(***************************************************************************)
Shape == IF guest.program = "video_pattern" THEN VIDEO_SHAPE.pattern ELSE VIDEO_SHAPE.loop

Drawn(round) == [data |-> Rendering(Shape, round), config |-> VideoToRegister(Shape)]

\* A frame that leaves the device is one drawing, whole.  No program waits for
\* the device to be done with the buffer before it draws the next frame there:
\* FRAME_READY is up until the frame is complete.  It holds only because the
\* device reads a chunk for every access the program can make.
FramesWhole ==
  Video(guest.program) =>
    \A frame \in ToSet(video_buffer) \cup ToSet(shown) :
      \E round \in 1 .. Rounds(guest.program) : frame = Drawn(round)

\* The samples of test_audio_pattern, which writes the next batch while the
\* last one may still be read, are played in order, none twice, none lost.
SoundInOrder ==
  guest.program = "audio_pattern" /\ reloads = 0 =>
    IsPrefix(played \o AllSamples(audio_buffer.chunks), Wave(0, TOTAL_SAMPLES))

\* When the viewer stops because the program has ended, all frames that the
\* program waited for are shown, in the order they were drawn, except those
\* that a full buffer has dropped: and that is never the last one.
LastFrameShown ==
  guest.program = "video_pattern" /\ viewer = "stopped" /\ state = "halted" =>
    /\ video_buffer = << >> /\ shown # << >> /\ Last(shown) = Drawn(FRAMES)
    /\ reloads = 0 =>
         \E rounds \in kSubset(Len(shown), 1 .. FRAMES) :
           shown = [i \in DOMAIN shown |-> Drawn(SetToSortSeq(rounds, <)[i])]

\* Device, shared buffer and backend agree on the configuration once the viewer
\* has none left to apply, though each of two threads sets the shared buffer's.
ConfigSettles ==
  Audio(guest.program) /\ audio_config = << >> /\ held = NoConfig =>
    {audio_buffer.config, backend} = {bus.audio.config}

\* No program fails, and what one writes to the console arrives: the message,
\* or the bytes sent, up to the zero.
ProgramsSucceed ==
  /\ guest.code \in {0, SUCCESS_CODE}
  /\ reloads = 0 /\ Console(guest.program) =>
       LET expected == CASE guest.program = "echo" -> INPUT
                         [] guest.program = "println" -> MESSAGE
                         [] guest.program = "dma_copy" -> << >>
       IN  IsPrefix(console, expected) /\ (guest.code # 0 => console = expected)

\* Unless the user leaves, an endless program does not stop drawing or playing,
\* and any other one ends, and the front end learns of it.
KeepsGoing ==
  \/ <>~Up
  \/ /\ guest.program \in Endless => \A round \in 1 .. 2 : []<>(guest.round = round)
     /\ guest.program \notin Endless => <>(state = "halted")
=============================================================================
