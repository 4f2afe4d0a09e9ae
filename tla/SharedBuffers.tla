---------------------------- MODULE SharedBuffers ----------------------------
(***************************************************************************)
(* sim-view/src/shared_buffers.rs: what the callbacks of the video and the *)
(* audio device put down for the backends to pick up.  A full buffer loses *)
(* its oldest entry.                                                       *)
(***************************************************************************)
EXTENDS GuestPrograms

CONSTANTS MAX_VIDEO_FRAMES, MAX_AUDIO_CHUNKS

ASSUME BufferAssumption == {MAX_VIDEO_FRAMES, MAX_AUDIO_CHUNKS} \subseteq Nat \ {0}

\* Wrong variant: a full buffer takes nothing more.
PushFrame_Refuse(frames, frame) ==
  IF Len(frames) >= MAX_VIDEO_FRAMES THEN frames ELSE Append(frames, frame)

PushFrame(frames, frame) ==
  Append(IF Len(frames) >= MAX_VIDEO_FRAMES THEN Tail(frames) ELSE frames, frame)

NoConfig == 0
NewAudioBuffer == [chunks |-> << >>, config |-> NoConfig]

\* A chunk keeps the configuration of the moment.
PushSamples(buffer, samples) ==
  LET kept == IF Len(buffer.chunks) >= MAX_AUDIO_CHUNKS THEN Tail(buffer.chunks) ELSE buffer.chunks
  IN  IF samples = << >> THEN buffer
      ELSE [buffer EXCEPT !.chunks = Append(kept, [samples |-> samples, config |-> buffer.config])]

SetConfig(buffer, config) == [buffer EXCEPT !.config = config]

AllSamples(chunks) == FlattenSeq([i \in DOMAIN chunks |-> chunks[i].samples])

\* At most max samples, from the front.
Pulled(chunks, max) == SubSeq(AllSamples(chunks), 1, Min({max, Len(AllSamples(chunks))}))

\* Wrong variant: the rest of a chunk goes to the end of the queue.
AfterPull_PushBack(chunks, max) ==
  LET Before(i) == Len(AllSamples(SubSeq(chunks, 1, i - 1)))
      whole == {i \in DOMAIN chunks : Before(i + 1) <= max}
      rest == SubSeq(chunks, Cardinality(whole) + 1, Len(chunks))
      used == max - Before(Cardinality(whole) + 1)
  IN  IF rest = << >> \/ used = 0 THEN rest
      ELSE Append(Tail(rest), [Head(rest) EXCEPT !.samples = SubSeq(@, used + 1, Len(@))])

\* What a pull leaves: the chunk it ends in goes back, without what was taken.
AfterPull(chunks, max) ==
  LET Before(i) == Len(AllSamples(SubSeq(chunks, 1, i - 1)))
      whole == {i \in DOMAIN chunks : Before(i + 1) <= max}
      rest == SubSeq(chunks, Cardinality(whole) + 1, Len(chunks))
      used == max - Before(Cardinality(whole) + 1)
  IN  IF rest = << >> \/ used = 0 THEN rest
      ELSE <<[Head(rest) EXCEPT !.samples = SubSeq(@, used + 1, Len(@))]>> \o Tail(rest)
=============================================================================
