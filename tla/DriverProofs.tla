---------------------------- MODULE DriverProofs ----------------------------
(***************************************************************************)
(* The device driver's properties for every size of its queues, pipes and  *)
(* socket pairs and any number of packets.                                 *)
(***************************************************************************)
EXTENDS DeviceDriverProps, TLAPS

----------------------------------------------------------------------------
(* Control: who may send *)

\* A packet is on its way to the writer exactly while the main loop or the signal
\* handler writes it, and the handler runs only where the signal is not blocked: at
\* most one of them can be sending.
Sending ==
    /\ OneSendAtATime
    /\ outgoing # <<>> <=> "writing" \in {pc, handling}
    /\ handling # "no" => Alive /\ ~ SignalBlocked

LEMMA SendingMain ==
    ASSUME Sending, MainNext
    PROVE  Sending'
<1> USE DEF Sending, OneSendAtATime, Alive, SignalBlocked, Main, sender
<1>1. CASE MainStarts         BY <1>1 DEF MainStarts
<1>2. CASE MainChecks         BY <1>2 DEF MainChecks
<1>3. CASE MainWaits          BY <1>3 DEF MainWaits
<1>4. CASE MainSelects        BY <1>4 DEF MainSelects
<1>5. CASE MainBlocksSignal   BY <1>5 DEF MainBlocksSignal
<1>6. CASE MainOutputs        BY <1>6 DEF MainOutputs
<1>7. CASE MainInputs         BY <1>7 DEF MainInputs
<1>8. CASE MainLaunches       BY <1>8 DEF MainLaunches, CanInitiateSend, InitiateSend
<1>9. CASE MainWrites         BY <1>9 DEF MainWrites, WriteNextPacket
<1>10. CASE MainUnblocksSignal BY <1>10 DEF MainUnblocksSignal
<1> QED BY <1>1, <1>2, <1>3, <1>4, <1>5, <1>6, <1>7, <1>8, <1>9, <1>10 DEF MainNext

LEMMA SendingHandler ==
    ASSUME Sending, HandlerNext
    PROVE  Sending'
<1> USE DEF Sending, OneSendAtATime, Alive, SignalBlocked, sender, main
<1>1. CASE HandlerStarts      BY <1>1 DEF HandlerStarts
<1>2. CASE HandlerReturns     BY <1>2 DEF HandlerReturns
<1>3. CASE HandlerReceives    BY <1>3 DEF HandlerReceives
<1>4. CASE HandlerHearsWriter
  BY <1>4 DEF HandlerHearsWriter, CanInitiateSend, InitiateSend
<1>5. CASE HandlerWrites      BY <1>5 DEF HandlerWrites, WriteNextPacket
<1> QED BY <1>1, <1>2, <1>3, <1>4, <1>5 DEF HandlerNext

LEMMA SendingStep ==
    ASSUME Sending, [Next]_vars
    PROVE  Sending'
<1> USE DEF Sending, OneSendAtATime, Alive, SignalBlocked, sender, main
<1>1. CASE ReaderWrites \/ ReaderSignals \/ MuxWrites \/ MuxReads
  BY <1>1 DEF ReaderWrites, ReaderSignals, MuxWrites, MuxReads
<1>2. CASE WriterNext
  BY <1>2 DEF WriterNext, WriterReads, WriterDiscards, WriterLaunches, WriterReports
<1>3. CASE UNCHANGED vars
  BY <1>3 DEF vars
<1> QED BY <1>1, <1>2, <1>3, SendingMain, SendingHandler DEF Next

LEMMA SendingInit == Init => Sending
BY DEF Init, Sending, OneSendAtATime, Alive, SignalBlocked

\* The assertion of EthernetInitiateSend (ethernet.cc:294-306) never fails,
\* whatever the sizes and however the signal handler interrupts the main loop.
THEOREM OneSendCorrect == Spec => []OneSendAtATime
<1>1. Sending => OneSendAtATime
  BY DEF Sending
<1> QED BY <1>1, SendingInit, SendingStep, PTL DEF Spec

----------------------------------------------------------------------------
(* The two rings, from the lemmas of RingProofs *)

InputLemmas == INSTANCE RingProofs WITH Packet <- Nat, bufsize <- INPUT_QUEUE_SIZE

LEMMA InputRing ==
    ASSUME NEW r \in Input!Ring
    PROVE  /\ Input!Held(r) \in 0 .. INPUT_QUEUE_SIZE - 1
           /\ Input!Contents(r) \in Seq(Nat)
           /\ Len(Input!Contents(r)) = Input!Held(r)
           /\ Input!IsEmpty(r) <=> Input!Held(r) = 0
           /\ Input!Numitems(r) \in {Input!Held(r), Input!Held(r) - 1}
           /\ \A p \in Nat :
                 /\ Input!PushPacket(r, p) \in Input!Ring
                 /\ \/ /\ Input!Held(r) = INPUT_QUEUE_SIZE - 1
                       /\ Input!PushPacket(r, p) = r
                    \/ /\ Input!Held(r) < INPUT_QUEUE_SIZE - 1
                       /\ Input!Held(Input!PushPacket(r, p)) = Input!Held(r) + 1
                       /\ Input!Contents(Input!PushPacket(r, p)) =
                            Append(Input!Contents(r), p)
           /\ ~ Input!IsEmpty(r) =>
                 /\ Input!PullPacket(r) \in Input!Ring
                 /\ Input!Held(Input!PullPacket(r)) = Input!Held(r) - 1
                 /\ Input!Contents(r) # <<>>
                 /\ Input!Contents(Input!PullPacket(r)) = Tail(Input!Contents(r))
                 /\ Input!NextPacket(r) \in Nat
<1> DEFINE L == InputLemmas!Contents(r)
<1>1. Input!Ring = InputLemmas!Ring
  BY DEF Input!Ring, InputLemmas!Ring, Input!Slot, InputLemmas!Slot
<1>2. \A q : Input!Held(q) = InputLemmas!Held(q) /\ Input!Contents(q) = InputLemmas!Contents(q)
  BY DEF Input!Contents, InputLemmas!Contents, Input!Held, InputLemmas!Held
<1>3. /\ Input!IsEmpty(r) <=> InputLemmas!IsEmpty(r)
      /\ Input!IsFull(r) <=> InputLemmas!IsFull(r)
      /\ Input!Numitems(r) = InputLemmas!Numitems(r)
      /\ Input!NextPacket(r) = InputLemmas!NextPacket(r)
      /\ Input!PullPacket(r) = InputLemmas!PullPacket(r)
      /\ \A p : Input!PushPacket(r, p) = InputLemmas!PushPacket(r, p)
  BY DEF Input!IsEmpty, InputLemmas!IsEmpty, Input!IsFull, InputLemmas!IsFull,
         Input!Numitems, InputLemmas!Numitems, Input!NextPacket, InputLemmas!NextPacket,
         Input!PullPacket, InputLemmas!PullPacket, Input!PushPacket, InputLemmas!PushPacket,
         Input!After, InputLemmas!After
<1>4. INPUT_QUEUE_SIZE \in Nat /\ INPUT_QUEUE_SIZE > 0 /\ r \in InputLemmas!Ring
  BY <1>1, DriverAssumption
<1>5. /\ InputLemmas!Held(r) \in 0 .. INPUT_QUEUE_SIZE - 1
      /\ InputLemmas!IsEmpty(r) <=> InputLemmas!Held(r) = 0
      /\ InputLemmas!IsFull(r) <=> InputLemmas!Held(r) = INPUT_QUEUE_SIZE - 1
  BY <1>4, InputLemmas!HeldIs
<1>6. L \in Seq(Nat) /\ Len(L) = InputLemmas!Held(r)
  BY <1>4, InputLemmas!ContentsType
<1>7. InputLemmas!Numitems(r) \in {InputLemmas!Held(r), InputLemmas!Held(r) - 1}
  BY <1>4, InputLemmas!NumitemsIs
<1>8. ASSUME NEW p \in Nat
      PROVE  /\ Input!PushPacket(r, p) \in Input!Ring
             /\ \/ /\ Input!Held(r) = INPUT_QUEUE_SIZE - 1
                   /\ Input!PushPacket(r, p) = r
                \/ /\ Input!Held(r) < INPUT_QUEUE_SIZE - 1
                   /\ Input!Held(Input!PushPacket(r, p)) = Input!Held(r) + 1
                   /\ Input!Contents(Input!PushPacket(r, p)) = Append(Input!Contents(r), p)
  <2>1. /\ InputLemmas!PushPacket(r, p) \in InputLemmas!Ring
        /\ InputLemmas!IsFull(r) => InputLemmas!PushPacket(r, p) = r
        /\ ~ InputLemmas!IsFull(r) =>
             /\ InputLemmas!Contents(InputLemmas!PushPacket(r, p)) = Append(L, p)
             /\ InputLemmas!Held(InputLemmas!PushPacket(r, p)) = InputLemmas!Held(r) + 1
    BY <1>4, InputLemmas!PushAppends
  <2>2. InputLemmas!IsFull(r) \/ InputLemmas!Held(r) < INPUT_QUEUE_SIZE - 1
    BY <1>4, <1>5
  <2> HIDE DEF L
  <2>3. L = Input!Contents(r)
    BY <1>2 DEF L
  <2> QED BY <1>1, <1>2, <1>3, <1>5, <2>1, <2>2, <2>3
<1>9. ~ InputLemmas!IsEmpty(r) =>
        /\ InputLemmas!PullPacket(r) \in InputLemmas!Ring
        /\ L # <<>>
        /\ InputLemmas!Contents(InputLemmas!PullPacket(r)) = Tail(L)
        /\ InputLemmas!NextPacket(r) \in Nat
        /\ InputLemmas!Held(InputLemmas!PullPacket(r)) = InputLemmas!Held(r) - 1
  BY <1>4, InputLemmas!PullTakesFirst
<1> QED BY <1>1, <1>2, <1>3, <1>5, <1>6, <1>7, <1>8, <1>9

OutputLemmas == INSTANCE RingProofs WITH Packet <- Nat, bufsize <- OUTPUT_QUEUE_SIZE

LEMMA OutputRing ==
    ASSUME NEW r \in Output!Ring
    PROVE  /\ Output!Held(r) \in 0 .. OUTPUT_QUEUE_SIZE - 1
           /\ Output!Contents(r) \in Seq(Nat)
           /\ Len(Output!Contents(r)) = Output!Held(r)
           /\ Output!IsEmpty(r) <=> Output!Held(r) = 0
           /\ Output!Numitems(r) \in {Output!Held(r), Output!Held(r) - 1}
           /\ \A p \in Nat :
                 /\ Output!PushPacket(r, p) \in Output!Ring
                 /\ \/ /\ Output!Held(r) = OUTPUT_QUEUE_SIZE - 1
                       /\ Output!PushPacket(r, p) = r
                    \/ /\ Output!Held(r) < OUTPUT_QUEUE_SIZE - 1
                       /\ Output!Held(Output!PushPacket(r, p)) = Output!Held(r) + 1
                       /\ Output!Contents(Output!PushPacket(r, p)) =
                            Append(Output!Contents(r), p)
           /\ ~ Output!IsEmpty(r) =>
                 /\ Output!PullPacket(r) \in Output!Ring
                 /\ Output!Held(Output!PullPacket(r)) = Output!Held(r) - 1
                 /\ Output!Contents(r) # <<>>
                 /\ Output!Contents(Output!PullPacket(r)) = Tail(Output!Contents(r))
                 /\ Output!NextPacket(r) \in Nat
<1> DEFINE L == OutputLemmas!Contents(r)
<1>1. Output!Ring = OutputLemmas!Ring
  BY DEF Output!Ring, OutputLemmas!Ring, Output!Slot, OutputLemmas!Slot
<1>2. \A q : Output!Held(q) = OutputLemmas!Held(q) /\ Output!Contents(q) = OutputLemmas!Contents(q)
  BY DEF Output!Contents, OutputLemmas!Contents, Output!Held, OutputLemmas!Held
<1>3. /\ Output!IsEmpty(r) <=> OutputLemmas!IsEmpty(r)
      /\ Output!IsFull(r) <=> OutputLemmas!IsFull(r)
      /\ Output!Numitems(r) = OutputLemmas!Numitems(r)
      /\ Output!NextPacket(r) = OutputLemmas!NextPacket(r)
      /\ Output!PullPacket(r) = OutputLemmas!PullPacket(r)
      /\ \A p : Output!PushPacket(r, p) = OutputLemmas!PushPacket(r, p)
  BY DEF Output!IsEmpty, OutputLemmas!IsEmpty, Output!IsFull, OutputLemmas!IsFull,
         Output!Numitems, OutputLemmas!Numitems, Output!NextPacket, OutputLemmas!NextPacket,
         Output!PullPacket, OutputLemmas!PullPacket, Output!PushPacket, OutputLemmas!PushPacket,
         Output!After, OutputLemmas!After
<1>4. OUTPUT_QUEUE_SIZE \in Nat /\ OUTPUT_QUEUE_SIZE > 0 /\ r \in OutputLemmas!Ring
  BY <1>1, DriverAssumption
<1>5. /\ OutputLemmas!Held(r) \in 0 .. OUTPUT_QUEUE_SIZE - 1
      /\ OutputLemmas!IsEmpty(r) <=> OutputLemmas!Held(r) = 0
      /\ OutputLemmas!IsFull(r) <=> OutputLemmas!Held(r) = OUTPUT_QUEUE_SIZE - 1
  BY <1>4, OutputLemmas!HeldIs
<1>6. L \in Seq(Nat) /\ Len(L) = OutputLemmas!Held(r)
  BY <1>4, OutputLemmas!ContentsType
<1>7. OutputLemmas!Numitems(r) \in {OutputLemmas!Held(r), OutputLemmas!Held(r) - 1}
  BY <1>4, OutputLemmas!NumitemsIs
<1>8. ASSUME NEW p \in Nat
      PROVE  /\ Output!PushPacket(r, p) \in Output!Ring
             /\ \/ /\ Output!Held(r) = OUTPUT_QUEUE_SIZE - 1
                   /\ Output!PushPacket(r, p) = r
                \/ /\ Output!Held(r) < OUTPUT_QUEUE_SIZE - 1
                   /\ Output!Held(Output!PushPacket(r, p)) = Output!Held(r) + 1
                   /\ Output!Contents(Output!PushPacket(r, p)) = Append(Output!Contents(r), p)
  <2>1. /\ OutputLemmas!PushPacket(r, p) \in OutputLemmas!Ring
        /\ OutputLemmas!IsFull(r) => OutputLemmas!PushPacket(r, p) = r
        /\ ~ OutputLemmas!IsFull(r) =>
             /\ OutputLemmas!Contents(OutputLemmas!PushPacket(r, p)) = Append(L, p)
             /\ OutputLemmas!Held(OutputLemmas!PushPacket(r, p)) = OutputLemmas!Held(r) + 1
    BY <1>4, OutputLemmas!PushAppends
  <2>2. OutputLemmas!IsFull(r) \/ OutputLemmas!Held(r) < OUTPUT_QUEUE_SIZE - 1
    BY <1>4, <1>5
  <2> HIDE DEF L
  <2>3. L = Output!Contents(r)
    BY <1>2 DEF L
  <2> QED BY <1>1, <1>2, <1>3, <1>5, <2>1, <2>2, <2>3
<1>9. ~ OutputLemmas!IsEmpty(r) =>
        /\ OutputLemmas!PullPacket(r) \in OutputLemmas!Ring
        /\ L # <<>>
        /\ OutputLemmas!Contents(OutputLemmas!PullPacket(r)) = Tail(L)
        /\ OutputLemmas!NextPacket(r) \in Nat
        /\ OutputLemmas!Held(OutputLemmas!PullPacket(r)) = OutputLemmas!Held(r) - 1
  BY <1>4, OutputLemmas!PullTakesFirst
<1> QED BY <1>1, <1>2, <1>3, <1>5, <1>6, <1>7, <1>8, <1>9

----------------------------------------------------------------------------
(* Types *)

\* What select said still holds when the main loop acts on it: nobody else reads
\* mux2ether or writes to ether2mux.
StillReady ==
    /\ pc \in {"selected", "output"} /\ ready.muxout => Len(muxout) < PIPE_CAP
    /\ pc \in {"selected", "output", "input"} /\ ready.muxin => muxin # <<>>
    /\ handling = "flag" => flags # <<>>

Typed == DriverTypeOK /\ StillReady

LEMMA Appends ==
    ASSUME NEW S, NEW s \in Seq(S), NEW p \in S
    PROVE  Append(s, p) \in Seq(S) /\ Len(Append(s, p)) = Len(s) + 1 /\ Append(s, p) # <<>>
<1>1. Append(s, p) \in Seq(S)
  OBVIOUS
<1>2. Len(Append(s, p)) = Len(s) + 1 /\ Len(s) \in Nat
  OBVIOUS
<1>3. Len(Append(s, p)) # 0
  BY <1>2
<1>4. Append(s, p) # <<>>
  <2> SUFFICES ASSUME Append(s, p) = <<>> PROVE FALSE
    OBVIOUS
  <2>1. Len(<<>>) = 0
    OBVIOUS
  <2> QED BY <1>3, <2>1, Zenon
<1> QED BY <1>1, <1>2, <1>4

LEMMA Tails ==
    ASSUME NEW S, NEW s \in Seq(S), s # <<>>
    PROVE  /\ Tail(s) \in Seq(S) /\ Len(Tail(s)) = Len(s) - 1
           /\ Head(s) \in S /\ Len(s) \in Nat \ {0}
OBVIOUS

\* The steps of the main loop that change no packet.
LEMMA TypedQuietMain ==
    ASSUME Typed,
           MainStarts \/ MainChecks \/ MainWaits \/ MainSelects
             \/ MainBlocksSignal \/ MainUnblocksSignal
    PROVE  Typed'
<1> USE DEF Typed, DriverTypeOK, StillReady, Places, Main, reader, queues, sender,
        writer, mux
<1>1. CASE MainStarts         BY <1>1 DEF MainStarts
<1>2. CASE MainChecks         BY <1>2 DEF MainChecks
<1>3. CASE MainWaits          BY <1>3 DEF MainWaits
<1>4. CASE MainSelects
  <2>1. /\ ready' \in [muxin : BOOLEAN, muxout : BOOLEAN]
        /\ ready'.muxin => muxin # <<>>
        /\ ready'.muxout => Len(muxout) < PIPE_CAP
    BY <1>4 DEF MainSelects, MuxHasRoom
  <2> QED BY <1>4, <2>1 DEF MainSelects
<1>5. CASE MainBlocksSignal   BY <1>5 DEF MainBlocksSignal
<1>6. CASE MainUnblocksSignal BY <1>6 DEF MainUnblocksSignal
<1> QED BY <1>1, <1>2, <1>3, <1>4, <1>5, <1>6

\* A step changes no more than these and keeps their types.
LEMMA TypedOutput ==
    ASSUME Typed, MainOutputs
    PROVE  Typed'
<1>1. CASE ready.muxout /\ ~ Input!IsEmpty(input_queue)
  <2>1. muxout \in Seq(Nat) /\ Len(muxout) < PIPE_CAP /\ input_queue \in Input!Ring
    BY <1>1 DEF MainOutputs, Main, Typed, DriverTypeOK, StillReady
  <2>2. /\ Input!PullPacket(input_queue) \in Input!Ring
        /\ Input!NextPacket(input_queue) \in Nat
    BY <1>1, <2>1, InputRing
  <2>3. /\ muxout' = Append(muxout, Input!NextPacket(input_queue))
        /\ input_queue' = Input!PullPacket(input_queue)
    BY <1>1 DEF MainOutputs
  <2>4. muxout' \in Seq(Nat) /\ Len(muxout') <= PIPE_CAP /\ input_queue' \in Input!Ring
    BY <2>1, <2>2, <2>3, Appends, DriverAssumption
  <2> QED BY <2>4 DEF MainOutputs, Main, Typed, DriverTypeOK, StillReady, Places,
             reader, sender, writer
<1>2. CASE ~ (ready.muxout /\ ~ Input!IsEmpty(input_queue))
  BY <1>2 DEF MainOutputs, Main, Typed, DriverTypeOK, StillReady, Places,
              reader, sender, writer
<1> QED BY <1>1, <1>2

LEMMA TypedInput ==
    ASSUME Typed, MainInputs
    PROVE  Typed'
<1>1. CASE ready.muxin
  <2>1. /\ muxin \in Seq(Nat) /\ muxin # <<>> /\ Len(muxin) <= PIPE_CAP
        /\ output_queue \in Output!Ring
    BY <1>1 DEF MainInputs, Main, Typed, DriverTypeOK, StillReady
  <2>2. Head(muxin) \in Nat /\ Tail(muxin) \in Seq(Nat) /\ Len(Tail(muxin)) <= PIPE_CAP
    BY <2>1, Tails, DriverAssumption
  <2>3. Output!PushPacket(output_queue, Head(muxin)) \in Output!Ring
    BY <2>1, <2>2, OutputRing
  <2>4. muxin' \in Seq(Nat) /\ Len(muxin') <= PIPE_CAP /\ output_queue' \in Output!Ring
    BY <1>1, <2>2, <2>3 DEF MainInputs
  <2> QED BY <1>1, <2>4 DEF MainInputs, Main, Typed, DriverTypeOK, StillReady, Places,
             reader, sender, writer
<1>2. CASE ~ ready.muxin
  BY <1>2 DEF MainInputs, Main, Typed, DriverTypeOK, StillReady, Places,
              reader, sender, writer
<1> QED BY <1>1, <1>2

\* The two places where EthernetInitiateSend is called.
LEMMA InitiateType ==
    ASSUME Typed, ~ Output!IsEmpty(output_queue), InitiateSend
    PROVE  outgoing' \in Seq(Nat) /\ Len(outgoing') <= 1 /\ output_queue' \in Output!Ring
<1>1. output_queue \in Output!Ring
  BY DEF Typed, DriverTypeOK
<1>2. /\ Output!PullPacket(output_queue) \in Output!Ring
      /\ Output!NextPacket(output_queue) \in Nat
  BY <1>1, OutputRing
<1> QED BY <1>2 DEF InitiateSend

LEMMA TypedLaunch ==
    ASSUME Typed, MainLaunches
    PROVE  Typed'
<1>1. outgoing' \in Seq(Nat) /\ Len(outgoing') <= 1 /\ output_queue' \in Output!Ring
  <2>1. CASE UNCHANGED <<outgoing, output_queue>>
    BY <2>1 DEF Typed, DriverTypeOK
  <2>2. CASE ~ Output!IsEmpty(output_queue) /\ InitiateSend
    BY <2>2, InitiateType
  <2> QED BY <2>1, <2>2 DEF MainLaunches
<1>2. pc = "launch" /\ pc' \in Places /\ pc' \notin {"selected", "output", "input"}
  BY DEF MainLaunches, Main, Places
<1> QED BY <1>1, <1>2 DEF MainLaunches, Main, Typed, DriverTypeOK, StillReady,
           reader, writer, mux

LEMMA WriteType ==
    ASSUME Typed, WriteNextPacket, outgoing # <<>>
    PROVE  /\ outgoing' \in Seq(Nat) /\ Len(outgoing') <= 1
           /\ towriter' \in Seq(Nat)
<1>1. outgoing \in Seq(Nat) /\ towriter \in Seq(Nat)
  BY DEF Typed, DriverTypeOK
<1>2. Head(outgoing) \in Nat
  BY <1>1, Tails
<1>3. towriter' \in Seq(Nat) /\ outgoing' = <<>>
  BY <1>1, <1>2, Appends DEF WriteNextPacket
<1> QED BY <1>3

LEMMA TypedMain ==
    ASSUME Typed, Sending, MainNext
    PROVE  Typed'
<1>1. CASE MainWrites
  <2>1. /\ outgoing' \in Seq(Nat) /\ Len(outgoing') <= 1
        /\ towriter' \in Seq(Nat)
    BY <1>1, WriteType DEF MainWrites, Main, Sending
  <2> QED BY <1>1, <2>1 DEF MainWrites, Main, Typed, DriverTypeOK, StillReady, Places,
             reader, queues, writer, mux
<1> QED BY <1>1, TypedQuietMain, TypedOutput, TypedInput, TypedLaunch DEF MainNext

LEMMA TypedReceives ==
    ASSUME Typed, HandlerReceives
    PROVE  Typed'
<1>1. /\ incoming \in Seq(Nat) /\ incoming # <<>> /\ input_queue \in Input!Ring
  BY DEF HandlerReceives, Typed, DriverTypeOK
<1>2. Head(incoming) \in Nat /\ Tail(incoming) \in Seq(Nat)
  BY <1>1, Tails
<1>3. Input!PushPacket(input_queue, Head(incoming)) \in Input!Ring
  BY <1>1, <1>2, InputRing
<1>4. incoming' \in Seq(Nat) /\ input_queue' \in Input!Ring
  BY <1>1, <1>2, <1>3 DEF HandlerReceives
<1>5. /\ pc' \in Places /\ handling' \in {"no", "loop", "flag", "writing"}
      /\ pc' = pc \/ pc' = "aborted"
      /\ handling' = "flag" => flags' # <<>>
  BY DEF HandlerReceives, Typed, DriverTypeOK, Places, writer
<1> QED BY <1>4, <1>5 DEF HandlerReceives, Typed, DriverTypeOK, StillReady,
           sender, writer, mux

LEMMA TypedHearsWriter ==
    ASSUME Typed, HandlerHearsWriter
    PROVE  Typed'
<1>1. outgoing' \in Seq(Nat) /\ Len(outgoing') <= 1 /\ output_queue' \in Output!Ring
  <2>1. CASE UNCHANGED <<outgoing, output_queue>>
    BY <2>1 DEF Typed, DriverTypeOK
  <2>2. CASE ~ Output!IsEmpty(output_queue) /\ InitiateSend
    BY <2>2, InitiateType
  <2> QED BY <2>1, <2>2 DEF HandlerHearsWriter
<1>2. flags' \in Seq(Flag)
  <2>1. flags \in Seq(Flag) /\ flags # <<>>
    BY DEF Typed, DriverTypeOK, StillReady, HandlerHearsWriter
  <2> QED BY <2>1, Tails DEF HandlerHearsWriter
<1>3. /\ pc' \in Places /\ handling' \in {"no", "loop", "writing"}
      /\ pc' = pc \/ pc' = "misfired"
  BY DEF HandlerHearsWriter, Typed, DriverTypeOK, Places
<1> QED BY <1>1, <1>2, <1>3 DEF HandlerHearsWriter, Typed, DriverTypeOK, StillReady,
           reader, mux

LEMMA TypedHandler ==
    ASSUME Typed, Sending, HandlerNext
    PROVE  Typed'
<1> USE DEF Typed, DriverTypeOK, StillReady, Places, reader, queues, main, sender,
        writer, mux
<1>1. CASE HandlerStarts      BY <1>1 DEF HandlerStarts
<1>2. CASE HandlerReturns     BY <1>2 DEF HandlerReturns
<1>3. CASE HandlerWrites
  <2>1. /\ outgoing' \in Seq(Nat) /\ Len(outgoing') <= 1
        /\ towriter' \in Seq(Nat)
    BY <1>3, WriteType DEF HandlerWrites, Sending
  <2> QED BY <1>3, <2>1 DEF HandlerWrites
<1> QED BY <1>1, <1>2, <1>3, TypedReceives, TypedHearsWriter DEF HandlerNext

LEMMA TypedWriter ==
    ASSUME Typed, WriterNext
    PROVE  Typed'
<1> USE DEF Typed, DriverTypeOK, StillReady, reader, queues, main, sender, writer, mux
<1>1. CASE WriterReads
  <2>1. towriter \in Seq(Nat) /\ towriter # <<>>
    BY <1>1 DEF WriterReads
  <2>2. Head(towriter) \in Nat /\ towriter' \in Seq(Nat)
    BY <1>1, <2>1, Tails DEF WriterReads
  <2>3. buffer' \in Seq(Nat) /\ Len(buffer') <= 1
    BY <1>1, <2>2 DEF WriterReads
  <2> QED BY <1>1, <2>2, <2>3 DEF WriterReads
<1>2. CASE WriterDiscards \/ WriterLaunches
  <2>1. buffer \in Seq(Nat) /\ buffer # <<>> /\ Len(buffer) <= 1
    BY <1>2 DEF WriterDiscards, WriterLaunches
  <2>2. buffer' \in Seq(Nat) /\ Len(buffer') <= 1
    BY <1>2, <2>1, Tails DEF WriterDiscards, WriterLaunches
  <2> QED BY <1>2, <2>2 DEF WriterDiscards, WriterLaunches
<1>3. CASE WriterReports
  <2>1. flags \in Seq(Flag) /\ result \in Flag
    BY <1>3 DEF WriterReports
  <2>2. flags' \in Seq(Flag) /\ flags' # <<>>
    BY <1>3, <2>1, Appends DEF WriterReports
  <2> QED BY <1>3, <2>2 DEF WriterReports
<1> QED BY <1>1, <1>2, <1>3 DEF WriterNext

LEMMA TypedOthers ==
    ASSUME Typed, ReaderWrites \/ ReaderSignals \/ MuxWrites \/ MuxReads
    PROVE  Typed'
<1>1. CASE ReaderWrites
  <2>1. incoming \in Seq(Nat) /\ arrived \in Nat /\ arrived' \in 0 .. MAX_ARRIVALS
    BY <1>1, DriverAssumption DEF ReaderWrites, Typed, DriverTypeOK
  <2>2. incoming' \in Seq(Nat)
    BY <1>1, <2>1, Appends DEF ReaderWrites
  <2> QED BY <1>1, <2>1, <2>2 DEF ReaderWrites, Typed, DriverTypeOK, StillReady,
             queues, main, sender, writer, mux
<1>2. CASE ReaderSignals
  BY <1>2 DEF ReaderSignals, Typed, DriverTypeOK, StillReady, queues, main, sender,
              writer, mux
<1>3. CASE MuxWrites
  <2>1. /\ muxin \in Seq(Nat) /\ handed \in Nat /\ handed' \in 0 .. MAX_DEPARTURES
        /\ Len(muxin) < PIPE_CAP
    BY <1>3, DriverAssumption DEF MuxWrites, Typed, DriverTypeOK
  <2>2. muxin' \in Seq(Nat) /\ muxin' # <<>> /\ Len(muxin') <= PIPE_CAP
    BY <1>3, <2>1, Appends, DriverAssumption DEF MuxWrites
  <2> QED BY <1>3, <2>1, <2>2 DEF MuxWrites, Typed, DriverTypeOK, StillReady, reader,
             queues, main, sender, writer
<1>4. CASE MuxReads
  <2>1. muxout \in Seq(Nat) /\ muxout # <<>> /\ Len(muxout) <= PIPE_CAP
    BY <1>4 DEF MuxReads, Typed, DriverTypeOK
  <2>2. muxout' \in Seq(Nat) /\ Len(muxout') = Len(muxout) - 1 /\ Len(muxout) \in Nat
    BY <1>4, <2>1, Tails DEF MuxReads
  <2>3. /\ muxout' \in Seq(Nat) /\ Len(muxout') <= PIPE_CAP
        /\ Len(muxout) < PIPE_CAP => Len(muxout') < PIPE_CAP
    BY <2>1, <2>2, DriverAssumption
  <2> QED BY <1>4, <2>3 DEF MuxReads, Typed, DriverTypeOK, StillReady, reader,
             queues, main, sender, writer
<1> QED BY <1>1, <1>2, <1>3, <1>4

LEMMA TypedStep ==
    ASSUME Typed, Sending, [Next]_vars
    PROVE  Typed'
<1>1. CASE UNCHANGED vars
  BY <1>1 DEF vars, Typed, DriverTypeOK, StillReady, reader, queues, main, sender,
              writer, mux
<1> QED BY <1>1, TypedMain, TypedHandler, TypedWriter, TypedOthers DEF Next

LEMMA TypedInit == Init => Typed
<1> SUFFICES ASSUME Init PROVE Typed
  OBVIOUS
<1>1. input_queue \in Input!Ring /\ output_queue \in Output!Ring
  BY DriverAssumption
  DEF Init, junk, Input!EmptyRing, Input!Ring, Input!Slot, Output!EmptyRing,
      Output!Ring, Output!Slot
<1>2. /\ <<>> \in Seq(Nat) /\ <<>> \in Seq(Flag)
      /\ Len(<<>>) <= 1 /\ Len(<<>>) <= PIPE_CAP
  BY DriverAssumption
<1>3. 0 \in 0 .. MAX_ARRIVALS /\ 0 \in 0 .. MAX_DEPARTURES
  BY DriverAssumption
<1>4. ready \in [muxin : BOOLEAN, muxout : BOOLEAN]
  BY DEF Init
<1>5. DriverTypeOK
  <2> USE DEF Init
  <2>1. /\ arrived \in 0 .. MAX_ARRIVALS /\ handed \in 0 .. MAX_DEPARTURES
    BY <1>3
  <2>2. /\ incoming \in Seq(Nat) /\ towriter \in Seq(Nat) /\ flags \in Seq(Flag)
        /\ outgoing \in Seq(Nat) /\ Len(outgoing) <= 1
        /\ buffer \in Seq(Nat) /\ Len(buffer) <= 1
        /\ muxin \in Seq(Nat) /\ Len(muxin) <= PIPE_CAP
        /\ muxout \in Seq(Nat) /\ Len(muxout) <= PIPE_CAP
    BY <1>2
  <2>3. /\ result \in Flag \cup {"none"} /\ owed \in BOOLEAN /\ signal \in BOOLEAN
        /\ pc \in Places /\ handling \in {"no", "loop", "flag", "writing"}
    BY DEF Places
  <2> QED BY <1>1, <1>4, <2>1, <2>2, <2>3 DEF DriverTypeOK
<1>6. StillReady
  BY DEF Init, StillReady
<1> QED BY <1>5, <1>6 DEF Typed

\* Type correctness for every size, and the write to the mux that must not wait
\* (device_driver.cc:185-196) finds room.
THEOREM DriverTypeCorrect == Spec => []DriverTypeOK
<1>1. Typed => DriverTypeOK
  BY DEF Typed
<1> QED BY <1>1, TypedInit, TypedStep, SendingInit, SendingStep, PTL DEF Spec

----------------------------------------------------------------------------
(* What may be left behind in the output queue *)

\* One packet at most, and a second one that the main loop has just taken from the
\* mux and not yet looked at: Numitems is then at least 1, since it is never more
\* than one too low.
Left ==
    /\ Output!Held(output_queue) <= 2
    /\ pc # "launch" => Output!Held(output_queue) <= 1

LEMMA LeftInput ==
    ASSUME Typed, Left, MainInputs
    PROVE  Left'
<1>1. output_queue \in Output!Ring
  BY DEF Typed, DriverTypeOK
<1>2. pc = "input" /\ Output!Held(output_queue) <= 1
  BY DEF Left, MainInputs, Main
<1>3. CASE ready.muxin
  <2>1. muxin \in Seq(Nat) /\ muxin # <<>>
    BY <1>2, <1>3 DEF Typed, DriverTypeOK, StillReady
  <2>2. Head(muxin) \in Nat
    BY <2>1, Tails
  <2>3. Output!Held(output_queue') \in {Output!Held(output_queue), Output!Held(output_queue) + 1}
    BY <1>1, <1>3, <2>2, OutputRing DEF MainInputs
  <2>4. Output!Held(output_queue) \in 0 .. OUTPUT_QUEUE_SIZE - 1
    BY <1>1, OutputRing
  <2>5. Output!Held(output_queue') <= 2 /\ pc' = "launch"
    BY <1>2, <1>3, <2>3, <2>4, DriverAssumption DEF MainInputs, Main
  <2> QED BY <2>5 DEF Left
<1>4. CASE ~ ready.muxin
  BY <1>4, <1>2 DEF Left, MainInputs, Main
<1> QED BY <1>3, <1>4

LEMMA LeftLaunch ==
    ASSUME Typed, Sending, Left, MainLaunches
    PROVE  Left'
<1>1. output_queue \in Output!Ring
  BY DEF Typed, DriverTypeOK
<1> DEFINE H == Output!Held(output_queue)
           N == Output!Numitems(output_queue)
<1>2. H \in Nat /\ H <= 2 /\ N \in {H, H - 1}
  BY <1>1, OutputRing, DriverAssumption DEF Left
<1>3. Output!IsEmpty(output_queue) <=> H = 0
  BY <1>1, OutputRing
<1> HIDE DEF H, N
<1>4. CASE N > 0 /\ ~ Output!IsEmpty(output_queue)
  <2>1. Output!Held(Output!PullPacket(output_queue)) = H - 1
    BY <1>1, <1>4, OutputRing DEF H
  <2>2. CanInitiateSend
    BY DEF Sending, CanInitiateSend, MainLaunches, Main, SignalBlocked
  <2>3. Output!Held(output_queue') = H - 1
    BY <1>4, <2>1, <2>2 DEF MainLaunches, InitiateSend, N
  <2>4. Output!Held(output_queue') <= 1 /\ Output!Held(output_queue') <= 2
    BY <1>2, <2>3
  <2> QED BY <2>4 DEF Left
<1>5. CASE ~ (N > 0 /\ ~ Output!IsEmpty(output_queue))
  <2>1. H <= 1
    BY <1>2, <1>3, <1>5
  <2>2. output_queue' = output_queue
    BY <1>5 DEF MainLaunches, N
  <2> QED BY <2>1, <2>2 DEF Left, H
<1> QED BY <1>4, <1>5

LEMMA LeftHearsWriter ==
    ASSUME Typed, Sending, Left, HandlerHearsWriter
    PROVE  Left'
<1>1. output_queue \in Output!Ring
  BY DEF Typed, DriverTypeOK
<1>2. pc' = pc \/ pc' = "misfired"
  BY DEF HandlerHearsWriter
<1>3. pc # "launch" /\ Output!Held(output_queue) <= 1
  BY DEF Left, Sending, HandlerHearsWriter, SignalBlocked
<1>4. Output!Held(output_queue') <= Output!Held(output_queue)
  <2>1. CASE output_queue' = output_queue
    BY <1>1, <2>1, OutputRing, DriverAssumption
  <2>2. CASE ~ Output!IsEmpty(output_queue) /\ InitiateSend
    BY <1>1, <2>2, OutputRing, DriverAssumption DEF InitiateSend
  <2> QED BY <2>1, <2>2 DEF HandlerHearsWriter
<1>5. /\ Output!Held(output_queue) \in Nat
      /\ output_queue' \in Output!Ring
  <2>1. CASE output_queue' = output_queue
    BY <1>1, <2>1, OutputRing, DriverAssumption
  <2>2. CASE ~ Output!IsEmpty(output_queue) /\ InitiateSend
    BY <1>1, <2>2, OutputRing, DriverAssumption DEF InitiateSend
  <2> QED BY <2>1, <2>2 DEF HandlerHearsWriter
<1>6. Output!Held(output_queue') \in Nat
  BY <1>5, OutputRing, DriverAssumption
<1> QED BY <1>3, <1>4, <1>5, <1>6 DEF Left

LEMMA LeftOthers ==
    ASSUME Left, [Next]_vars, ~ MainInputs, ~ MainLaunches, ~ HandlerHearsWriter
    PROVE  Left'
<1>1. UNCHANGED output_queue /\ (pc # "launch" \/ pc' = "launch")
  <2> USE DEF Main, queues, main
  <2>1. CASE MainNext
    BY <2>1 DEF MainNext, MainStarts, MainChecks, MainWaits, MainSelects,
       MainBlocksSignal, MainOutputs, MainWrites, MainUnblocksSignal
  <2>2. CASE HandlerNext
    BY <2>2 DEF HandlerNext, HandlerStarts, HandlerReturns, HandlerReceives, HandlerWrites
  <2>3. CASE ReaderWrites \/ ReaderSignals \/ MuxWrites \/ MuxReads
    BY <2>3 DEF ReaderWrites, ReaderSignals, MuxWrites, MuxReads
  <2>4. CASE WriterNext
    BY <2>4 DEF WriterNext, WriterReads, WriterDiscards, WriterLaunches, WriterReports
  <2>5. CASE UNCHANGED vars
    BY <2>5 DEF vars
  <2> QED BY <2>1, <2>2, <2>3, <2>4, <2>5 DEF Next
<1> QED BY <1>1 DEF Left

LEMMA LeftInit == Init => Left
<1> SUFFICES ASSUME Init PROVE Left
  OBVIOUS
<1>1. Typed
  BY TypedInit
<1>2. Output!Held(output_queue) = 0
  BY <1>1, OutputRing DEF Init, Output!EmptyRing, Output!IsEmpty, Typed, DriverTypeOK
<1> QED BY <1>2 DEF Left

\* However often Numitems is one too low (raw_ethernet_packet_buffer.cc), no more than
\* one packet of the mux stays in the output queue when the main loop waits.
THEOREM LeftBehindCorrect == Spec => []OneLeftBehind
<1>1. Left => OneLeftBehind
  BY DEF Left, OneLeftBehind
<1>2. Typed /\ Sending /\ Left /\ [Next]_vars => Left'
  BY LeftInput, LeftLaunch, LeftHearsWriter, LeftOthers
<1> QED BY <1>1, <1>2, LeftInit, TypedInit, TypedStep, SendingInit, SendingStep, PTL
        DEF Spec

----------------------------------------------------------------------------
(* Packets are numbered in the order they come *)

\* s holds the last Len(s) of the packets 1 .. n, in order.
Latest(s, n) ==
    /\ s \in Seq(Nat) /\ Len(s) <= n
    /\ \A i \in 1 .. Len(s) : s[i] = n - Len(s) + i

LEMMA LatestGrows ==
    ASSUME NEW n \in Nat, NEW s, Latest(s, n)
    PROVE  Latest(Append(s, n + 1), n + 1)
<1> DEFINE t == Append(s, n + 1)
<1>1. s \in Seq(Nat) /\ Len(s) \in Nat /\ n + 1 \in Nat
  BY DEF Latest
<1>2. t \in Seq(Nat) /\ Len(t) = Len(s) + 1
  BY <1>1, Appends
<1>3. \A i \in 1 .. Len(t) : t[i] = IF i <= Len(s) THEN s[i] ELSE n + 1
  BY <1>1, <1>2
<1> HIDE DEF t
<1>4. Len(t) <= n + 1
  BY <1>1, <1>2 DEF Latest
<1>5. ASSUME NEW i \in 1 .. Len(t) PROVE t[i] = n + 1 - Len(t) + i
  <2>1. i \in Nat /\ i >= 1 /\ i <= Len(s) + 1
    BY <1>1, <1>2
  <2>2. t[i] = IF i <= Len(s) THEN s[i] ELSE n + 1
    BY <1>3
  <2>3. CASE i <= Len(s)
    <3>1. i \in 1 .. Len(s)
      BY <1>1, <2>1, <2>3
    <3>2. s[i] = n - Len(s) + i
      BY <3>1 DEF Latest
    <3>3. t[i] = n - Len(s) + i
      BY <2>2, <2>3, <3>2
    <3> QED BY <1>1, <1>2, <2>1, <3>3
  <2>4. CASE i = Len(s) + 1
    <3>1. t[i] = n + 1
      BY <1>1, <2>1, <2>2, <2>4
    <3> QED BY <1>1, <1>2, <2>4, <3>1
  <2> QED BY <1>1, <2>1, <2>3, <2>4
<1>6. Latest(t, n + 1)
  BY <1>2, <1>4, <1>5 DEF Latest
<1> QED BY <1>6 DEF t

LEMMA LatestShrinks ==
    ASSUME NEW n \in Nat, NEW s, Latest(s, n), s # <<>>
    PROVE  /\ Latest(Tail(s), n)
           /\ Head(s) = n - Len(s) + 1
           /\ Head(s) \in Nat
           /\ Len(Tail(s)) = Len(s) - 1
           /\ Len(s) \in 1 .. n
<1> DEFINE t == Tail(s)
<1>1. s \in Seq(Nat) /\ Len(s) \in Nat \ {0} /\ Len(s) <= n
  BY Tails DEF Latest
<1>2. t \in Seq(Nat) /\ Len(t) = Len(s) - 1 /\ Head(s) = s[1]
  BY <1>1, Tails
<1>3. \A i \in 1 .. Len(t) : t[i] = s[i + 1]
  BY <1>1, <1>2
<1> HIDE DEF t
<1>4. Len(t) <= n
  BY <1>1, <1>2
<1>5. ASSUME NEW i \in 1 .. Len(t) PROVE t[i] = n - Len(t) + i
  <2>1. i + 1 \in 1 .. Len(s)
    BY <1>1, <1>2
  <2>2. t[i] = n - Len(s) + (i + 1)
    BY <1>3, <2>1 DEF Latest
  <2> QED BY <1>1, <1>2, <2>2
<1>6. Latest(t, n)
  BY <1>2, <1>4, <1>5 DEF Latest
<1>7. Head(s) = n - Len(s) + 1
  BY <1>1, <1>2 DEF Latest
<1> QED BY <1>1, <1>2, <1>6, <1>7 DEF t

\* What waits in a pipe is what came last.
Numbered == Latest(incoming, arrived) /\ Latest(muxin, handed)

\* The steps that touch the input ring or the packets that come to it.
LEMMA InputSources ==
    ASSUME [Next]_vars
    PROVE  \/ UNCHANGED <<arrived, incoming, input_queue>>
           \/ ReaderWrites \/ HandlerReceives \/ MainOutputs
<1> USE DEF Main, queues, main, reader, mux
<1>1. CASE MainNext
  BY <1>1 DEF MainNext, MainStarts, MainChecks, MainWaits, MainSelects,
     MainBlocksSignal, MainInputs, MainLaunches, MainWrites, MainUnblocksSignal
<1>2. CASE HandlerNext
  BY <1>2 DEF HandlerNext, HandlerStarts, HandlerReturns, HandlerHearsWriter,
     HandlerWrites
<1>3. CASE ReaderWrites \/ ReaderSignals \/ MuxWrites \/ MuxReads
  BY <1>3 DEF ReaderSignals, MuxWrites, MuxReads
<1>4. CASE WriterNext
  BY <1>4 DEF WriterNext, WriterReads, WriterDiscards, WriterLaunches, WriterReports
<1>5. CASE UNCHANGED vars
  BY <1>5 DEF vars
<1> QED BY <1>1, <1>2, <1>3, <1>4, <1>5 DEF Next

\* The steps that touch the output ring or the packets that come to it.
LEMMA OutputSources ==
    ASSUME [Next]_vars
    PROVE  \/ UNCHANGED <<handed, muxin, output_queue>>
           \/ MuxWrites \/ MainInputs \/ MainLaunches \/ HandlerHearsWriter
<1> USE DEF Main, queues, main, reader, mux
<1>1. CASE MainNext
  BY <1>1 DEF MainNext, MainStarts, MainChecks, MainWaits, MainSelects,
     MainBlocksSignal, MainOutputs, MainWrites, MainUnblocksSignal
<1>2. CASE HandlerNext
  BY <1>2 DEF HandlerNext, HandlerStarts, HandlerReturns, HandlerReceives,
     HandlerWrites
<1>3. CASE ReaderWrites \/ ReaderSignals \/ MuxWrites \/ MuxReads
  BY <1>3 DEF ReaderWrites, ReaderSignals, MuxReads
<1>4. CASE WriterNext
  BY <1>4 DEF WriterNext, WriterReads, WriterDiscards, WriterLaunches, WriterReports
<1>5. CASE UNCHANGED vars
  BY <1>5 DEF vars
<1> QED BY <1>1, <1>2, <1>3, <1>4, <1>5 DEF Next

LEMMA NumberedStep ==
    ASSUME Typed, Numbered, [Next]_vars
    PROVE  Numbered'
<1>1. arrived \in Nat /\ handed \in Nat
  BY DriverAssumption DEF Typed, DriverTypeOK
<1>2. Latest(incoming, arrived)'
  <2>1. CASE UNCHANGED <<incoming, arrived>>
    BY <2>1 DEF Numbered
  <2>2. CASE ReaderWrites
    BY <1>1, <2>2, LatestGrows DEF ReaderWrites, Numbered
  <2>3. CASE HandlerReceives /\ pc # "start"
    BY <1>1, <2>3, LatestShrinks DEF HandlerReceives, Numbered
  <2>4. CASE HandlerReceives /\ pc = "start"
    BY <2>1, <2>4 DEF HandlerReceives
  <2>5. CASE MainOutputs
    BY <2>1, <2>5 DEF MainOutputs, reader
  <2> QED BY <2>1, <2>2, <2>3, <2>4, <2>5, InputSources
<1>3. Latest(muxin, handed)'
  <2>1. CASE UNCHANGED <<muxin, handed>>
    BY <2>1 DEF Numbered
  <2>2. CASE MuxWrites
    BY <1>1, <2>2, LatestGrows DEF MuxWrites, Numbered
  <2>3. CASE MainInputs /\ ready.muxin
    <3>1. muxin # <<>>
      BY <2>3 DEF MainInputs, Main, Typed, StillReady
    <3> QED BY <1>1, <2>3, <3>1, LatestShrinks DEF MainInputs, Numbered
  <2>4. CASE MainInputs /\ ~ ready.muxin
    BY <2>1, <2>4 DEF MainInputs
  <2>5. CASE MainLaunches \/ HandlerHearsWriter
    BY <2>1, <2>5 DEF MainLaunches, HandlerHearsWriter, mux
  <2> QED BY <2>1, <2>2, <2>3, <2>4, <2>5, OutputSources
<1> QED BY <1>2, <1>3 DEF Numbered

LEMMA NumberedInit == Init => Numbered
<1>1. <<>> \in Seq(Nat) /\ Len(<<>>) = 0
  OBVIOUS
<1>2. Latest(<<>>, 0)
  BY <1>1 DEF Latest
<1> QED BY <1>2 DEF Init, Numbered

----------------------------------------------------------------------------
(* The rings implement DropTailQueue *)

\* A packet that comes to the ring is the next in order; it is kept, or lost
\* because the ring is full.
LEMMA InputComes ==
    ASSUME Typed, Numbered, HandlerReceives, pc # "start"
    PROVE  InputQueue!Keep \/ InputQueue!Lose
<1> DEFINE C  == Input!Contents(input_queue)
           C1 == Input!Contents(input_queue')
           o  == arrived - Len(incoming)
           o1 == arrived' - Len(incoming')
<1>1. /\ input_queue \in Input!Ring /\ arrived \in Nat /\ arrived' = arrived
      /\ incoming # <<>> /\ Latest(incoming, arrived) /\ incoming' = Tail(incoming)
      /\ input_queue' = Input!PushPacket(input_queue, Head(incoming))
  BY DriverAssumption DEF Typed, DriverTypeOK, Numbered, HandlerReceives
<1>2. /\ Head(incoming) = o + 1 /\ Head(incoming) \in Nat
      /\ Len(incoming') = Len(incoming) - 1 /\ Len(incoming) \in 1 .. arrived
  BY <1>1, LatestShrinks
<1>3. o1 = o + 1
  BY <1>1, <1>2
<1>4. /\ Len(C) = Input!Held(input_queue)
      /\ Input!Held(input_queue) \in 0 .. INPUT_QUEUE_SIZE - 1
      /\ \/ Input!Held(input_queue) = INPUT_QUEUE_SIZE - 1 /\ input_queue' = input_queue
         \/ /\ Input!Held(input_queue) < INPUT_QUEUE_SIZE - 1
            /\ C1 = Append(C, Head(incoming))
  BY <1>1, <1>2, InputRing
<1> HIDE DEF C, C1, o, o1
<1>5. CASE Len(C) = INPUT_QUEUE_SIZE - 1 /\ C1 = C
  BY <1>3, <1>5 DEF InputQueue!Lose, C, C1, o, o1
<1>6. CASE Len(C) < INPUT_QUEUE_SIZE - 1 /\ C1 = Append(C, o + 1)
  BY <1>3, <1>6 DEF InputQueue!Keep, C, C1, o, o1
<1> QED BY <1>2, <1>4, <1>5, <1>6 DEF C, C1

LEMMA InputStep ==
    ASSUME Typed, Numbered, [Next]_vars
    PROVE  [InputQueue!Next]_<<Input!Contents(input_queue), arrived - Len(incoming)>>
<1>1. CASE UNCHANGED <<arrived, incoming, input_queue>>
  BY <1>1
<1>2. CASE ReaderWrites
  <2>1. /\ Latest(incoming, arrived) /\ arrived \in Nat
        /\ arrived' = arrived + 1 /\ incoming' = Append(incoming, arrived + 1)
    BY <1>2, DriverAssumption DEF ReaderWrites, Typed, DriverTypeOK, Numbered
  <2>2. Len(incoming') = Len(incoming) + 1 /\ Len(incoming) \in Nat
    BY <2>1, Appends DEF Latest
  <2>3. arrived' - Len(incoming') = arrived - Len(incoming)
    BY <2>1, <2>2
  <2>4. input_queue' = input_queue
    BY <1>2 DEF ReaderWrites, queues
  <2> QED BY <2>3, <2>4
<1>3. CASE HandlerReceives /\ pc # "start"
  BY <1>3, InputComes DEF InputQueue!Next
<1>4. CASE HandlerReceives /\ pc = "start"
  BY <1>1, <1>4 DEF HandlerReceives
<1>5. CASE MainOutputs
  <2>1. UNCHANGED <<arrived, incoming>> /\ input_queue \in Input!Ring
    BY <1>5 DEF MainOutputs, reader, Typed, DriverTypeOK
  <2>2. CASE ready.muxout /\ ~ Input!IsEmpty(input_queue)
    <3>1. /\ Input!Contents(input_queue) # <<>>
          /\ Input!Contents(input_queue') = Tail(Input!Contents(input_queue))
      BY <1>5, <2>1, <2>2, InputRing DEF MainOutputs
    <3> QED BY <2>1, <3>1 DEF InputQueue!Next, InputQueue!Get
  <2>3. CASE ~ (ready.muxout /\ ~ Input!IsEmpty(input_queue))
    BY <1>1, <1>5, <2>1, <2>3 DEF MainOutputs
  <2> QED BY <2>2, <2>3
<1> QED BY <1>1, <1>2, <1>3, <1>4, <1>5, InputSources

LEMMA InputInit == Init => InputQueue!Init
<1> SUFFICES ASSUME Init PROVE InputQueue!Init
  OBVIOUS
<1>1. input_queue \in Input!Ring
  BY TypedInit DEF Typed, DriverTypeOK
<1>2. Input!Held(input_queue) = 0
  BY <1>1, InputRing DEF Init, Input!EmptyRing, Input!IsEmpty
<1>3. /\ Input!Contents(input_queue) \in Seq(Nat)
      /\ Len(Input!Contents(input_queue)) = 0
  BY <1>1, <1>2, InputRing
<1>4. Input!Contents(input_queue) = <<>>
  BY <1>3
<1>5. arrived - Len(incoming) = 0
  <2>1. Len(<<>>) = 0
    OBVIOUS
  <2>2. arrived = 0 /\ incoming = <<>>
    BY DEF Init
  <2>3. arrived = 0 /\ Len(incoming) = 0
    BY <2>1, <2>2, Zenon
  <2> QED BY <2>3
<1> QED BY <1>4, <1>5 DEF InputQueue!Init

\* The input ring (raw_ethernet_packet_buffer.cc), filled by the signal handler and
\* emptied by the main loop, is a queue that loses packets only when it is full.
THEOREM InputCorrect == Spec => InputIsQueue
<1> QED BY InputInit, InputStep, TypedInit, TypedStep, NumberedInit, NumberedStep,
           SendingInit, SendingStep, PTL DEF Spec, InputIsQueue, InputQueue!Spec

\* The main loop and the handler take packets from the output ring the same way.
LEMMA OutputTaken ==
    ASSUME Typed, ~ Output!IsEmpty(output_queue), InitiateSend, UNCHANGED <<handed, muxin>>
    PROVE  OutputQueue!Get
<1>1. output_queue \in Output!Ring
  BY DEF Typed, DriverTypeOK
<1>2. /\ Output!Contents(output_queue) # <<>>
      /\ Output!Contents(output_queue') = Tail(Output!Contents(output_queue))
  BY <1>1, OutputRing DEF InitiateSend
<1> QED BY <1>2 DEF OutputQueue!Get

LEMMA OutputComes ==
    ASSUME Typed, Numbered, MainInputs, ready.muxin
    PROVE  OutputQueue!Keep \/ OutputQueue!Lose
<1> DEFINE C  == Output!Contents(output_queue)
           C1 == Output!Contents(output_queue')
           o  == handed - Len(muxin)
           o1 == handed' - Len(muxin')
<1>1. /\ output_queue \in Output!Ring /\ handed \in Nat /\ handed' = handed
      /\ muxin # <<>> /\ Latest(muxin, handed) /\ muxin' = Tail(muxin)
      /\ output_queue' = Output!PushPacket(output_queue, Head(muxin))
  BY DriverAssumption DEF Typed, DriverTypeOK, StillReady, Numbered, MainInputs, Main
<1>2. /\ Head(muxin) = o + 1 /\ Head(muxin) \in Nat
      /\ Len(muxin') = Len(muxin) - 1 /\ Len(muxin) \in 1 .. handed
  BY <1>1, LatestShrinks
<1>3. o1 = o + 1
  BY <1>1, <1>2
<1>4. /\ Len(C) = Output!Held(output_queue)
      /\ Output!Held(output_queue) \in 0 .. OUTPUT_QUEUE_SIZE - 1
      /\ \/ Output!Held(output_queue) = OUTPUT_QUEUE_SIZE - 1 /\ output_queue' = output_queue
         \/ /\ Output!Held(output_queue) < OUTPUT_QUEUE_SIZE - 1
            /\ C1 = Append(C, Head(muxin))
  BY <1>1, <1>2, OutputRing
<1> HIDE DEF C, C1, o, o1
<1>5. CASE Len(C) = OUTPUT_QUEUE_SIZE - 1 /\ C1 = C
  BY <1>3, <1>5 DEF OutputQueue!Lose, C, C1, o, o1
<1>6. CASE Len(C) < OUTPUT_QUEUE_SIZE - 1 /\ C1 = Append(C, o + 1)
  BY <1>3, <1>6 DEF OutputQueue!Keep, C, C1, o, o1
<1> QED BY <1>2, <1>4, <1>5, <1>6 DEF C, C1

LEMMA OutputStep ==
    ASSUME Typed, Numbered, [Next]_vars
    PROVE  [OutputQueue!Next]_<<Output!Contents(output_queue), handed - Len(muxin)>>
<1>1. CASE UNCHANGED <<handed, muxin, output_queue>>
  BY <1>1
<1>2. CASE MuxWrites
  <2>1. /\ Latest(muxin, handed) /\ handed \in Nat
        /\ handed' = handed + 1 /\ muxin' = Append(muxin, handed + 1)
    BY <1>2, DriverAssumption DEF MuxWrites, Typed, DriverTypeOK, Numbered
  <2>2. Len(muxin') = Len(muxin) + 1 /\ Len(muxin) \in Nat
    BY <2>1, Appends DEF Latest
  <2>3. handed' - Len(muxin') = handed - Len(muxin)
    BY <2>1, <2>2
  <2>4. output_queue' = output_queue
    BY <1>2 DEF MuxWrites, queues
  <2> QED BY <2>3, <2>4
<1>3. CASE MainInputs /\ ready.muxin
  BY <1>3, OutputComes DEF OutputQueue!Next
<1>4. CASE MainInputs /\ ~ ready.muxin
  BY <1>1, <1>4 DEF MainInputs
<1>5. CASE MainLaunches \/ HandlerHearsWriter
  <2>1. UNCHANGED <<handed, muxin>>
    BY <1>5 DEF MainLaunches, HandlerHearsWriter, mux
  <2>2. \/ UNCHANGED output_queue
        \/ ~ Output!IsEmpty(output_queue) /\ InitiateSend
    BY <1>5 DEF MainLaunches, HandlerHearsWriter
  <2> QED BY <1>1, <2>1, <2>2, OutputTaken DEF OutputQueue!Next
<1> QED BY <1>1, <1>2, <1>3, <1>4, <1>5, OutputSources

LEMMA OutputInit == Init => OutputQueue!Init
<1> SUFFICES ASSUME Init PROVE OutputQueue!Init
  OBVIOUS
<1>1. output_queue \in Output!Ring
  BY TypedInit DEF Typed, DriverTypeOK
<1>2. Output!Held(output_queue) = 0
  BY <1>1, OutputRing DEF Init, Output!EmptyRing, Output!IsEmpty
<1>3. /\ Output!Contents(output_queue) \in Seq(Nat)
      /\ Len(Output!Contents(output_queue)) = 0
  BY <1>1, <1>2, OutputRing
<1>4. Output!Contents(output_queue) = <<>>
  BY <1>3
<1>5. handed - Len(muxin) = 0
  <2>1. Len(<<>>) = 0
    OBVIOUS
  <2>2. handed = 0 /\ muxin = <<>>
    BY DEF Init
  <2>3. handed = 0 /\ Len(muxin) = 0
    BY <2>1, <2>2, Zenon
  <2> QED BY <2>3
<1> QED BY <1>4, <1>5 DEF OutputQueue!Init

\* The output ring, filled by the main loop and emptied by the main loop and by the
\* handler that may interrupt it, is a queue that loses packets only when it is full.
THEOREM OutputCorrect == Spec => OutputIsQueue
<1> QED BY OutputInit, OutputStep, TypedInit, TypedStep, NumberedInit, NumberedStep,
           SendingInit, SendingStep, PTL DEF Spec, OutputIsQueue, OutputQueue!Spec
=============================================================================
