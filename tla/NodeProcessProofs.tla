-------------------------- MODULE NodeProcessProofs --------------------------
(***************************************************************************)
(* The poll loop, the inbound thread and the main task never call the      *)
(* consensus library after it was freed, for any sizes of the queues, any  *)
(* peers and packets and any requests.                                     *)
(*                                                                         *)
(* The invariant says where the main task must be for the library to run,  *)
(* and that the two threads are there only between the steps that start    *)
(* them and the join: the order of the steps of the shutdown.              *)
(***************************************************************************)
EXTENDS NodeProcess, TLAPS

BeforeThreads == {"library", "servers", "catchup", "threads"}

AfterJoin == {"bakeoff_check", "bakeoff_library", "bakeoff_flag", "free", "exit", "done"}

Freed == {"exit", "done"}

Inv ==
    /\ main \notin Freed \cup {"library", "failed"} => library = "running"
    /\ main \in BeforeThreads => inbound.at = "off"
    /\ main \in BeforeThreads \cup {"poll"} => poll.at = "off"
    /\ main \in AfterJoin => inbound.at = "ended" /\ poll.at = "ended"
    /\ OwnThreadsQuiet

LEMMA InitInv == Init => Inv
BY DEF Init, QueuesInit, Off, Inv, BeforeThreads, AfterJoin, Freed, OwnThreadsQuiet

\* A call that finds the library running is not late, and neither the tasks of the
\* servers nor the one that stops the import is among the callers that must be quiet.
LEMMA Calls ==
    ASSUME OwnThreadsQuiet, NEW who, CallLibrary(who),
           library = "running" \/ who \in {"task", "import"}
    PROVE  OwnThreadsQuiet'
BY DEF OwnThreadsQuiet, CallLibrary

\* The main task.
LEMMA MainInv ==
    ASSUME Inv, Main
    PROVE  Inv'
<1> USE DEF Inv, BeforeThreads, AfterJoin, Freed, Goto
<1>1. CASE start_consensus_layer
  BY <1>1 DEF start_consensus_layer, OwnThreadsQuiet
<1>2. CASE start_servers
  BY <1>2 DEF start_servers, OwnThreadsQuiet, queueVars
<1>3. CASE import_missing_blocks
  <2>1. OwnThreadsQuiet'
    <3>1. library = "running" /\ (CallLibrary("main") \/ UNCHANGED late)
      BY <1>3 DEF import_missing_blocks
    <3>2. CASE CallLibrary("main")
      BY <3>1, <3>2, Calls
    <3> QED
      BY <3>1, <3>2 DEF OwnThreadsQuiet
  <2> QED
    BY <1>3, <2>1 DEF import_missing_blocks
<1>4. CASE start_consensus_message_threads
  BY <1>4 DEF start_consensus_message_threads, OwnThreadsQuiet
<1>5. CASE spawn
  BY <1>5 DEF spawn, OwnThreadsQuiet, queueVars
<1>6. CASE start_baker
  <2>1. OwnThreadsQuiet'
    <3>1. library = "running" /\ (CallLibrary("main") \/ UNCHANGED late)
      BY <1>6 DEF start_baker, StartBaker
    <3>2. CASE CallLibrary("main")
      BY <3>1, <3>2, Calls
    <3> QED
      BY <3>1, <3>2 DEF OwnThreadsQuiet
  <2> QED
    BY <1>6, <2>1 DEF start_baker
<1>7. CASE Wait
  BY <1>7 DEF Wait, OwnThreadsQuiet, queueVars
<1>8. CASE StopRpc \/ shutdown
  BY <1>8 DEF StopRpc, shutdown, StopServer, OwnThreadsQuiet, queueVars
<1>9. CASE close
  BY <1>9 DEF close, StopOrder, OwnThreadsQuiet
<1>10. CASE join
  BY <1>10 DEF join, OwnThreadsQuiet, queueVars
<1>11. CASE stop_baker
  <2>1. OwnThreadsQuiet'
    <3>1. library = "running" /\ (CallLibrary("main") \/ UNCHANGED late)
      BY <1>11 DEF stop_baker, StopBaker
    <3>2. CASE CallLibrary("main")
      BY <3>1, <3>2, Calls
    <3> QED
      BY <3>1, <3>2 DEF OwnThreadsQuiet
  <2> QED
    BY <1>11, <2>1 DEF stop_baker
<1>12. CASE stop
  BY <1>12 DEF stop, OwnThreadsQuiet
<1>13. CASE stop_haskell
  BY <1>13 DEF stop_haskell, OwnThreadsQuiet
<1> QED
  BY <1>1, <1>2, <1>3, <1>4, <1>5, <1>6, <1>7, <1>8, <1>9, <1>10, <1>11, <1>12, <1>13 DEF Main

\* The poll loop runs between spawn and join only.
LEMMA PollInv ==
    ASSUME Inv, PollStep, ~Exited
    PROVE  Inv'
<1>1. poll.at \in {"check", "events"} \/ PollQueue
  BY DEF PollStep, PollCheck, PollRead, PollRoundEnds
<1>2. CASE PollQueue
  BY <1>2 DEF PollQueue, handle_pkt_out, processVars, Inv, OwnThreadsQuiet
<1>3. CASE poll.at \in {"check", "events"} /\ ~PollQueue
  <2>1. main \notin BeforeThreads \cup AfterJoin \cup {"poll", "failed"} /\ library = "running"
    BY <1>3 DEF Inv, BeforeThreads, AfterJoin, Freed, Exited
  <2>2. UNCHANGED <<main, library>> /\ (CallLibrary("poll") \/ UNCHANGED late)
    BY <1>3 DEF PollStep, PollCheck, PollRead, PollRoundEnds, process_message, queueVars
  <2>3. OwnThreadsQuiet'
    <3>1. CASE CallLibrary("poll")
      BY <2>1, <3>1, Calls DEF Inv
    <3> QED
      BY <2>2, <3>1 DEF Inv, OwnThreadsQuiet
  <2> QED
    BY <2>1, <2>2, <2>3 DEF Inv
<1> QED
  BY <1>1, <1>2, <1>3

\* So does the inbound thread.
LEMMA InboundInv ==
    ASSUME Inv, Inbound, UNCHANGED <<serverVars, processVars>>, ~Exited
    PROVE  Inv'
<1>1. inbound.at \in {"select", "drain", "call", "sending", "answer", "execute"}
  BY DEF Inbound, InboundLoop, Taken, FoundNone, InboundCallback, handle_consensus_inbound_msg,
         execute_block
<1>2. main \notin BeforeThreads \cup AfterJoin \cup {"failed"} /\ library = "running"
  BY <1>1 DEF Inv, BeforeThreads, AfterJoin, Freed, Exited
<1>3. UNCHANGED <<main, poll, library>> /\ (CallLibrary("inbound") \/ UNCHANGED late)
  BY DEF Inbound, InboundLoop, InboundCallback, handle_consensus_inbound_msg, execute_block,
         processVars
<1>4. OwnThreadsQuiet'
  <2>1. CASE CallLibrary("inbound")
    BY <1>2, <2>1, Calls DEF Inv
  <2> QED
    BY <1>3, <2>1 DEF Inv, OwnThreadsQuiet
<1> QED
  BY <1>2, <1>3, <1>4 DEF Inv

\* The servers' tasks may call the library late, which the property does not forbid.
LEMMA TaskInv ==
    ASSUME Inv, Client \/ TaskStep \/ NotifyBlock \/ BakerSends, UNCHANGED processVars
    PROVE  Inv'
<1>1. UNCHANGED <<inbound, library>> /\ (CallLibrary("task") \/ UNCHANGED late)
  <2>1. CASE Client
    BY <2>1 DEF Client, call_consensus, unary_endpoint, stream_endpoint, get_instance_state,
       get_blocks, TransactionRequest, BakerRequest, ShutdownRequest, ClientReads, ClientLeaves,
       queueVars
  <2>2. CASE RequireFails \/ QueryLibrary \/ enqueueProtoMessages \/ SendState \/ StreamEnds
    BY <2>2 DEF RequireFails, QueryLibrary, enqueueProtoMessages, SendState, StreamEnds, queueVars
  <2>3. CASE send_transaction \/ BakerTask \/ CloseTask
    BY <2>3 DEF send_transaction, BakerTask, CloseTask, StartBaker, StopBaker
  <2>4. CASE NotifyBlock \/ BakerSends
    BY <2>4 DEF NotifyBlock, BakerSends, queueVars
  <2> QED
    BY <2>1, <2>2, <2>3, <2>4 DEF TaskStep
<1>2. OwnThreadsQuiet'
  <2>1. CASE CallLibrary("task")
    BY <2>1, Calls DEF Inv
  <2> QED
    BY <1>1, <2>1 DEF Inv, OwnThreadsQuiet
<1> QED
  BY <1>1, <1>2 DEF Inv, processVars

LEMMA NextInv == Inv /\ [Next]_vars => Inv'
<1> SUFFICES ASSUME Inv, [Next]_vars PROVE Inv'
  OBVIOUS
<1>1. ASSUME UNCHANGED <<main, poll, inbound, library, late>>
      PROVE  Inv'
  BY <1>1 DEF Inv, OwnThreadsQuiet
<1>2. CASE \/ ServerDrained \/ get_shutdown_signal \/ ServerFails \/ regenesis_callback
           \/ Outbound /\ UNCHANGED <<serverVars, processVars>>
           \/ UNCHANGED vars
  BY <1>1, <1>2 DEF ServerDrained, get_shutdown_signal, ServerFails, regenesis_callback,
     Outbound, processVars, queueVars, vars
<1>3. CASE stop_importing_blocks
  <2>1. OwnThreadsQuiet'
    BY <1>3, Calls DEF Inv, stop_importing_blocks
  <2> QED
    BY <1>3, <2>1 DEF Inv, stop_importing_blocks
<1> QED
  BY <1>2, <1>3, MainInv, PollInv, InboundInv, TaskInv DEF Next

\* The shutdown of the node leaves none of its own threads, nor the main task, calling
\* the consensus library after ConsensusContainer::stop has freed it: what the
\* comment before stop_haskell asks of the threads that are joined.
THEOREM OwnThreadsQuietHolds == Spec => []OwnThreadsQuiet
<1>1. Inv => OwnThreadsQuiet
  BY DEF Inv
<1> QED
  BY <1>1, InitInv, NextInv, PTL DEF Spec
=============================================================================
