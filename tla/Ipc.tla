-------------------------------- MODULE Ipc ---------------------------------
(* crate `ipc`: channels, composed with the kernel, the processes and the   *)
(* scheduler of Scheduler.tla. A message is the capabilities it carries;    *)
(* its `data` is never looked at and its stamp is Causality.tla's subject.  *)
EXTENDS Scheduler

CONSTANTS
  MaxChannels,   \* bound: channels ever created
  MaxQueue       \* bound: messages waiting in one channel

ASSUME IpcAssumption == {MaxChannels, MaxQueue} \subseteq Nat

VARIABLES
  queues   \* `ChannelRegistry.queues`; `moved` marks what a `Move` put there (history)

ipcVars == <<vars, queues>>

IpcInit == Init /\ queues = Empty

ChannelRights == {"READ", "WRITE", "GRANT", "DESTROY"}

\* `new_channel`, and the creator installs the capability.
NewChannel(p) ==
  /\ Cardinality(DOMAIN queues) < MaxChannels
  /\ NewObject(p, ChannelRights)
  /\ queues' = Extended(queues, next_id, <<>>)

MovedIn(grants) == {k \in DOMAIN grants : grants[k].kind = "Move"}

\* What a caller of `send` is told before the batch is looked at.
SendVerdict(channel) ==
  LET verdict == check(epochs, channel, {"WRITE"})
  IN  IF verdict = "Ok" /\ channel.object \notin DOMAIN queues THEN "UnknownChannel" ELSE verdict

\* `send` succeeds: the channel is checked first, the batch only then.
CanSend(channel) == SendVerdict(channel) = "Ok"

\* Mutant: the message carries the placeholders `resolve_grants` returned.
Send_placeholders(p, channel, grants) ==
  /\ CanSend(channel)
  /\ Len(queues[channel.object]) < MaxQueue
  /\ WithinEpochs(p, grants)
  /\ ValidBatch(epochs, tables[p], grants)
  /\ epochs' = AfterBatch(epochs, tables[p], grants)
  /\ tables' = [tables EXCEPT ![p] = Remaining(@, grants)]
  /\ queues' = [queues EXCEPT ![channel.object] =
                  Append(@, [caps |-> [k \in DOMAIN grants |-> tables[p][grants[k].handle]],
                             moved |-> MovedIn(grants)])]
  /\ issued' = issued + Derivations(grants)
  /\ UNCHANGED <<next_id, next_process_id, next_handle, ready_queue, known>>

Send(p, channel, grants) ==
  /\ CanSend(channel)
  /\ Len(queues[channel.object]) < MaxQueue
  /\ WithinEpochs(p, grants)
  /\ ValidBatch(epochs, tables[p], grants)
  /\ epochs' = AfterBatch(epochs, tables[p], grants)
  /\ tables' = [tables EXCEPT ![p] = Remaining(@, grants)]
  /\ queues' = [queues EXCEPT ![channel.object] =
                  Append(@, [caps |-> Delivered(epochs, tables[p], grants),
                             moved |-> MovedIn(grants)])]
  /\ issued' = issued + Derivations(grants)
  /\ UNCHANGED <<next_id, next_process_id, next_handle, ready_queue, known>>

\* Mutant: the registry alone decides, and it still has the queue.
CanReceive_registryOnly(channel) ==
  /\ "READ" \in channel.rights
  /\ channel.object \in DOMAIN queues

CanReceive(channel) ==
  /\ Permits(epochs, channel, {"READ"})
  /\ channel.object \in DOMAIN queues

\* An empty queue is `Ok(None)`: nothing changes, so there is no step.
Receive(p, channel) ==
  LET queue == queues[channel.object]
      caps == Head(queue).caps
  IN
  /\ CanReceive(channel)
  /\ queue # <<>>
  /\ HasRoom(next_handle[p], Len(caps))
  /\ queues' = [queues EXCEPT ![channel.object] = Tail(@)]
  /\ tables' = [tables EXCEPT ![p] = Granted(@, next_handle[p], caps)]
  /\ next_handle' = [next_handle EXCEPT ![p] = NextHandle(@, caps)]
  /\ known' = [known EXCEPT ![p] = @ \union SetOf(caps)]
  /\ UNCHANGED <<next_id, epochs, next_process_id, ready_queue, issued>>

\* Processes act in any order here, the order of their turns among them: the
\* queue position `ScheduleNext` advances is read by no other operation.
IpcNext ==
  \/ Calls /\ UNCHANGED queues
  \/ \E p \in Process : NewChannel(p)
  \/ \E p \in Process : \E channel \in known[p], grants \in Batches(p) : Send(p, channel, grants)
  \/ \E p \in Process : \E channel \in known[p] : Receive(p, channel)

IpcSpec == IpcInit /\ [][IpcNext]_ipcVars

-----------------------------------------------------------------------------
(* Properties *)

\* The places where a capability is in flight: channel, message, position.
InFlight ==
  UNION {UNION {{<<o, m, k>> : k \in DOMAIN queues[o][m].caps} : m \in DOMAIN queues[o]}
           : o \in DOMAIN queues}

CapAt(place) == queues[place[1]][place[2]].caps[place[3]]

IpcTypeOK ==
  /\ TypeOK
  /\ DOMAIN queues \subseteq 0 .. next_id - 1
  /\ \A o \in DOMAIN queues :
       /\ Len(queues[o]) <= MaxQueue
       /\ \A m \in DOMAIN queues[o] :
            /\ queues[o][m].caps \in Seq(Capability(Object))
            /\ queues[o][m].moved \subseteq DOMAIN queues[o][m].caps

\* From `send` until `receive`, a moved capability works, and it is the only one
\* for its object that does, anywhere: no process holds or remembers another, no
\* other message carries one. It holds for a channel moved through itself or
\* through a channel revoked meanwhile, too.
MovedIsSoleAuthority ==
  \A place \in InFlight :
    place[3] \in queues[place[1]][place[2]].moved =>
      LET o == CapAt(place).object IN
      /\ Live(epochs, CapAt(place))
      /\ Holders(o) = {}
      /\ \A other \in InFlight \ {place} :
           CapAt(other).object = o => ~Live(epochs, CapAt(other))

\* Table entries are neither lost nor duplicated by handing them over: those in
\* tables plus those in flight are exactly those ever issued (at boot, in a batch's
\* derivations, and by whatever a process installs itself).
EntriesAreConserved ==
  LET held == UNION {{p} \X DOMAIN tables[p] : p \in Process}
  IN  Cardinality(held) + Cardinality(InFlight) = issued

\* Channels out of everyone's reach: each is destroyed, or no one can use it and
\* what could is itself waiting in one of them (a channel moved through itself or
\* through a lost one, and whatever is moved into it).
Islands ==
  {I \in SUBSET DOMAIN queues :
     \A ch \in I :
       \/ ch \notin DOMAIN epochs
       \/ /\ Holders(ch) = {}
          /\ \A place \in InFlight :
               CapAt(place).object = ch /\ Live(epochs, CapAt(place)) => place[1] \in I}

\* Nothing drops a queue (`queues` only ever grows, lib.rs:59), so what is lost with
\* a channel stays: its messages are never delivered, to no one by any capability
\* old or new, nor is anything added to them; the way back never opens again.
StrandedForever ==
  [][\A I \in Islands : I \in Islands' /\ \A ch \in I : queues'[ch] = queues[ch]]_ipcVars

\* `IpcError::UnknownChannel` is documented as "not a channel this registry
\* created (or it was destroyed)": what a caller is told of a destroyed channel.
DestroyedChannelIsUnknown ==
  \A p \in Process : \A channel \in known[p] :
    channel.object \in DOMAIN queues /\ channel.object \notin DOMAIN epochs
      => SendVerdict(channel) = "UnknownChannel"
=============================================================================
