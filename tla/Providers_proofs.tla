--------------------------- MODULE Providers_proofs ---------------------------
(***************************************************************************)
(* What Providers keeps for any providers, devices, runners and faults.    *)
(***************************************************************************)
EXTENDS Providers, FiniteSetTheorems, TLAPS

Seen == {"online", "degraded", "offline"}

CycleType ==
    [at : {"idle", "probing", "deciding", "found"}, next : DOMAIN Order, off : Switches,
     probed : [Adapters -> States], found : [Adapters -> {NoAnswer} \cup SUBSET Description]]

PollType ==
    [at : {"idle", "reading", "read"}, targets : SUBSET Devices,
     got : UNION {[S -> Seen] : S \in SUBSET Devices}]

(* The device table: only what is switched off is shown as disabled.       *)
TableOK ==
    /\ table \in [Devices -> Record \cup {NoRecord}]
    /\ \A d \in Devices : table[d] # NoRecord =>
          (table[d].status = "disabled" <=> ~table[d].enabled)

MachineOK ==
    /\ there \subseteq Adapters /\ shown \subseteq Devices
    /\ duty \in [Fans -> {"firmware", "ours", "failsafe"}]

CountsOK ==
    /\ stage \in {"running", "releasing", "stopped"}
    /\ targets \subseteq Fans /\ failed \subseteq Fans
    /\ missed \subseteq Fans /\ excused \subseteq Fans
    /\ events \in 0 .. MaxEvents /\ faults \in 0 .. MaxFaults

(* TypeOK, with the shape of a cycle and of a poll: a reading never says    *)
(* that a device is disabled.                                              *)
IInv ==
    /\ MachineOK /\ off \in Switches /\ statuses \in [Adapters -> States] /\ TableOK
    /\ cycle \in [Runners -> CycleType] /\ poll \in PollType /\ CountsOK

(* The adapters are those of the registered order, which is not empty.      *)
LEMMA OrderType ==
    /\ DOMAIN Order = 1 .. Len(Order) /\ Len(Order) \in Nat /\ Len(Order) >= 1
    /\ \A k \in DOMAIN Order : Order[k] \in Adapters
  BY ProvidersAssumption DEF Adapters

LEMMA AdaptersAreFinite == IsFiniteSet(Adapters)
<1>1. Order \in [1 .. Len(Order) -> Adapters]
  <2>1. Order \in Seq(Adapters)
    BY ProvidersAssumption
  <2> QED BY <2>1
<1>2. \A a \in Adapters : \E k \in 1 .. Len(Order) : Order[k] = a
  BY OrderType DEF Adapters
<1>3. Order \in Surjection(1 .. Len(Order), Adapters)
  BY <1>1, <1>2 DEF Surjection
<1>4. IsFiniteSet(1 .. Len(Order))
  BY OrderType, FS_Interval
<1> QED BY <1>3, <1>4, FS_Surjection

(* A device has an adapter that may describe it.                            *)
LEMMA AdapterOfType ==
    ASSUME NEW d \in Devices
    PROVE  AdapterOf(d) \in Adapters
  BY DEF Devices, AdapterOf

(* A scan of an adapter describes its own devices.                          *)
LEMMA DescriptionsType ==
    ASSUME NEW a \in Adapters
    PROVE  Descriptions(a) \subseteq Description
<1>1. Listed(a) \subseteq Devices
  BY DEF Listed, Devices
<1> QED BY <1>1 DEF Descriptions, Description

(* What the second pass stores, whether a scan went well or not.            *)
LEMMA VerdictType ==
    ASSUME NEW c \in CycleType, NEW a \in Adapters, NEW v \in {Verdict(c, a)} \cup Slips(c, a)
    PROVE  v[1] \in States /\ v[2] \in {NoAnswer} \cup SUBSET Description
<1>1. Verdict(c, a)[1] \in States /\ Verdict(c, a)[2] \in {NoAnswer} \cup SUBSET Description
  <2>1. c.probed[a] \in States
    BY DEF CycleType
  <2> QED BY <2>1, DescriptionsType DEF Verdict, States
<1>2. CASE v = Verdict(c, a)
  BY <1>1, <1>2
<1>3. CASE v \in Slips(c, a)
  <2>1. {[x EXCEPT !.control = FALSE] : x \in Descriptions(a)} \subseteq Description
    BY DescriptionsType DEF Description
  <2>2. v \in {<<"degraded", {}>>, <<"error", NoAnswer>>,
               <<Verdict(c, a)[1], {[x EXCEPT !.control = FALSE] : x \in Descriptions(a)}>>}
    BY <1>3 DEF Slips
  <2> QED BY <1>1, <2>1, <2>2 DEF States
<1> QED BY <1>2, <1>3

(* A late status leaves a record in order.                                  *)
LEMMA WithStatusKeeps ==
    ASSUME NEW r \in Record \cup {NoRecord}, NEW status \in Seen,
           r # NoRecord => (r.status = "disabled" <=> ~r.enabled)
    PROVE  /\ WithStatus(r, status) \in Record \cup {NoRecord}
           /\ WithStatus(r, status) # NoRecord =>
                 (WithStatus(r, status).status = "disabled" <=> ~WithStatus(r, status).enabled)
  BY DEF WithStatus, Record, Seen, DeviceStatus

(* So does a new description.                                               *)
LEMMA UpsertedKeeps ==
    ASSUME NEW r \in Record \cup {NoRecord}, NEW disabled \in BOOLEAN, NEW control \in BOOLEAN,
           r # NoRecord => (r.status = "disabled" <=> ~r.enabled)
    PROVE  /\ Upserted(r, disabled, control) \in Record
           /\ Upserted(r, disabled, control).status = "disabled"
                 <=> ~Upserted(r, disabled, control).enabled
  BY DEF Upserted, Record, DeviceStatus

LEMMA InitOK == Init => IInv
<1> SUFFICES ASSUME Init PROVE IInv
  OBVIOUS
<1>1. NoCycle \in CycleType
  BY OrderType DEF NoCycle, CycleType, Switches, States
<1>2. NoPoll \in PollType
  <2>1. <<>> \in [{} -> Seen]
    OBVIOUS
  <2> QED BY <2>1 DEF NoPoll, PollType
<1>3. MachineOK /\ CountsOK
  BY ProvidersAssumption DEF Init, MachineOK, CountsOK
<1>4. off \in Switches /\ statuses \in [Adapters -> States] /\ TableOK
  BY DEF Init, Switches, States, TableOK
<1> QED BY <1>1, <1>2, <1>3, <1>4 DEF Init, IInv

LEMMA CycleKeeps == IInv /\ (\E r \in Runners : Cycle(r)) => IInv'
<1> SUFFICES ASSUME IInv, NEW r \in Runners, Cycle(r) PROVE IInv'
  OBVIOUS
<1> USE DEF IInv
<1>0. cycle[r] \in CycleType
  OBVIOUS
<1>1. CASE CycleStart(r)
  <2>1. cycle' \in [Runners -> CycleType]
    BY <1>0, <1>1 DEF CycleStart, CycleType
  <2>2. CountsOK'
    BY <1>1, ProvidersAssumption DEF CycleStart, CountsOK, exit
  <2> QED BY <1>1, <2>1, <2>2 DEF CycleStart, MachineOK, TableOK, machine
<1>2. At(r) \in Adapters
  BY <1>0, OrderType DEF At, CycleType
<1>3. (IF Last(r) THEN 1 ELSE cycle[r].next + 1) \in DOMAIN Order
  BY <1>0, OrderType DEF Last, CycleType
<1>4. CASE Probe(r)
  <2>1. PICK answer \in States :
          /\ statuses' = [statuses EXCEPT ![At(r)] = answer]
          /\ faults' = faults \/ (faults < MaxFaults /\ faults' = faults + 1)
          /\ cycle' = [cycle EXCEPT
                          ![r].probed[At(r)] = answer,
                          ![r].at = IF Last(r) THEN "deciding" ELSE "probing",
                          ![r].next = IF Last(r) THEN 1 ELSE @ + 1]
    BY <1>4 DEF Probe
  <2>2. cycle' \in [Runners -> CycleType]
    BY <1>0, <1>2, <1>3, <2>1 DEF CycleType
  <2>3. CountsOK'
    BY <1>4, <2>1, ProvidersAssumption DEF Probe, CountsOK, exit
  <2> QED BY <1>2, <1>4, <2>1, <2>2, <2>3 DEF Probe, MachineOK, TableOK, machine
<1>5. CASE Decide(r)
  <2>1. PICK verdict \in {Verdict(cycle[r], At(r))} \cup Slips(cycle[r], At(r)) :
          /\ statuses' = [statuses EXCEPT ![At(r)] = verdict[1]]
          /\ faults' = faults \/ (faults < MaxFaults /\ faults' = faults + 1)
          /\ cycle' = [cycle EXCEPT
                          ![r].probed[At(r)] = verdict[1],
                          ![r].found[At(r)] = verdict[2],
                          ![r].at = IF Last(r) THEN "found" ELSE "deciding",
                          ![r].next = IF Last(r) THEN 1 ELSE @ + 1]
    BY <1>5 DEF Decide
  <2>2. verdict[1] \in States /\ verdict[2] \in {NoAnswer} \cup SUBSET Description
    BY <1>0, <1>2, <2>1, VerdictType
  <2>3. cycle' \in [Runners -> CycleType]
    BY <1>0, <1>2, <1>3, <2>1, <2>2 DEF CycleType
  <2>4. CountsOK'
    BY <1>5, <2>1, ProvidersAssumption DEF Decide, CountsOK, exit
  <2> QED BY <1>2, <1>5, <2>1, <2>2, <2>3, <2>4 DEF Decide, MachineOK, TableOK, machine
<1>6. CASE Reconcile(r)
  <2>1. NoCycle \in CycleType
    BY OrderType DEF NoCycle, CycleType, Switches, States
  <2>2. cycle' \in [Runners -> CycleType]
    BY <1>6, <2>1 DEF Reconcile
  <2>3. ASSUME NEW d \in Devices
        PROVE  /\ table'[d] \in Record \cup {NoRecord}
               /\ table'[d] # NoRecord => (table'[d].status = "disabled" <=> ~table'[d].enabled)
    <3> DEFINE c == cycle[r]  a == AdapterOf(d)
    <3>1. a \in Adapters
      BY AdapterOfType
    <3>2. /\ table[d] \in Record \cup {NoRecord}
          /\ table[d] # NoRecord => (table[d].status = "disabled" <=> ~table[d].enabled)
      BY DEF TableOK
    <3>3. table'[d] =
            IF c.found[a] # NoAnswer
            THEN IF \E x \in c.found[a] : x.device = d
                 THEN Upserted(table[d], d \in c.off.devices,
                               Whole(d) \in c.found[a])
                 ELSE NoRecord
            ELSE IF c.probed[a] \notin Usable THEN WithStatus(table[d], "offline")
            ELSE table[d]
      BY <1>6 DEF Reconcile, Reconciled
    <3>4. ASSUME NEW disabled \in BOOLEAN, NEW control \in BOOLEAN
          PROVE  /\ Upserted(table[d], disabled, control) \in Record
                 /\ Upserted(table[d], disabled, control).status = "disabled"
                       <=> ~Upserted(table[d], disabled, control).enabled
      BY <3>2, UpsertedKeeps
    <3>5. /\ WithStatus(table[d], "offline") \in Record \cup {NoRecord}
          /\ WithStatus(table[d], "offline") # NoRecord =>
                (WithStatus(table[d], "offline").status = "disabled"
                    <=> ~WithStatus(table[d], "offline").enabled)
      BY <3>2, WithStatusKeeps DEF Seen
    <3> HIDE DEF c, a
    <3>6. (d \in c.off.devices) \in BOOLEAN
          /\ (Whole(d) \in c.found[a]) \in BOOLEAN
      OBVIOUS
    <3>7. CASE c.found[a] # NoAnswer /\ \E x \in c.found[a] : x.device = d
      <4>1. table'[d] = Upserted(table[d], d \in c.off.devices,
                                 Whole(d) \in c.found[a])
        BY <3>3, <3>7
      <4> QED BY <3>4, <3>6, <4>1
    <3>8. CASE ~(c.found[a] # NoAnswer /\ \E x \in c.found[a] : x.device = d)
      BY <3>2, <3>3, <3>5, <3>8
    <3> QED BY <3>7, <3>8
  <2>4. TableOK'
    <3>1. DOMAIN table' = Devices /\ table' = [d \in Devices |-> table'[d]]
      BY <1>6 DEF Reconcile, Reconciled
    <3> QED BY <2>3, <3>1 DEF TableOK
  <2> QED BY <1>6, <2>2, <2>4 DEF Reconcile, MachineOK, CountsOK, machine, exit
<1> QED BY <1>1, <1>4, <1>5, <1>6 DEF Cycle

LEMMA PollKeeps == IInv /\ Poll => IInv'
<1> SUFFICES ASSUME IInv, Poll PROVE IInv'
  OBVIOUS
<1> USE DEF IInv
<1>1. CASE PollStart
  <2>1. <<>> \in [{} -> Seen]
    OBVIOUS
  <2>2. poll' \in PollType
    BY <1>1, <2>1 DEF PollStart, PollType
  <2> QED BY <1>1, <2>2 DEF PollStart, MachineOK, TableOK, CountsOK, machine, exit
<1>2. CASE PollRead
  <2>1. PICK S \in SUBSET Devices : Batch \in [S -> Seen]
    <3> DEFINE k == CHOOSE i \in DOMAIN Order :
                        /\ poll.targets \cap DevicesOf[Order[i]] # {}
                        /\ \A j \in 1 .. i - 1 : poll.targets \cap DevicesOf[Order[j]] = {}
    <3>1. Batch = Readings(poll.targets \cap DevicesOf[Order[k]], Order[k])
      BY DEF Batch
    <3>2. poll.targets \cap DevicesOf[Order[k]] \in SUBSET Devices
      BY DEF PollType
    <3>3. ASSUME NEW batch, NEW a PROVE Readings(batch, a) \in [batch -> Seen]
      BY DEF Readings, ReadState, Seen
    <3> HIDE DEF k
    <3> QED BY <3>1, <3>2, <3>3
  <2>2. poll' \in PollType
    <3>1. CASE poll' = [poll EXCEPT !.at = "read", !.got = Batch]
      BY <2>1, <3>1 DEF PollType
    <3>2. CASE \E d \in DOMAIN Batch, status \in {"degraded", "offline"} :
                  poll' = [poll EXCEPT !.at = "read", !.got = [Batch EXCEPT ![d] = status]]
      <4>1. PICK d \in DOMAIN Batch, status \in {"degraded", "offline"} :
                  poll' = [poll EXCEPT !.at = "read", !.got = [Batch EXCEPT ![d] = status]]
        BY <3>2
      <4>2. [Batch EXCEPT ![d] = status] \in [S -> Seen]
        BY <2>1 DEF Seen
      <4> QED BY <4>1, <4>2 DEF PollType
    <3> QED BY <1>2, <3>1, <3>2 DEF PollRead
  <2>3. CountsOK'
    <3>1. faults' = faults \/ (faults < MaxFaults /\ faults' = faults + 1)
      BY <1>2 DEF PollRead
    <3>2. UNCHANGED <<exit, missed, events>>
      BY <1>2 DEF PollRead
    <3> QED BY <3>1, <3>2, ProvidersAssumption DEF CountsOK, exit
  <2> QED BY <1>2, <2>2, <2>3 DEF PollRead, MachineOK, TableOK, machine
<1>3. CASE PollStore
  <2>1. PICK S \in SUBSET Devices : poll.got \in [S -> Seen]
    BY DEF PollType
  <2>2. poll' \in PollType
    <3>1. <<>> \in [{} -> Seen]
      OBVIOUS
    <3> QED BY <1>3, <3>1 DEF PollStore, PollType, NoPoll
  <2>3. ASSUME NEW d \in Devices
        PROVE  /\ table'[d] \in Record \cup {NoRecord}
               /\ table'[d] # NoRecord => (table'[d].status = "disabled" <=> ~table'[d].enabled)
    <3>1. /\ table[d] \in Record \cup {NoRecord}
          /\ table[d] # NoRecord => (table[d].status = "disabled" <=> ~table[d].enabled)
      BY DEF TableOK
    <3>2. table'[d] = IF d \in S THEN WithStatus(table[d], poll.got[d]) ELSE table[d]
      BY <1>3, <2>1 DEF PollStore
    <3>3. CASE d \in S
      <4>1. poll.got[d] \in Seen
        BY <2>1, <3>3
      <4> QED BY <3>1, <3>2, <3>3, <4>1, WithStatusKeeps
    <3> QED BY <3>1, <3>2, <3>3
  <2>4. TableOK'
    <3>1. table' = [d \in Devices |-> table'[d]]
      BY <1>3 DEF PollStore
    <3> QED BY <2>3, <3>1 DEF TableOK
  <2> QED BY <1>3, <2>2, <2>4 DEF PollStore, MachineOK, CountsOK, machine, exit
<1> QED BY <1>1, <1>2, <1>3 DEF Poll

LEMMA EnvironmentKeeps == IInv /\ Environment => IInv'
<1> SUFFICES ASSUME IInv, Environment PROVE IInv'
  OBVIOUS
<1> USE DEF IInv
<1>0. CountsOK' /\ statuses' = statuses /\ cycle' = cycle /\ poll' = poll
  <2>1. excused' \subseteq Fans
    BY DEF Environment, CountsOK
  <2> QED BY <2>1, ProvidersAssumption DEF Environment, CountsOK
<1>1. ASSUME NEW d \in Devices, SwitchDevice(d) PROVE IInv'
  <2>1. PICK on \in BOOLEAN :
          /\ table' = [table EXCEPT
                ![d].enabled = on,
                ![d].status = IF ~on THEN "disabled" ELSE IF @ = "disabled" THEN "online" ELSE @]
          /\ off' = [off EXCEPT !.devices = IF on THEN @ \ {d} ELSE @ \cup {d}]
    BY <1>1 DEF SwitchDevice
  <2>2. off' \in Switches
    BY <2>1 DEF Switches
  <2>3. TableOK'
    <3>1. table[d] \in Record
      BY <1>1 DEF SwitchDevice, TableOK
    <3>2. table'[d] = [enabled |-> on, control |-> table[d].control,
                       status |-> IF ~on THEN "disabled"
                                  ELSE IF table[d].status = "disabled" THEN "online"
                                  ELSE table[d].status]
      BY <2>1, <3>1 DEF TableOK, Record
    <3>3. table'[d] \in Record /\ (table'[d].status = "disabled" <=> ~table'[d].enabled)
      BY <3>1, <3>2 DEF Record, DeviceStatus
    <3>4. DOMAIN table' = Devices /\ table' = [e \in Devices |-> table'[e]]
          /\ \A e \in Devices \ {d} : table'[e] = table[e]
      BY <2>1 DEF TableOK
    <3> QED BY <3>3, <3>4 DEF TableOK
  <2> QED BY <1>0, <1>1, <2>2, <2>3 DEF SwitchDevice, MachineOK, machine
<1>2. ASSUME NEW d \in Devices, DeviceTurns(d) PROVE IInv'
  BY <1>0, <1>2 DEF DeviceTurns, MachineOK, TableOK
<1>3. ASSUME NEW a \in Adapters, SwitchAdapter(a) PROVE IInv'
  BY <1>0, <1>3 DEF SwitchAdapter, MachineOK, TableOK, Switches, machine
<1>4. ASSUME NEW a \in Adapters, ProviderTurns(a) PROVE IInv'
  BY <1>0, <1>4 DEF ProviderTurns, MachineOK, TableOK
<1>5. ASSUME NEW f \in Fans, Write(f) PROVE IInv'
  BY <1>0, <1>5 DEF Write, MachineOK, TableOK
<1> QED BY <1>1, <1>2, <1>3, <1>4, <1>5 DEF Environment

LEMMA ExitKeeps == IInv /\ Exit => IInv'
<1> SUFFICES ASSUME IInv, Exit PROVE IInv'
  OBVIOUS
<1> USE DEF IInv
<1>1. CASE Shutdown
  <2>1. CountsOK'
    BY <1>1 DEF Shutdown, CountsOK, ReleaseTargets
  <2> QED BY <1>1, <2>1 DEF Shutdown, MachineOK, TableOK, machine
<1>2. ASSUME NEW f \in Fans, Release(f) PROVE IInv'
  <2>1. MachineOK'
    BY <1>2 DEF Release, MachineOK
  <2>2. CountsOK'
    <3>1. targets' \subseteq Fans /\ failed' \subseteq Fans
      BY <1>2 DEF Release, CountsOK
    <3>2. faults' = faults \/ (faults < MaxFaults /\ faults' = faults + 1)
      BY <1>2 DEF Release
    <3> QED BY <1>2, <3>1, <3>2, ProvidersAssumption DEF Release, CountsOK
  <2> QED BY <1>2, <2>1, <2>2 DEF Release, TableOK
<1>3. CASE HandBack
  <2>1. PICK refuse \in SUBSET (HandsBack \cap there) :
          /\ faults + Cardinality(refuse) <= MaxFaults
          /\ faults' = faults + Cardinality(refuse)
          /\ duty' = [f \in Fans |->
                 IF AdapterOf(f) \in (HandsBack \cap there) \ refuse THEN "firmware" ELSE duty[f]]
    BY <1>3 DEF HandBack
  <2>2. MachineOK'
    BY <1>3, <2>1 DEF HandBack, MachineOK
  <2>3. CountsOK'
    <3>1. Cardinality(refuse) \in Nat
      <4>1. IsFiniteSet(refuse)
        <5>1. IsFiniteSet(Adapters)
          BY AdaptersAreFinite
        <5>2. refuse \subseteq Adapters
          BY <2>1 DEF MachineOK
        <5> QED BY <5>1, <5>2, FS_Subset
      <4> QED BY <4>1, FS_CardinalityType
    <3> QED BY <1>3, <2>1, <3>1, ProvidersAssumption DEF HandBack, CountsOK
  <2>4. cycle' \in [Runners -> CycleType] /\ poll' \in PollType
    <3>1. NoCycle \in CycleType
      BY OrderType DEF NoCycle, CycleType, Switches, States
    <3>2. <<>> \in [{} -> Seen]
      OBVIOUS
    <3> QED BY <1>3, <3>1, <3>2 DEF HandBack, NoPoll, PollType
  <2> QED BY <1>3, <2>2, <2>3, <2>4 DEF HandBack, TableOK
<1> QED BY <1>1, <1>2, <1>3 DEF Exit

(* The invariant is inductive.                                              *)
THEOREM Invariance == Spec => []IInv
<1>1. IInv /\ [Next]_vars => IInv'
  <2> SUFFICES ASSUME IInv, [Next]_vars PROVE IInv'
    OBVIOUS
  <2>1. CASE Next
    BY <2>1, CycleKeeps, PollKeeps, EnvironmentKeeps, ExitKeeps DEF Next
  <2>2. CASE UNCHANGED vars
    BY <2>2 DEF vars, machine, exit, IInv, MachineOK, TableOK, CountsOK
  <2> QED BY <2>1, <2>2
<1> QED BY <1>1, InitOK, PTL DEF Spec

(* Types; and a device its user switched off is shown as disabled, whatever *)
(* reading or verdict from before arrives late.                             *)
THEOREM TypeCorrect == Spec => []TypeOK
<1>1. IInv => TypeOK
  <2> SUFFICES ASSUME IInv PROVE TypeOK
    OBVIOUS
  <2>1. ASSUME NEW r \in Runners PROVE cycle[r] \in CycleType
    BY DEF IInv
  <2>2. poll.targets \subseteq Devices /\ DOMAIN poll.got \subseteq Devices
        /\ poll.at \in {"idle", "reading", "read"}
    BY DEF IInv, PollType
  <2> QED BY <2>1, <2>2 DEF IInv, TypeOK, MachineOK, TableOK, CountsOK, CycleType
<1> QED BY <1>1, Invariance, PTL

-----------------------------------------------------------------------------
(* The exit *)

LEMMA NoRecordIsNone == NoRecord \notin Record
  BY ProvidersAssumption, Zenon

(* What the last scan that answered for a fan's adapter described with its  *)
(* control is in the table with it: through readings, stand-by, switches    *)
(* and adapters that fall silent.                                           *)
Described == \A f \in Fans \ missed : table[f] # NoRecord /\ table[f].control

(* A fan that still runs at our duty waits for its release or was reported. *)
Pending ==
    /\ stage = "releasing" =>
          \A f \in Fans \ excused : duty[f] = "ours" => f \in targets \cup failed
    /\ stage = "stopped" => \A f \in Fans \ excused : duty[f] = "ours" => f \in failed

LEMMA CycleDescribes ==
    ASSUME IInv, Described, Pending, NEW r \in Runners, Cycle(r)
    PROVE  Described' /\ Pending'
<1>1. /\ Pending'
      /\ Reconcile(r) \/ UNCHANGED <<table, missed>>
  BY DEF Cycle, CycleStart, Probe, Decide, Reconcile, Pending, exit, machine
<1>2. ASSUME Reconcile(r) PROVE Described'
  <2> SUFFICES ASSUME NEW f \in Fans, f \notin missed'
               PROVE  table'[f] # NoRecord /\ table'[f].control
    BY DEF Described
  <2> DEFINE c == cycle[r]  a == AdapterOf(f)
  <2>1. f \in Devices
    BY ProvidersAssumption
  <2>2. table'[f] =
          IF c.found[a] # NoAnswer
          THEN IF \E x \in c.found[a] : x.device = f
               THEN Upserted(table[f], f \in c.off.devices, Whole(f) \in c.found[a])
               ELSE NoRecord
          ELSE IF c.probed[a] \notin Usable THEN WithStatus(table[f], "offline")
          ELSE table[f]
    BY <1>2, <2>1 DEF Reconcile, Reconciled
  <2>3. IF c.found[a] = NoAnswer THEN f \notin missed ELSE Whole(f) \in c.found[a]
    BY <1>2 DEF Reconcile
  <2>4. table[f] \in Record \cup {NoRecord} /\ DOMAIN table = Devices
    BY <2>1 DEF IInv, TableOK
  <2>5. ASSUME NEW disabled \in BOOLEAN
        PROVE  /\ Upserted(table[f], disabled, TRUE) \in Record
               /\ Upserted(table[f], disabled, TRUE).control
    BY <2>4 DEF Upserted, Record, DeviceStatus
  <2>6. table[f] # NoRecord /\ table[f].control =>
          WithStatus(table[f], "offline") \in Record /\ WithStatus(table[f], "offline").control
    BY <2>4 DEF WithStatus, Record, DeviceStatus
  <2>7. NoRecord \notin Record
    BY NoRecordIsNone
  <2> HIDE DEF c, a
  <2>8. CASE c.found[a] # NoAnswer
    <3>1. \E x \in c.found[a] : x.device = f
      <4>1. Whole(f).device = f
        BY DEF Whole
      <4> QED BY <2>3, <2>8, <4>1
    <3>2. table'[f] = Upserted(table[f], f \in c.off.devices, TRUE)
      <4>1. (Whole(f) \in c.found[a]) = TRUE
        BY <2>3, <2>8
      <4> QED BY <2>2, <2>8, <3>1, <4>1
    <3>3. (f \in c.off.devices) \in BOOLEAN
      OBVIOUS
    <3> QED BY <2>5, <2>7, <3>2, <3>3
  <2>9. CASE c.found[a] = NoAnswer
    <3>1. table[f] # NoRecord /\ table[f].control
      BY <2>3, <2>9 DEF Described
    <3> QED BY <2>2, <2>6, <2>7, <2>9, <3>1
  <2> QED BY <2>8, <2>9
<1> QED BY <1>1, <1>2 DEF Described

LEMMA PollDescribes ==
    ASSUME IInv, Described, Pending, Poll
    PROVE  Described' /\ Pending'
<1>1. Pending' /\ missed' = missed
  BY DEF Poll, PollStart, PollRead, PollStore, Pending, exit, machine
<1>2. CASE PollStore
  <2> SUFFICES ASSUME NEW f \in Fans \ missed
               PROVE  table'[f] # NoRecord /\ table'[f].control
    BY <1>1 DEF Described
  <2>1. f \in Devices /\ table[f] \in Record /\ table[f].control
    BY ProvidersAssumption DEF IInv, TableOK, Described
  <2>2. PICK S \in SUBSET Devices : poll.got \in [S -> Seen]
    BY DEF IInv, PollType
  <2>3. table'[f] = IF f \in S THEN WithStatus(table[f], poll.got[f]) ELSE table[f]
    BY <1>2, <2>1, <2>2 DEF PollStore
  <2>4. ASSUME NEW status \in Seen
        PROVE  WithStatus(table[f], status) \in Record /\ WithStatus(table[f], status).control
    BY <2>1, NoRecordIsNone DEF WithStatus, Record, Seen, DeviceStatus
  <2>5. f \in S => poll.got[f] \in Seen
    BY <2>2
  <2> QED BY <2>1, <2>3, <2>4, <2>5, NoRecordIsNone
<1>3. CASE ~PollStore
  <2>1. table' = table
    BY <1>3 DEF Poll, PollStart, PollRead
  <2> QED BY <1>1, <2>1 DEF Described
<1> QED BY <1>1, <1>2, <1>3

LEMMA EnvironmentDescribes ==
    ASSUME IInv, Described, Pending, Environment
    PROVE  Described' /\ Pending'
<1>0. UNCHANGED <<stage, targets, failed, missed>>
  BY DEF Environment
<1>1. ASSUME NEW f \in Fans, Write(f),
             excused' = IF stage = "running" THEN excused ELSE excused \cup {f}
      PROVE  Described' /\ Pending'
  <2>1. Described'
    BY <1>0, <1>1 DEF Write, Described
  <2>2. \A g \in Fans \ {f} : duty'[g] = duty[g]
    BY <1>1 DEF Write, IInv, MachineOK
  <2> QED BY <1>0, <1>1, <2>1, <2>2 DEF Pending
<1>2. ASSUME UNCHANGED <<table, duty, excused>> PROVE Described' /\ Pending'
  BY <1>0, <1>2 DEF Described, Pending
<1>3. ASSUME NEW d \in Devices, SwitchDevice(d), UNCHANGED excused
      PROVE  Described' /\ Pending'
  <2>1. Pending'
    BY <1>0, <1>3 DEF SwitchDevice, Pending, machine
  <2>2. PICK on \in BOOLEAN :
          table' = [table EXCEPT
                ![d].enabled = on,
                ![d].status = IF ~on THEN "disabled" ELSE IF @ = "disabled" THEN "online" ELSE @]
    BY <1>3 DEF SwitchDevice
  <2>3. ASSUME NEW f \in Fans \ missed PROVE table'[f] # NoRecord /\ table'[f].control
    <3>1. f \in Devices /\ table[f] \in Record /\ table[f].control /\ DOMAIN table = Devices
      BY ProvidersAssumption DEF IInv, TableOK, Described
    <3>2. CASE f # d
      <4>1. table'[f] = table[f]
        BY <2>2, <3>1, <3>2
      <4> QED BY <3>1, <4>1, NoRecordIsNone
    <3>3. CASE f = d
      <4>1. table'[f] = [enabled |-> on, control |-> table[f].control,
                         status |-> IF ~on THEN "disabled"
                                    ELSE IF table[f].status = "disabled" THEN "online"
                                    ELSE table[f].status]
        BY <2>2, <3>1, <3>3 DEF Record
      <4>2. table'[f] \in Record /\ table'[f].control
        BY <3>1, <4>1 DEF Record, DeviceStatus
      <4> QED BY <4>2, NoRecordIsNone
    <3> QED BY <3>2, <3>3
  <2> QED BY <1>0, <2>1, <2>3 DEF Described
<1> QED BY <1>1, <1>2, <1>3 DEF Environment, DeviceTurns, SwitchAdapter, ProviderTurns, machine

LEMMA ExitDescribes ==
    ASSUME IInv, Described, Pending, Exit
    PROVE  Described' /\ Pending'
<1>1. Described'
  BY DEF Exit, Shutdown, Release, HandBack, Described
<1>2. CASE Shutdown
  <2>1. ASSUME NEW f \in Fans \ excused' PROVE f \in targets'
    BY <1>2, <2>1 DEF Shutdown, Described, ReleaseTargets
  <2> QED BY <1>1, <1>2, <2>1 DEF Shutdown, Pending
<1>3. ASSUME NEW f \in Fans, Release(f) PROVE Pending'
  <2>1. /\ stage = "releasing" /\ stage' = stage /\ excused' = excused
        /\ targets' = targets \ {f}
    BY <1>3 DEF Release
  <2>2. \A g \in Fans \ {f} : duty'[g] = duty[g]
    BY <1>3 DEF Release, IInv, MachineOK
  <2>3. failed \subseteq failed' /\ (f \in failed' \/ duty'[f] = "failsafe")
    BY <1>3 DEF Release, IInv, MachineOK
  <2> QED BY <2>1, <2>2, <2>3 DEF Pending
<1>4. CASE HandBack
  <2>1. \A f \in Fans : duty'[f] = "ours" => duty[f] = "ours"
    BY <1>4 DEF HandBack
  <2>2. /\ stage = "releasing" /\ stage' = "stopped" /\ targets = {}
        /\ excused' = excused /\ failed' = failed
    BY <1>4 DEF HandBack
  <2>3. ASSUME NEW f \in Fans, f \notin excused, duty'[f] = "ours"
        PROVE  f \in failed
    <3>1. duty[f] = "ours"
      BY <2>1, <2>3
    <3> QED BY <2>2, <2>3, <3>1 DEF Pending
  <2>4. \A f \in Fans \ excused' : duty'[f] = "ours" => f \in failed'
    BY <2>2, <2>3
  <2>5. stage' # "releasing"
    BY <2>2
  <2> QED BY <1>1, <2>4, <2>5 DEF Pending
<1> QED BY <1>1, <1>2, <1>3, <1>4 DEF Exit

(* When the runtime has stopped, whatever its loops, its user and the machine *)
(* were at meanwhile, and whichever releases were refused, no fan is left at  *)
(* our duty without a report, unless it was switched off, left out by the    *)
(* last scan that answered, or written by a person during the release.       *)
THEOREM NothingIsLeftDriven == Spec => []NothingStaysDriven
<1>1. Init => Described /\ Pending
  BY DEF Init, Described, Pending
<1>2. IInv /\ Described /\ Pending /\ [Next]_vars => (Described /\ Pending)'
  <2> SUFFICES ASSUME IInv, Described, Pending, [Next]_vars PROVE (Described /\ Pending)'
    OBVIOUS
  <2>1. CASE Next
    BY <2>1, CycleDescribes, PollDescribes, EnvironmentDescribes, ExitDescribes DEF Next
  <2>2. CASE UNCHANGED vars
    BY <2>2 DEF vars, machine, exit, Described, Pending
  <2> QED BY <2>1, <2>2
<1>3. Pending => NothingStaysDriven
  BY DEF Pending, NothingStaysDriven
<1> QED BY <1>1, <1>2, <1>3, Invariance, PTL DEF Spec
=============================================================================
