------------------------- MODULE HostFactoryProofs -------------------------
(***************************************************************************)
(* IInv is an inductive invariant of HostFactory, for any number of worker *)
(* threads, mounts and hosts, and the safety properties follow from it.    *)
(* One lemma per action; AnswerInv, ThreadGivesUpInv and MainGivesUpInv    *)
(* are the ends the actions share.  In each, the parts of IInv that none   *)
(* of the changed variables occurs in are done in one step.  What IInv     *)
(* says about steps then gives the refinement of RequestService, and that  *)
(* a live host keeps its slot.                                             *)
(***************************************************************************)
EXTENDS HostFactory, TLAPS

USE DEF factory, world, locals, Callers

(* A thread outside of the Monitor ends its request.                       *)
LEMMA AnswerInv ==
    ASSUME IInv,
           NEW t \in Threads,
           NEW s \in {"served", "500"},
           pc[t] \in {"lookup", "call", "restart", "retry"},
           Answer(t, s),
           UNCHANGED <<factory, hostObj, world, monitor, key, disposing>>
    PROVE  IInv'
<1>1. (FlagTypes /\ TableTypes)'
  BY DEF IInv, TypeOK, Answer, FlagTypes, TableTypes, Keys
<1>2. PcTypes'
  BY ConstantsAssumption DEF IInv, TypeOK, Answer, PcTypes, ThreadPc, MainPc
<1>3. LocalTypes'
  BY ConstantsAssumption DEF IInv, TypeOK, Answer, TableTypes, PcTypes,
      LocalTypes, Keys
<1>4. MonitorDiscipline'
  BY ConstantsAssumption DEF IInv, TypeOK, Answer, PcTypes, MonitorDiscipline,
      Critical, ThreadPc, MainPc
<1>5. OwnApplication'
  BY ConstantsAssumption DEF IInv, TypeOK, Answer, TableTypes, PcTypes,
      LocalTypes, OwnApplication, ObjDiscipline, NewHostDiscipline,
      SlotDiscipline, Keys, Born
<1>6. DeadHostEvicted'
  BY ConstantsAssumption DEF IInv, TypeOK, Answer, TableTypes, PcTypes,
      LocalTypes, DeadHostEvicted, ObjDiscipline, NewHostDiscipline,
      OwnApplication, Keys, Born
<1>7. ObjDiscipline'
  BY ConstantsAssumption DEF IInv, TypeOK, Answer, TableTypes, PcTypes,
      LocalTypes, ObjDiscipline, SlotDiscipline, OwnApplication, Keys, Born
<1>8. NewHostDiscipline'
  BY ConstantsAssumption DEF IInv, TypeOK, Answer, PcTypes, LocalTypes,
      NewHostDiscipline, ThreadPc, MainPc
<1>9. SlotDiscipline'
  BY ConstantsAssumption DEF IInv, TypeOK, Answer, TableTypes, PcTypes,
      LocalTypes, SlotDiscipline, MonitorDiscipline, StartupDiscipline,
      Critical, Keys
<1>10. StartupDiscipline'
  BY ConstantsAssumption DEF IInv, TypeOK, Answer, TableTypes, PcTypes,
      LocalTypes, FlagTypes, StartupDiscipline, MonitorDiscipline, Critical,
      Keys
<1>11. QED  BY <1>1, <1>2, <1>3, <1>4, <1>5, <1>6, <1>7, <1>8, <1>9, <1>10 DEF IInv, TypeOK

(* A thread gives up within the Monitor.  Its slot may have been emptied.  *)
LEMMA ThreadGivesUpInv ==
    ASSUME IInv,
           NEW t \in Threads,
           pc[t] \in Critical \ {"exit"},
           GiveUp(t),
           hostObj' \in [Keys -> Hosts \cup {NoHost}],
           \A k \in Keys : hostObj'[k] \in {hostObj[k], NoHost},
           UNCHANGED <<factory, world, key, disposing>>
    PROVE  IInv'
<1>1. Answer(t, "500") /\ monitor' = NoThread
  BY ConstantsAssumption DEF GiveUp
<1>2. FlagTypes'
  BY <1>1 DEF IInv, TypeOK, Answer, Critical, FlagTypes
<1>3. TableTypes'
  BY <1>1, ConstantsAssumption DEF IInv, TypeOK, Answer, Critical, TableTypes,
      PcTypes, LocalTypes, NewHostDiscipline, Keys, Born
<1>4. PcTypes'
  BY <1>1, ConstantsAssumption DEF IInv, TypeOK, Answer, Critical, PcTypes,
      ThreadPc, MainPc
<1>5. LocalTypes'
  BY <1>1, ConstantsAssumption DEF IInv, TypeOK, Answer, Critical, TableTypes,
      PcTypes, LocalTypes, Keys
<1>6. MonitorDiscipline'
  BY <1>1, ConstantsAssumption DEF IInv, TypeOK, Answer, Critical, PcTypes,
      MonitorDiscipline, ThreadPc, MainPc
<1>7. OwnApplication'
  BY <1>1, ConstantsAssumption DEF IInv, TypeOK, Answer, Critical, TableTypes,
      PcTypes, LocalTypes, OwnApplication, ObjDiscipline, NewHostDiscipline,
      SlotDiscipline, Keys, Born
<1>8. DeadHostEvicted'
  BY <1>1, ConstantsAssumption DEF IInv, TypeOK, Answer, Critical, TableTypes,
      PcTypes, LocalTypes, DeadHostEvicted, ObjDiscipline, NewHostDiscipline,
      OwnApplication, Keys, Born
<1>9. ObjDiscipline'
  BY <1>1, ConstantsAssumption DEF IInv, TypeOK, Answer, Critical, TableTypes,
      PcTypes, LocalTypes, ObjDiscipline, SlotDiscipline, OwnApplication, Keys,
      Born
<1>10. NewHostDiscipline'
  BY <1>1, ConstantsAssumption DEF IInv, TypeOK, Answer, Critical, PcTypes,
      LocalTypes, NewHostDiscipline, ThreadPc, MainPc
<1>11. SlotDiscipline'
  BY <1>1, ConstantsAssumption DEF IInv, TypeOK, Answer, Critical, TableTypes,
      PcTypes, LocalTypes, SlotDiscipline, MonitorDiscipline,
      StartupDiscipline, Keys
<1>12. StartupDiscipline'
  BY <1>1, ConstantsAssumption DEF IInv, TypeOK, Answer, Critical, TableTypes,
      PcTypes, LocalTypes, FlagTypes, StartupDiscipline, MonitorDiscipline,
      Keys
<1>13. QED  BY <1>2, <1>3, <1>4, <1>5, <1>6, <1>7, <1>8, <1>9, <1>10, <1>11,
      <1>12 DEF IInv, TypeOK

(* CreateHost gives up.                                                    *)
LEMMA MainGivesUpInv ==
    ASSUME IInv,
           pc[Main] \in {"create", "configure"},
           GiveUp(Main),
           hostObj' \in [Keys -> Hosts \cup {NoHost}],
           \A k \in Keys : hostObj'[k] \in {hostObj[k], NoHost},
           UNCHANGED <<factory, world, key, disposing>>
    PROVE  IInv'
<1>1. FlagTypes'
  BY DEF IInv, TypeOK, GiveUp, FlagTypes
<1>2. TableTypes'
  BY ConstantsAssumption DEF IInv, TypeOK, GiveUp, TableTypes, PcTypes,
      LocalTypes, NewHostDiscipline, Keys, Born
<1>3. PcTypes'
  BY ConstantsAssumption DEF IInv, TypeOK, GiveUp, PcTypes, ThreadPc, MainPc
<1>4. LocalTypes'
  BY ConstantsAssumption DEF IInv, TypeOK, GiveUp, TableTypes, PcTypes,
      LocalTypes, Keys
<1>5. MonitorDiscipline'
  BY ConstantsAssumption DEF IInv, TypeOK, GiveUp, PcTypes, MonitorDiscipline,
      Critical, ThreadPc, MainPc
<1>6. OwnApplication'
  BY ConstantsAssumption DEF IInv, TypeOK, GiveUp, TableTypes, PcTypes,
      LocalTypes, OwnApplication, ObjDiscipline, NewHostDiscipline,
      SlotDiscipline, Keys, Born
<1>7. DeadHostEvicted'
  BY ConstantsAssumption DEF IInv, TypeOK, GiveUp, TableTypes, PcTypes,
      LocalTypes, DeadHostEvicted, ObjDiscipline, NewHostDiscipline,
      OwnApplication, Keys, Born
<1>8. ObjDiscipline'
  BY ConstantsAssumption DEF IInv, TypeOK, GiveUp, TableTypes, PcTypes,
      LocalTypes, ObjDiscipline, SlotDiscipline, OwnApplication, Keys, Born
<1>9. NewHostDiscipline'
  BY ConstantsAssumption DEF IInv, TypeOK, GiveUp, PcTypes, LocalTypes,
      NewHostDiscipline, ThreadPc, MainPc
<1>10. SlotDiscipline'
  BY ConstantsAssumption DEF IInv, TypeOK, GiveUp, TableTypes, PcTypes,
      LocalTypes, SlotDiscipline, MonitorDiscipline, StartupDiscipline,
      Critical, Keys
<1>11. StartupDiscipline'
  BY ConstantsAssumption DEF IInv, TypeOK, GiveUp, TableTypes, PcTypes,
      LocalTypes, FlagTypes, StartupDiscipline, MonitorDiscipline, Critical,
      Keys
<1>12. QED  BY <1>1, <1>2, <1>3, <1>4, <1>5, <1>6, <1>7, <1>8, <1>9, <1>10,
      <1>11 DEF IInv, TypeOK

(* CreateHost appends an entry to the four lists.                          *)
LEMMA CreateHostInv ==
    ASSUME IInv,
           CreateHost
    PROVE  IInv'
<1>1. FlagTypes'
  BY DEF IInv, TypeOK, CreateHost, FlagTypes
<1>2. TableTypes'
  BY ConstantsAssumption DEF IInv, TypeOK, CreateHost, TableTypes, PcTypes,
      LocalTypes, NewHostDiscipline, Keys, Born
<1>3. PcTypes'
  BY ConstantsAssumption DEF IInv, TypeOK, CreateHost, PcTypes, ThreadPc,
      MainPc
<1>4. LocalTypes'
  BY ConstantsAssumption DEF IInv, TypeOK, CreateHost, TableTypes, PcTypes,
      LocalTypes, Keys
<1>5. MonitorDiscipline'
  BY ConstantsAssumption DEF IInv, TypeOK, CreateHost, PcTypes,
      MonitorDiscipline, Critical, ThreadPc, MainPc
<1>6. OwnApplication'
  BY ConstantsAssumption DEF IInv, TypeOK, CreateHost, TableTypes, PcTypes,
      LocalTypes, OwnApplication, ObjDiscipline, NewHostDiscipline,
      SlotDiscipline, Keys, Born
<1>7. DeadHostEvicted'
  BY ConstantsAssumption DEF IInv, TypeOK, CreateHost, TableTypes, PcTypes,
      LocalTypes, DeadHostEvicted, ObjDiscipline, NewHostDiscipline,
      OwnApplication, Keys, Born
<1>8. ObjDiscipline'
  BY ConstantsAssumption DEF IInv, TypeOK, CreateHost, TableTypes, PcTypes,
      LocalTypes, ObjDiscipline, SlotDiscipline, OwnApplication, Keys, Born
<1>9. NewHostDiscipline'
  BY ConstantsAssumption DEF IInv, TypeOK, CreateHost, PcTypes, LocalTypes,
      NewHostDiscipline, ThreadPc, MainPc
<1>10. SlotDiscipline'
  BY ConstantsAssumption DEF IInv, TypeOK, CreateHost, TableTypes, PcTypes,
      LocalTypes, SlotDiscipline, MonitorDiscipline, StartupDiscipline,
      Critical, Keys
<1>11. StartupDiscipline'
  BY ConstantsAssumption DEF IInv, TypeOK, CreateHost, TableTypes, PcTypes,
      LocalTypes, FlagTypes, StartupDiscipline, MonitorDiscipline, Critical,
      Keys
<1>12. QED  BY <1>1, <1>2, <1>3, <1>4, <1>5, <1>6, <1>7, <1>8, <1>9, <1>10,
      <1>11 DEF IInv, TypeOK

(* Configuration ends.                                                     *)
LEMMA StartServingInv ==
    ASSUME IInv,
           StartServing
    PROVE  IInv'
<1>1. (FlagTypes /\ TableTypes /\ LocalTypes /\ OwnApplication)'
  BY DEF IInv, TypeOK, StartServing, FlagTypes, TableTypes, LocalTypes,
      OwnApplication, Keys
<1>2. PcTypes'
  BY ConstantsAssumption DEF IInv, TypeOK, StartServing, PcTypes, ThreadPc,
      MainPc
<1>3. MonitorDiscipline'
  BY ConstantsAssumption DEF IInv, TypeOK, StartServing, PcTypes,
      MonitorDiscipline, Critical, ThreadPc, MainPc
<1>4. DeadHostEvicted'
  BY ConstantsAssumption DEF IInv, TypeOK, StartServing, TableTypes, PcTypes,
      LocalTypes, DeadHostEvicted, ObjDiscipline, NewHostDiscipline,
      OwnApplication, Keys, Born
<1>5. ObjDiscipline'
  BY ConstantsAssumption DEF IInv, TypeOK, StartServing, TableTypes, PcTypes,
      LocalTypes, ObjDiscipline, SlotDiscipline, OwnApplication, Keys, Born
<1>6. NewHostDiscipline'
  BY ConstantsAssumption DEF IInv, TypeOK, StartServing, PcTypes, LocalTypes,
      NewHostDiscipline, ThreadPc, MainPc
<1>7. SlotDiscipline'
  BY ConstantsAssumption DEF IInv, TypeOK, StartServing, TableTypes, PcTypes,
      LocalTypes, SlotDiscipline, MonitorDiscipline, StartupDiscipline,
      Critical, Keys
<1>8. StartupDiscipline'
  BY ConstantsAssumption DEF IInv, TypeOK, StartServing, TableTypes, PcTypes,
      LocalTypes, FlagTypes, StartupDiscipline, MonitorDiscipline, Critical,
      Keys
<1>9. QED  BY <1>1, <1>2, <1>3, <1>4, <1>5, <1>6, <1>7, <1>8 DEF IInv, TypeOK

(* Destroy marks the factory destroyed.                                    *)
LEMMA DestroyInv ==
    ASSUME IInv,
           Destroy
    PROVE  IInv'
<1>1. (TableTypes /\ LocalTypes /\ OwnApplication)'
  BY DEF IInv, TypeOK, Destroy, TableTypes, LocalTypes, OwnApplication, Keys
<1>2. FlagTypes'
  BY ConstantsAssumption DEF IInv, TypeOK, Destroy, FlagTypes
<1>3. PcTypes'
  BY ConstantsAssumption DEF IInv, TypeOK, Destroy, PcTypes, ThreadPc, MainPc
<1>4. MonitorDiscipline'
  BY ConstantsAssumption DEF IInv, TypeOK, Destroy, PcTypes, MonitorDiscipline,
      Critical, ThreadPc, MainPc
<1>5. DeadHostEvicted'
  BY ConstantsAssumption DEF IInv, TypeOK, Destroy, TableTypes, PcTypes,
      LocalTypes, DeadHostEvicted, ObjDiscipline, NewHostDiscipline,
      OwnApplication, Keys, Born
<1>6. ObjDiscipline'
  BY ConstantsAssumption DEF IInv, TypeOK, Destroy, TableTypes, PcTypes,
      LocalTypes, ObjDiscipline, SlotDiscipline, OwnApplication, Keys, Born
<1>7. NewHostDiscipline'
  BY ConstantsAssumption DEF IInv, TypeOK, Destroy, PcTypes, LocalTypes,
      NewHostDiscipline, ThreadPc, MainPc
<1>8. SlotDiscipline'
  BY ConstantsAssumption DEF IInv, TypeOK, Destroy, TableTypes, PcTypes,
      LocalTypes, SlotDiscipline, MonitorDiscipline, StartupDiscipline,
      Critical, Keys
<1>9. StartupDiscipline'
  BY ConstantsAssumption DEF IInv, TypeOK, Destroy, TableTypes, PcTypes,
      LocalTypes, FlagTypes, StartupDiscipline, MonitorDiscipline, Critical,
      Keys
<1>10. QED  BY <1>1, <1>2, <1>3, <1>4, <1>5, <1>6, <1>7, <1>8, <1>9 DEF IInv, TypeOK

(* Destroy empties one slot.                                               *)
LEMMA DestroySlotInv ==
    ASSUME IInv,
           DestroySlot
    PROVE  IInv'
<1>1.
      (FlagTypes /\ PcTypes /\ LocalTypes /\ MonitorDiscipline /\ ObjDiscipline /\ NewHostDiscipline)'
  BY DEF IInv, TypeOK, DestroySlot, ClearSlot, FlagTypes, PcTypes, LocalTypes,
      MonitorDiscipline, ObjDiscipline, NewHostDiscipline, Keys
<1>2. TableTypes'
  BY ConstantsAssumption DEF IInv, TypeOK, DestroySlot, ClearSlot, TableTypes,
      PcTypes, LocalTypes, NewHostDiscipline, Keys, Born
<1>3. OwnApplication'
  BY ConstantsAssumption DEF IInv, TypeOK, DestroySlot, ClearSlot, TableTypes,
      PcTypes, LocalTypes, OwnApplication, ObjDiscipline, NewHostDiscipline,
      SlotDiscipline, Keys, Born
<1>4. DeadHostEvicted'
  BY ConstantsAssumption DEF IInv, TypeOK, DestroySlot, ClearSlot, TableTypes,
      PcTypes, LocalTypes, DeadHostEvicted, ObjDiscipline, NewHostDiscipline,
      OwnApplication, Keys, Born
<1>5. SlotDiscipline'
  BY ConstantsAssumption DEF IInv, TypeOK, DestroySlot, ClearSlot, TableTypes,
      PcTypes, LocalTypes, SlotDiscipline, MonitorDiscipline,
      StartupDiscipline, Critical, Keys
<1>6. StartupDiscipline'
  BY ConstantsAssumption DEF IInv, TypeOK, DestroySlot, ClearSlot, TableTypes,
      PcTypes, LocalTypes, FlagTypes, StartupDiscipline, MonitorDiscipline,
      Critical, Keys
<1>7. QED  BY <1>1, <1>2, <1>3, <1>4, <1>5, <1>6 DEF IInv, TypeOK

(* Destroy drops the lists.                                                *)
LEMMA DestroyListsInv ==
    ASSUME IInv,
           DestroyLists
    PROVE  IInv'
<1>1. (TableTypes /\ LocalTypes /\ OwnApplication)'
  BY DEF IInv, TypeOK, DestroyLists, TableTypes, LocalTypes, OwnApplication,
      Keys
<1>2. FlagTypes'
  BY ConstantsAssumption DEF IInv, TypeOK, DestroyLists, FlagTypes
<1>3. PcTypes'
  BY ConstantsAssumption DEF IInv, TypeOK, DestroyLists, PcTypes, ThreadPc,
      MainPc
<1>4. MonitorDiscipline'
  BY ConstantsAssumption DEF IInv, TypeOK, DestroyLists, PcTypes,
      MonitorDiscipline, Critical, ThreadPc, MainPc
<1>5. DeadHostEvicted'
  BY ConstantsAssumption DEF IInv, TypeOK, DestroyLists, TableTypes, PcTypes,
      LocalTypes, DeadHostEvicted, ObjDiscipline, NewHostDiscipline,
      OwnApplication, Keys, Born
<1>6. ObjDiscipline'
  BY ConstantsAssumption DEF IInv, TypeOK, DestroyLists, TableTypes, PcTypes,
      LocalTypes, ObjDiscipline, SlotDiscipline, OwnApplication, Keys, Born
<1>7. NewHostDiscipline'
  BY ConstantsAssumption DEF IInv, TypeOK, DestroyLists, PcTypes, LocalTypes,
      NewHostDiscipline, ThreadPc, MainPc
<1>8. SlotDiscipline'
  BY ConstantsAssumption DEF IInv, TypeOK, DestroyLists, TableTypes, PcTypes,
      LocalTypes, SlotDiscipline, MonitorDiscipline, StartupDiscipline,
      Critical, Keys
<1>9. StartupDiscipline'
  BY ConstantsAssumption DEF IInv, TypeOK, DestroyLists, TableTypes, PcTypes,
      LocalTypes, FlagTypes, StartupDiscipline, MonitorDiscipline, Critical,
      Keys
<1>10. QED  BY <1>1, <1>2, <1>3, <1>4, <1>5, <1>6, <1>7, <1>8, <1>9 DEF IInv, TypeOK

(* A new host is published in the slot of the connecting caller.           *)
LEMMA CreateApplicationHostInv ==
    ASSUME IInv,
           NEW a \in Callers,
           NEW h \in Hosts,
           CreateApplicationHost(a, h)
    PROVE  IInv'
<1>1. FlagTypes'
  BY DEF IInv, TypeOK, CreateApplicationHost, FlagTypes
<1>2. TableTypes'
  BY ConstantsAssumption DEF IInv, TypeOK, CreateApplicationHost, TableTypes,
      PcTypes, LocalTypes, NewHostDiscipline, Keys, Born
<1>3. PcTypes'
  BY ConstantsAssumption DEF IInv, TypeOK, CreateApplicationHost, PcTypes,
      ThreadPc, MainPc
<1>4. LocalTypes'
  BY ConstantsAssumption DEF IInv, TypeOK, CreateApplicationHost, TableTypes,
      PcTypes, LocalTypes, Keys
<1>5. MonitorDiscipline'
  BY ConstantsAssumption DEF IInv, TypeOK, CreateApplicationHost, PcTypes,
      MonitorDiscipline, Critical, ThreadPc, MainPc
<1>6. OwnApplication'
  BY ConstantsAssumption DEF IInv, TypeOK, CreateApplicationHost, TableTypes,
      PcTypes, LocalTypes, OwnApplication, ObjDiscipline, NewHostDiscipline,
      SlotDiscipline, Keys, Born
<1>7. DeadHostEvicted'
  BY ConstantsAssumption DEF IInv, TypeOK, CreateApplicationHost, TableTypes,
      PcTypes, LocalTypes, DeadHostEvicted, ObjDiscipline, NewHostDiscipline,
      OwnApplication, Keys, Born
<1>8. ObjDiscipline'
  BY ConstantsAssumption DEF IInv, TypeOK, CreateApplicationHost, TableTypes,
      PcTypes, LocalTypes, ObjDiscipline, SlotDiscipline, OwnApplication, Keys,
      Born
<1>9. NewHostDiscipline'
  BY ConstantsAssumption DEF IInv, TypeOK, CreateApplicationHost, PcTypes,
      LocalTypes, NewHostDiscipline, ThreadPc, MainPc
<1>10. SlotDiscipline'
  BY ConstantsAssumption DEF IInv, TypeOK, CreateApplicationHost, TableTypes,
      PcTypes, LocalTypes, SlotDiscipline, MonitorDiscipline,
      StartupDiscipline, Critical, Keys
<1>11. StartupDiscipline'
  BY ConstantsAssumption DEF IInv, TypeOK, CreateApplicationHost, TableTypes,
      PcTypes, LocalTypes, FlagTypes, StartupDiscipline, MonitorDiscipline,
      Critical, Keys
<1>12. QED  BY <1>1, <1>2, <1>3, <1>4, <1>5, <1>6, <1>7, <1>8, <1>9, <1>10,
      <1>11 DEF IInv, TypeOK

(* CreateApplicationHost returned nullptr.                                 *)
LEMMA CreateApplicationHostNullInv ==
    ASSUME IInv,
           NEW a \in Callers,
           CreateApplicationHostNull(a)
    PROVE  IInv'
<1>1. /\ hostObj' \in [Keys -> Hosts \cup {NoHost}]
      /\ \A k \in Keys : hostObj'[k] \in {hostObj[k], NoHost}
  BY DEF IInv, TypeOK, TableTypes, LocalTypes, CreateApplicationHostNull, ClearSlot
<1>2. /\ GiveUp(a) /\ UNCHANGED <<factory, world, key, disposing>>
      /\ pc[a] \in {"create", "configure"}
  BY DEF CreateApplicationHostNull
<1>3. CASE a = Main  BY <1>1, <1>2, <1>3, MainGivesUpInv
<1>4. CASE a # Main  BY <1>1, <1>2, <1>4, ThreadGivesUpInv DEF Critical
<1>5. QED  BY <1>3, <1>4

(* CreateApplicationHost threw.                                            *)
LEMMA CreateApplicationHostThrowsInv ==
    ASSUME IInv,
           NEW a \in Callers,
           CreateApplicationHostThrows(a)
    PROVE  IInv'
<1>1. /\ hostObj' \in [Keys -> Hosts \cup {NoHost}]
      /\ \A k \in Keys : hostObj'[k] \in {hostObj[k], NoHost}
  BY DEF IInv, TypeOK, TableTypes, LocalTypes, CreateApplicationHostThrows, ClearSlot
<1>2. /\ GiveUp(a) /\ UNCHANGED <<factory, world, key, disposing>>
      /\ pc[a] \in {"create", "configure"}
  BY DEF CreateApplicationHostThrows
<1>3. CASE a = Main  BY <1>1, <1>2, <1>3, MainGivesUpInv
<1>4. CASE a # Main  BY <1>1, <1>2, <1>4, ThreadGivesUpInv DEF Critical
<1>5. QED  BY <1>3, <1>4

(* Configure returned: CreateHost is done, or the thread queries the slot. *)
LEMMA ConfigureInv ==
    ASSUME IInv,
           NEW a \in Callers,
           Configure(a)
    PROVE  IInv'
<1>1. CASE a = Main
  <2>1. /\ pc[Main] = "configure"
        /\ configured' = configured \cup {newHost[Main]}
        /\ pc' = [pc EXCEPT ![Main] = "config"]
        /\ newHost' = [newHost EXCEPT ![Main] = NoHost]
        /\ UNCHANGED <<factory, hostObj, app, lost, monitor, key, obj, status, disposing>>
    BY <1>1, ConstantsAssumption DEF Configure
  <2>2. (FlagTypes /\ OwnApplication)'
    BY <2>1 DEF IInv, TypeOK, FlagTypes, OwnApplication
  <2>3. TableTypes'
    BY <1>1, <2>1, ConstantsAssumption DEF IInv, TypeOK, TableTypes, PcTypes,
        LocalTypes, NewHostDiscipline, Keys, Born
  <2>4. PcTypes'
    BY <1>1, <2>1, ConstantsAssumption DEF IInv, TypeOK, PcTypes, ThreadPc,
        MainPc
  <2>5. LocalTypes'
    BY <1>1, <2>1, ConstantsAssumption DEF IInv, TypeOK, TableTypes, PcTypes,
        LocalTypes, Keys
  <2>6. MonitorDiscipline'
    BY <1>1, <2>1, ConstantsAssumption DEF IInv, TypeOK, PcTypes,
        MonitorDiscipline, Critical, ThreadPc, MainPc
  <2>7. DeadHostEvicted'
    BY <1>1, <2>1, ConstantsAssumption DEF IInv, TypeOK, TableTypes, PcTypes,
        LocalTypes, DeadHostEvicted, ObjDiscipline, NewHostDiscipline,
        OwnApplication, Keys, Born
  <2>8. ObjDiscipline'
    BY <1>1, <2>1, ConstantsAssumption DEF IInv, TypeOK, TableTypes, PcTypes,
        LocalTypes, ObjDiscipline, SlotDiscipline, OwnApplication, Keys, Born
  <2>9. NewHostDiscipline'
    BY <1>1, <2>1, ConstantsAssumption DEF IInv, TypeOK, PcTypes, LocalTypes,
        NewHostDiscipline, ThreadPc, MainPc
  <2>10. SlotDiscipline'
    BY <1>1, <2>1, ConstantsAssumption DEF IInv, TypeOK, TableTypes, PcTypes,
        LocalTypes, SlotDiscipline, MonitorDiscipline, StartupDiscipline,
        Critical, Keys
  <2>11. StartupDiscipline'
    BY <1>1, <2>1, ConstantsAssumption DEF IInv, TypeOK, TableTypes, PcTypes,
        LocalTypes, FlagTypes, StartupDiscipline, MonitorDiscipline, Critical,
        Keys
  <2>12. QED  BY <2>2, <2>3, <2>4, <2>5, <2>6, <2>7, <2>8, <2>9, <2>10, <2>11 DEF IInv, TypeOK
<1>2. CASE a # Main
  <2>1. /\ a \in Threads /\ pc[a] = "configure"
        /\ configured' = configured \cup {newHost[a]}
        /\ pc' = [pc EXCEPT ![a] = "query"]
        /\ UNCHANGED <<factory, hostObj, app, lost, monitor, key, obj, newHost, status, disposing>>
    BY <1>2, ConstantsAssumption DEF Configure
  <2>2. (FlagTypes /\ LocalTypes /\ OwnApplication)'
    BY <2>1 DEF IInv, TypeOK, FlagTypes, LocalTypes, OwnApplication, Keys
  <2>3. TableTypes'
    BY <1>2, <2>1, ConstantsAssumption DEF IInv, TypeOK, TableTypes, PcTypes,
        LocalTypes, NewHostDiscipline, Keys, Born
  <2>4. PcTypes'
    BY <1>2, <2>1, ConstantsAssumption DEF IInv, TypeOK, PcTypes, ThreadPc,
        MainPc
  <2>5. MonitorDiscipline'
    BY <1>2, <2>1, ConstantsAssumption DEF IInv, TypeOK, PcTypes,
        MonitorDiscipline, Critical, ThreadPc, MainPc
  <2>6. DeadHostEvicted'
    BY <1>2, <2>1, ConstantsAssumption DEF IInv, TypeOK, TableTypes, PcTypes,
        LocalTypes, DeadHostEvicted, ObjDiscipline, NewHostDiscipline,
        OwnApplication, Keys, Born
  <2>7. ObjDiscipline'
    BY <1>2, <2>1, ConstantsAssumption DEF IInv, TypeOK, TableTypes, PcTypes,
        LocalTypes, ObjDiscipline, SlotDiscipline, OwnApplication, Keys, Born
  <2>8. NewHostDiscipline'
    BY <1>2, <2>1, ConstantsAssumption DEF IInv, TypeOK, PcTypes, LocalTypes,
        NewHostDiscipline, ThreadPc, MainPc
  <2>9. SlotDiscipline'
    BY <1>2, <2>1, ConstantsAssumption DEF IInv, TypeOK, TableTypes, PcTypes,
        LocalTypes, SlotDiscipline, MonitorDiscipline, StartupDiscipline,
        Critical, Keys
  <2>10. StartupDiscipline'
    BY <1>2, <2>1, ConstantsAssumption DEF IInv, TypeOK, TableTypes, PcTypes,
        LocalTypes, FlagTypes, StartupDiscipline, MonitorDiscipline, Critical,
        Keys
  <2>11. QED  BY <2>2, <2>3, <2>4, <2>5, <2>6, <2>7, <2>8, <2>9, <2>10 DEF IInv, TypeOK
<1>3. QED  BY <1>1, <1>2

(* Configure threw.                                                        *)
LEMMA ConfigureThrowsInv ==
    ASSUME IInv,
           NEW a \in Callers,
           ConfigureThrows(a)
    PROVE  IInv'
<1>1. /\ hostObj' \in [Keys -> Hosts \cup {NoHost}]
      /\ \A k \in Keys : hostObj'[k] \in {hostObj[k], NoHost}
  BY DEF IInv, TypeOK, TableTypes, LocalTypes, ConfigureThrows, ClearSlot
<1>2. /\ GiveUp(a) /\ UNCHANGED <<factory, world, key, disposing>>
      /\ pc[a] \in {"create", "configure"}
  BY DEF ConfigureThrows
<1>3. CASE a = Main  BY <1>1, <1>2, <1>3, MainGivesUpInv
<1>4. CASE a # Main  BY <1>1, <1>2, <1>4, ThreadGivesUpInv DEF Critical
<1>5. QED  BY <1>3, <1>4

(* A request arrives.                                                      *)
LEMMA ArriveInv ==
    ASSUME IInv,
           NEW t \in Threads,
           NEW k \in Keys,
           Arrive(t, k)
    PROVE  IInv'
<1>1. (FlagTypes /\ TableTypes)'
  BY DEF IInv, TypeOK, Arrive, FlagTypes, TableTypes, Keys
<1>2. PcTypes'
  BY ConstantsAssumption DEF IInv, TypeOK, Arrive, PcTypes, ThreadPc, MainPc
<1>3. LocalTypes'
  BY ConstantsAssumption DEF IInv, TypeOK, Arrive, TableTypes, PcTypes,
      LocalTypes, Keys
<1>4. MonitorDiscipline'
  BY ConstantsAssumption DEF IInv, TypeOK, Arrive, PcTypes, MonitorDiscipline,
      Critical, ThreadPc, MainPc
<1>5. OwnApplication'
  BY ConstantsAssumption DEF IInv, TypeOK, Arrive, TableTypes, PcTypes,
      LocalTypes, OwnApplication, ObjDiscipline, NewHostDiscipline,
      SlotDiscipline, Keys, Born
<1>6. DeadHostEvicted'
  BY ConstantsAssumption DEF IInv, TypeOK, Arrive, TableTypes, PcTypes,
      LocalTypes, DeadHostEvicted, ObjDiscipline, NewHostDiscipline,
      OwnApplication, Keys, Born
<1>7. ObjDiscipline'
  BY ConstantsAssumption DEF IInv, TypeOK, Arrive, TableTypes, PcTypes,
      LocalTypes, ObjDiscipline, SlotDiscipline, OwnApplication, Keys, Born
<1>8. NewHostDiscipline'
  BY ConstantsAssumption DEF IInv, TypeOK, Arrive, PcTypes, LocalTypes,
      NewHostDiscipline, ThreadPc, MainPc
<1>9. SlotDiscipline'
  BY ConstantsAssumption DEF IInv, TypeOK, Arrive, TableTypes, PcTypes,
      LocalTypes, SlotDiscipline, MonitorDiscipline, StartupDiscipline,
      Critical, Keys
<1>10. StartupDiscipline'
  BY ConstantsAssumption DEF IInv, TypeOK, Arrive, TableTypes, PcTypes,
      LocalTypes, FlagTypes, StartupDiscipline, MonitorDiscipline, Critical,
      Keys
<1>11. QED  BY <1>1, <1>2, <1>3, <1>4, <1>5, <1>6, <1>7, <1>8, <1>9, <1>10 DEF IInv, TypeOK

(* The slot is read without the lock.                                      *)
LEMMA LookupInv ==
    ASSUME IInv,
           NEW t \in Threads,
           Lookup(t)
    PROVE  IInv'
<1>1. CASE lists
  <2>1. /\ pc[t] = "lookup"
        /\ obj' = [obj EXCEPT ![t] = hostObj[key[t]]]
        /\ pc' = [pc EXCEPT ![t] = IF hostObj[key[t]] = NoHost THEN "restart" ELSE "call"]
        /\ UNCHANGED <<factory, hostObj, world, monitor, key, newHost, status, disposing>>
    BY <1>1, ConstantsAssumption DEF Lookup
  <2>2. (FlagTypes /\ TableTypes)'
    BY <2>1 DEF IInv, TypeOK, FlagTypes, TableTypes, Keys
  <2>3. PcTypes'
    BY <1>1, <2>1, ConstantsAssumption DEF IInv, TypeOK, PcTypes, ThreadPc,
        MainPc
  <2>4. LocalTypes'
    BY <1>1, <2>1, ConstantsAssumption DEF IInv, TypeOK, TableTypes, PcTypes,
        LocalTypes, Keys
  <2>5. MonitorDiscipline'
    BY <1>1, <2>1, ConstantsAssumption DEF IInv, TypeOK, PcTypes,
        MonitorDiscipline, Critical, ThreadPc, MainPc
  <2>6. OwnApplication'
    BY <1>1, <2>1, ConstantsAssumption DEF IInv, TypeOK, TableTypes, PcTypes,
        LocalTypes, OwnApplication, ObjDiscipline, NewHostDiscipline,
        SlotDiscipline, Keys, Born
  <2>7. DeadHostEvicted'
    BY <1>1, <2>1, ConstantsAssumption DEF IInv, TypeOK, TableTypes, PcTypes,
        LocalTypes, DeadHostEvicted, ObjDiscipline, NewHostDiscipline,
        OwnApplication, Keys, Born
  <2>8. ObjDiscipline'
    BY <1>1, <2>1, ConstantsAssumption DEF IInv, TypeOK, TableTypes, PcTypes,
        LocalTypes, ObjDiscipline, SlotDiscipline, OwnApplication, Keys, Born
  <2>9. NewHostDiscipline'
    BY <1>1, <2>1, ConstantsAssumption DEF IInv, TypeOK, PcTypes, LocalTypes,
        NewHostDiscipline, ThreadPc, MainPc
  <2>10. SlotDiscipline'
    BY <1>1, <2>1, ConstantsAssumption DEF IInv, TypeOK, TableTypes, PcTypes,
        LocalTypes, SlotDiscipline, MonitorDiscipline, StartupDiscipline,
        Critical, Keys
  <2>11. StartupDiscipline'
    BY <1>1, <2>1, ConstantsAssumption DEF IInv, TypeOK, TableTypes, PcTypes,
        LocalTypes, FlagTypes, StartupDiscipline, MonitorDiscipline, Critical,
        Keys
  <2>12. QED  BY <2>2, <2>3, <2>4, <2>5, <2>6, <2>7, <2>8, <2>9, <2>10, <2>11 DEF IInv, TypeOK
<1>2. CASE ~lists
  BY <1>2, AnswerInv DEF Lookup
<1>3. QED  BY <1>1, <1>2

(* Host::HandleRequest returned.                                           *)
LEMMA CallReturnsInv ==
    ASSUME IInv,
           NEW t \in Threads,
           CallReturns(t)
    PROVE  IInv'
  BY AnswerInv DEF CallReturns

(* The first try met a lost host.                                          *)
LEMMA CallRemotingExceptionInv ==
    ASSUME IInv,
           NEW t \in Threads,
           CallRemotingException(t)
    PROVE  IInv'
<1>1. (FlagTypes /\ TableTypes /\ LocalTypes /\ OwnApplication)'
  BY DEF IInv, TypeOK, CallRemotingException, FlagTypes, TableTypes,
      LocalTypes, OwnApplication, Keys
<1>2. PcTypes'
  BY ConstantsAssumption DEF IInv, TypeOK, CallRemotingException, PcTypes,
      ThreadPc, MainPc
<1>3. MonitorDiscipline'
  BY ConstantsAssumption DEF IInv, TypeOK, CallRemotingException, PcTypes,
      MonitorDiscipline, Critical, ThreadPc, MainPc
<1>4. DeadHostEvicted'
  BY ConstantsAssumption DEF IInv, TypeOK, CallRemotingException, TableTypes,
      PcTypes, LocalTypes, DeadHostEvicted, ObjDiscipline, NewHostDiscipline,
      OwnApplication, Keys, Born
<1>5. ObjDiscipline'
  BY ConstantsAssumption DEF IInv, TypeOK, CallRemotingException, TableTypes,
      PcTypes, LocalTypes, ObjDiscipline, SlotDiscipline, OwnApplication, Keys,
      Born
<1>6. NewHostDiscipline'
  BY ConstantsAssumption DEF IInv, TypeOK, CallRemotingException, PcTypes,
      LocalTypes, NewHostDiscipline, ThreadPc, MainPc
<1>7. SlotDiscipline'
  BY ConstantsAssumption DEF IInv, TypeOK, CallRemotingException, TableTypes,
      PcTypes, LocalTypes, SlotDiscipline, MonitorDiscipline,
      StartupDiscipline, Critical, Keys
<1>8. StartupDiscipline'
  BY ConstantsAssumption DEF IInv, TypeOK, CallRemotingException, TableTypes,
      PcTypes, LocalTypes, FlagTypes, StartupDiscipline, MonitorDiscipline,
      Critical, Keys
<1>9. QED  BY <1>1, <1>2, <1>3, <1>4, <1>5, <1>6, <1>7, <1>8 DEF IInv, TypeOK

(* Host::HandleRequest threw.                                              *)
LEMMA CallExceptionInv ==
    ASSUME IInv,
           NEW t \in Threads,
           CallException(t)
    PROVE  IInv'
  BY AnswerInv DEF CallException

(* The restart is logged before the lock is taken.                         *)
LEMMA RestartInv ==
    ASSUME IInv,
           NEW t \in Threads,
           Restart(t)
    PROVE  IInv'
<1>1. CASE utf8_encoding
  <2>1. /\ pc[t] = "restart" /\ pc' = [pc EXCEPT ![t] = "enter"]
        /\ UNCHANGED <<factory, hostObj, world, monitor, locals, disposing>>
    BY <1>1, ConstantsAssumption DEF Restart
  <2>2. (FlagTypes /\ TableTypes /\ LocalTypes /\ OwnApplication)'
    BY <2>1 DEF IInv, TypeOK, FlagTypes, TableTypes, LocalTypes,
        OwnApplication, Keys
  <2>3. PcTypes'
    BY <1>1, <2>1, ConstantsAssumption DEF IInv, TypeOK, PcTypes, ThreadPc,
        MainPc
  <2>4. MonitorDiscipline'
    BY <1>1, <2>1, ConstantsAssumption DEF IInv, TypeOK, PcTypes,
        MonitorDiscipline, Critical, ThreadPc, MainPc
  <2>5. DeadHostEvicted'
    BY <1>1, <2>1, ConstantsAssumption DEF IInv, TypeOK, TableTypes, PcTypes,
        LocalTypes, DeadHostEvicted, ObjDiscipline, NewHostDiscipline,
        OwnApplication, Keys, Born
  <2>6. ObjDiscipline'
    BY <1>1, <2>1, ConstantsAssumption DEF IInv, TypeOK, TableTypes, PcTypes,
        LocalTypes, ObjDiscipline, SlotDiscipline, OwnApplication, Keys, Born
  <2>7. NewHostDiscipline'
    BY <1>1, <2>1, ConstantsAssumption DEF IInv, TypeOK, PcTypes, LocalTypes,
        NewHostDiscipline, ThreadPc, MainPc
  <2>8. SlotDiscipline'
    BY <1>1, <2>1, ConstantsAssumption DEF IInv, TypeOK, TableTypes, PcTypes,
        LocalTypes, SlotDiscipline, MonitorDiscipline, StartupDiscipline,
        Critical, Keys
  <2>9. StartupDiscipline'
    BY <1>1, <2>1, ConstantsAssumption DEF IInv, TypeOK, TableTypes, PcTypes,
        LocalTypes, FlagTypes, StartupDiscipline, MonitorDiscipline, Critical,
        Keys
  <2>10. QED  BY <2>2, <2>3, <2>4, <2>5, <2>6, <2>7, <2>8, <2>9 DEF IInv, TypeOK
<1>2. CASE ~utf8_encoding
  BY <1>2, AnswerInv DEF Restart
<1>3. QED  BY <1>1, <1>2

(* Monitor::Enter returned.                                                *)
LEMMA EnterMonitorInv ==
    ASSUME IInv,
           NEW t \in Threads,
           EnterMonitor(t)
    PROVE  IInv'
<1>1. (FlagTypes /\ LocalTypes /\ OwnApplication)'
  BY DEF IInv, TypeOK, EnterMonitor, FlagTypes, LocalTypes, OwnApplication,
      Keys
<1>2. TableTypes'
  BY ConstantsAssumption DEF IInv, TypeOK, EnterMonitor, TableTypes, PcTypes,
      LocalTypes, NewHostDiscipline, Keys, Born
<1>3. PcTypes'
  BY ConstantsAssumption DEF IInv, TypeOK, EnterMonitor, PcTypes, ThreadPc,
      MainPc
<1>4. MonitorDiscipline'
  BY ConstantsAssumption DEF IInv, TypeOK, EnterMonitor, PcTypes,
      MonitorDiscipline, Critical, ThreadPc, MainPc
<1>5. DeadHostEvicted'
  BY ConstantsAssumption DEF IInv, TypeOK, EnterMonitor, TableTypes, PcTypes,
      LocalTypes, DeadHostEvicted, ObjDiscipline, NewHostDiscipline,
      OwnApplication, Keys, Born
<1>6. ObjDiscipline'
  BY ConstantsAssumption DEF IInv, TypeOK, EnterMonitor, TableTypes, PcTypes,
      LocalTypes, ObjDiscipline, SlotDiscipline, OwnApplication, Keys, Born
<1>7. NewHostDiscipline'
  BY ConstantsAssumption DEF IInv, TypeOK, EnterMonitor, PcTypes, LocalTypes,
      NewHostDiscipline, ThreadPc, MainPc
<1>8. SlotDiscipline'
  BY ConstantsAssumption DEF IInv, TypeOK, EnterMonitor, TableTypes, PcTypes,
      LocalTypes, SlotDiscipline, MonitorDiscipline, StartupDiscipline,
      Critical, Keys
<1>9. StartupDiscipline'
  BY ConstantsAssumption DEF IInv, TypeOK, EnterMonitor, TableTypes, PcTypes,
      LocalTypes, FlagTypes, StartupDiscipline, MonitorDiscipline, Critical,
      Keys
<1>10. QED  BY <1>1, <1>2, <1>3, <1>4, <1>5, <1>6, <1>7, <1>8, <1>9 DEF IInv, TypeOK

(* The slot is compared with the stale host, and emptied when it is the same.*)
LEMMA RecheckInv ==
    ASSUME IInv,
           NEW t \in Threads,
           Recheck(t)
    PROVE  IInv'
<1>1. CASE lists /\ hostObj[key[t]] = obj[t]
  <2>1. /\ pc[t] = "locked" /\ hostObj[key[t]] = obj[t]
        /\ hostObj' = [hostObj EXCEPT ![key[t]] = NoHost]
        /\ pc' = [pc EXCEPT ![t] = IF obj[t] = NoHost THEN "create" ELSE "exit"]
        /\ UNCHANGED <<factory, world, monitor, locals, disposing>>
    BY <1>1, ConstantsAssumption DEF Recheck, ClearSlot
  <2>2. (FlagTypes /\ LocalTypes)'
    BY <2>1 DEF IInv, TypeOK, FlagTypes, LocalTypes, Keys
  <2>3. TableTypes'
    BY <1>1, <2>1, ConstantsAssumption DEF IInv, TypeOK, TableTypes, PcTypes,
        LocalTypes, NewHostDiscipline, Keys, Born
  <2>4. PcTypes'
    BY <1>1, <2>1, ConstantsAssumption DEF IInv, TypeOK, PcTypes, ThreadPc,
        MainPc
  <2>5. MonitorDiscipline'
    BY <1>1, <2>1, ConstantsAssumption DEF IInv, TypeOK, PcTypes,
        MonitorDiscipline, Critical, ThreadPc, MainPc
  <2>6. OwnApplication'
    BY <1>1, <2>1, ConstantsAssumption DEF IInv, TypeOK, TableTypes, PcTypes,
        LocalTypes, OwnApplication, ObjDiscipline, NewHostDiscipline,
        SlotDiscipline, Keys, Born
  <2>7. DeadHostEvicted'
    BY <1>1, <2>1, ConstantsAssumption DEF IInv, TypeOK, TableTypes, PcTypes,
        LocalTypes, DeadHostEvicted, ObjDiscipline, NewHostDiscipline,
        OwnApplication, Keys, Born
  <2>8. ObjDiscipline'
    BY <1>1, <2>1, ConstantsAssumption DEF IInv, TypeOK, TableTypes, PcTypes,
        LocalTypes, ObjDiscipline, SlotDiscipline, OwnApplication, Keys, Born
  <2>9. NewHostDiscipline'
    BY <1>1, <2>1, ConstantsAssumption DEF IInv, TypeOK, PcTypes, LocalTypes,
        NewHostDiscipline, ThreadPc, MainPc
  <2>10. SlotDiscipline'
    BY <1>1, <2>1, ConstantsAssumption DEF IInv, TypeOK, TableTypes, PcTypes,
        LocalTypes, SlotDiscipline, MonitorDiscipline, StartupDiscipline,
        Critical, Keys
  <2>11. StartupDiscipline'
    BY <1>1, <2>1, ConstantsAssumption DEF IInv, TypeOK, TableTypes, PcTypes,
        LocalTypes, FlagTypes, StartupDiscipline, MonitorDiscipline, Critical,
        Keys
  <2>12. QED  BY <2>2, <2>3, <2>4, <2>5, <2>6, <2>7, <2>8, <2>9, <2>10, <2>11 DEF IInv, TypeOK
<1>2. CASE lists /\ hostObj[key[t]] # obj[t]
  <2>1. /\ pc[t] = "locked" /\ hostObj[key[t]] # obj[t]
        /\ pc' = [pc EXCEPT ![t] = IF obj[t] = NoHost THEN "create" ELSE "exit"]
        /\ UNCHANGED <<factory, hostObj, world, monitor, locals, disposing>>
    BY <1>2, ConstantsAssumption DEF Recheck
  <2>2. (FlagTypes /\ TableTypes /\ LocalTypes /\ OwnApplication)'
    BY <2>1 DEF IInv, TypeOK, FlagTypes, TableTypes, LocalTypes,
        OwnApplication, Keys
  <2>3. PcTypes'
    BY <1>2, <2>1, ConstantsAssumption DEF IInv, TypeOK, PcTypes, ThreadPc,
        MainPc
  <2>4. MonitorDiscipline'
    BY <1>2, <2>1, ConstantsAssumption DEF IInv, TypeOK, PcTypes,
        MonitorDiscipline, Critical, ThreadPc, MainPc
  <2>5. DeadHostEvicted'
    BY <1>2, <2>1, ConstantsAssumption DEF IInv, TypeOK, TableTypes, PcTypes,
        LocalTypes, DeadHostEvicted, ObjDiscipline, NewHostDiscipline,
        OwnApplication, Keys, Born
  <2>6. ObjDiscipline'
    BY <1>2, <2>1, ConstantsAssumption DEF IInv, TypeOK, TableTypes, PcTypes,
        LocalTypes, ObjDiscipline, SlotDiscipline, OwnApplication, Keys, Born
  <2>7. NewHostDiscipline'
    BY <1>2, <2>1, ConstantsAssumption DEF IInv, TypeOK, PcTypes, LocalTypes,
        NewHostDiscipline, ThreadPc, MainPc
  <2>8. SlotDiscipline'
    BY <1>2, <2>1, ConstantsAssumption DEF IInv, TypeOK, TableTypes, PcTypes,
        LocalTypes, SlotDiscipline, MonitorDiscipline, StartupDiscipline,
        Critical, Keys
  <2>9. StartupDiscipline'
    BY <1>2, <2>1, ConstantsAssumption DEF IInv, TypeOK, TableTypes, PcTypes,
        LocalTypes, FlagTypes, StartupDiscipline, MonitorDiscipline, Critical,
        Keys
  <2>10. QED  BY <2>2, <2>3, <2>4, <2>5, <2>6, <2>7, <2>8, <2>9 DEF IInv, TypeOK
<1>3. CASE ~lists
  BY <1>3, ThreadGivesUpInv DEF Recheck, Critical, IInv, TypeOK, TableTypes
<1>4. QED  BY <1>1, <1>2, <1>3

(* The slot is read again after ConnectHost.                               *)
LEMMA QueryHostInv ==
    ASSUME IInv,
           NEW t \in Threads,
           QueryHost(t)
    PROVE  IInv'
<1>1. CASE lists /\ hostObj[key[t]] # NoHost
  <2>1. /\ pc[t] = "query" /\ hostObj[key[t]] # NoHost
        /\ obj' = [obj EXCEPT ![t] = hostObj[key[t]]]
        /\ pc' = [pc EXCEPT ![t] = "exit"]
        /\ UNCHANGED <<factory, hostObj, world, monitor, key, newHost, status, disposing>>
    BY <1>1, ConstantsAssumption DEF QueryHost
  <2>2. (FlagTypes /\ TableTypes)'
    BY <2>1 DEF IInv, TypeOK, FlagTypes, TableTypes, Keys
  <2>3. PcTypes'
    BY <1>1, <2>1, ConstantsAssumption DEF IInv, TypeOK, PcTypes, ThreadPc,
        MainPc
  <2>4. LocalTypes'
    BY <1>1, <2>1, ConstantsAssumption DEF IInv, TypeOK, TableTypes, PcTypes,
        LocalTypes, Keys
  <2>5. MonitorDiscipline'
    BY <1>1, <2>1, ConstantsAssumption DEF IInv, TypeOK, PcTypes,
        MonitorDiscipline, Critical, ThreadPc, MainPc
  <2>6. OwnApplication'
    BY <1>1, <2>1, ConstantsAssumption DEF IInv, TypeOK, TableTypes, PcTypes,
        LocalTypes, OwnApplication, ObjDiscipline, NewHostDiscipline,
        SlotDiscipline, Keys, Born
  <2>7. DeadHostEvicted'
    BY <1>1, <2>1, ConstantsAssumption DEF IInv, TypeOK, TableTypes, PcTypes,
        LocalTypes, DeadHostEvicted, ObjDiscipline, NewHostDiscipline,
        OwnApplication, Keys, Born
  <2>8. ObjDiscipline'
    BY <1>1, <2>1, ConstantsAssumption DEF IInv, TypeOK, TableTypes, PcTypes,
        LocalTypes, ObjDiscipline, SlotDiscipline, OwnApplication, Keys, Born
  <2>9. NewHostDiscipline'
    BY <1>1, <2>1, ConstantsAssumption DEF IInv, TypeOK, PcTypes, LocalTypes,
        NewHostDiscipline, ThreadPc, MainPc
  <2>10. SlotDiscipline'
    BY <1>1, <2>1, ConstantsAssumption DEF IInv, TypeOK, TableTypes, PcTypes,
        LocalTypes, SlotDiscipline, MonitorDiscipline, StartupDiscipline,
        Critical, Keys
  <2>11. StartupDiscipline'
    BY <1>1, <2>1, ConstantsAssumption DEF IInv, TypeOK, TableTypes, PcTypes,
        LocalTypes, FlagTypes, StartupDiscipline, MonitorDiscipline, Critical,
        Keys
  <2>12. QED  BY <2>2, <2>3, <2>4, <2>5, <2>6, <2>7, <2>8, <2>9, <2>10, <2>11 DEF IInv, TypeOK
<1>2. CASE ~(lists /\ hostObj[key[t]] # NoHost)
  BY <1>2, ThreadGivesUpInv DEF QueryHost, Critical, IInv, TypeOK, TableTypes
<1>3. QED  BY <1>1, <1>2

(* Monitor::Exit before the second try.                                    *)
LEMMA ExitMonitorInv ==
    ASSUME IInv,
           NEW t \in Threads,
           ExitMonitor(t)
    PROVE  IInv'
<1>1. (FlagTypes /\ LocalTypes /\ OwnApplication)'
  BY DEF IInv, TypeOK, ExitMonitor, FlagTypes, LocalTypes, OwnApplication, Keys
<1>2. TableTypes'
  BY ConstantsAssumption DEF IInv, TypeOK, ExitMonitor, TableTypes, PcTypes,
      LocalTypes, NewHostDiscipline, Keys, Born
<1>3. PcTypes'
  BY ConstantsAssumption DEF IInv, TypeOK, ExitMonitor, PcTypes, ThreadPc,
      MainPc
<1>4. MonitorDiscipline'
  BY ConstantsAssumption DEF IInv, TypeOK, ExitMonitor, PcTypes,
      MonitorDiscipline, Critical, ThreadPc, MainPc
<1>5. DeadHostEvicted'
  BY ConstantsAssumption DEF IInv, TypeOK, ExitMonitor, TableTypes, PcTypes,
      LocalTypes, DeadHostEvicted, ObjDiscipline, NewHostDiscipline,
      OwnApplication, Keys, Born
<1>6. ObjDiscipline'
  BY ConstantsAssumption DEF IInv, TypeOK, ExitMonitor, TableTypes, PcTypes,
      LocalTypes, ObjDiscipline, SlotDiscipline, OwnApplication, Keys, Born
<1>7. NewHostDiscipline'
  BY ConstantsAssumption DEF IInv, TypeOK, ExitMonitor, PcTypes, LocalTypes,
      NewHostDiscipline, ThreadPc, MainPc
<1>8. SlotDiscipline'
  BY ConstantsAssumption DEF IInv, TypeOK, ExitMonitor, TableTypes, PcTypes,
      LocalTypes, SlotDiscipline, MonitorDiscipline, StartupDiscipline,
      Critical, Keys
<1>9. StartupDiscipline'
  BY ConstantsAssumption DEF IInv, TypeOK, ExitMonitor, TableTypes, PcTypes,
      LocalTypes, FlagTypes, StartupDiscipline, MonitorDiscipline, Critical,
      Keys
<1>10. QED  BY <1>1, <1>2, <1>3, <1>4, <1>5, <1>6, <1>7, <1>8, <1>9 DEF IInv, TypeOK

(* The destructor of a host starts.                                        *)
LEMMA DisposeInv ==
    ASSUME IInv,
           NEW h \in Hosts,
           Dispose(h)
    PROVE  IInv'
<1>1.
      (FlagTypes /\ PcTypes /\ LocalTypes /\ MonitorDiscipline /\ OwnApplication /\ DeadHostEvicted /\ ObjDiscipline /\ NewHostDiscipline /\ SlotDiscipline /\ StartupDiscipline)'
  BY DEF IInv, TypeOK, Dispose, FlagTypes, PcTypes, LocalTypes,
      MonitorDiscipline, OwnApplication, DeadHostEvicted, ObjDiscipline,
      NewHostDiscipline, SlotDiscipline, StartupDiscipline, Keys
<1>2. TableTypes'
  BY ConstantsAssumption DEF IInv, TypeOK, Dispose, TableTypes, PcTypes,
      LocalTypes, NewHostDiscipline, Keys, Born
<1>3. QED  BY <1>1, <1>2 DEF IInv, TypeOK

(* HostFinalized takes the Monitor.                                        *)
LEMMA HostFinalizedEnterInv ==
    ASSUME IInv,
           HostFinalizedEnter
    PROVE  IInv'
<1>1.
      (FlagTypes /\ PcTypes /\ LocalTypes /\ OwnApplication /\ DeadHostEvicted /\ ObjDiscipline /\ NewHostDiscipline /\ SlotDiscipline /\ StartupDiscipline)'
  BY DEF IInv, TypeOK, HostFinalizedEnter, FlagTypes, PcTypes, LocalTypes,
      OwnApplication, DeadHostEvicted, ObjDiscipline, NewHostDiscipline,
      SlotDiscipline, StartupDiscipline, Keys
<1>2. TableTypes'
  BY ConstantsAssumption DEF IInv, TypeOK, HostFinalizedEnter, TableTypes,
      PcTypes, LocalTypes, NewHostDiscipline, Keys, Born
<1>3. MonitorDiscipline'
  BY ConstantsAssumption DEF IInv, TypeOK, HostFinalizedEnter, PcTypes,
      MonitorDiscipline, Critical, ThreadPc, MainPc
<1>4. QED  BY <1>1, <1>2, <1>3 DEF IInv, TypeOK

(* HostFinalized empties the slot of its own host only.                    *)
LEMMA HostFinalizedInv ==
    ASSUME IInv,
           HostFinalized
    PROVE  IInv'
<1>1. CASE hostObj[app[disposing]] = disposing
  <2>1. /\ disposing # NoHost /\ monitor \in {Disposer, DisposerStuck}
        /\ hostObj' = [hostObj EXCEPT ![app[disposing]] = NoHost]
        /\ monitor' \in {DisposerStuck, NoThread} /\ disposing' = NoHost
        /\ UNCHANGED <<factory, world, pc, locals>>
    BY <1>1, ConstantsAssumption DEF HostFinalized, InHostFinalized, ClearSlot
  <2>2.
        (FlagTypes /\ PcTypes /\ LocalTypes /\ ObjDiscipline /\ NewHostDiscipline)'
    BY <2>1 DEF IInv, TypeOK, FlagTypes, PcTypes, LocalTypes, ObjDiscipline,
        NewHostDiscipline, Keys
  <2>3. TableTypes'
    BY <1>1, <2>1, ConstantsAssumption DEF IInv, TypeOK, TableTypes, PcTypes,
        LocalTypes, NewHostDiscipline, Keys, Born
  <2>4. MonitorDiscipline'
    BY <1>1, <2>1, ConstantsAssumption DEF IInv, TypeOK, PcTypes,
        MonitorDiscipline, Critical, ThreadPc, MainPc
  <2>5. OwnApplication'
    BY <1>1, <2>1, ConstantsAssumption DEF IInv, TypeOK, TableTypes, PcTypes,
        LocalTypes, OwnApplication, ObjDiscipline, NewHostDiscipline,
        SlotDiscipline, Keys, Born
  <2>6. DeadHostEvicted'
    BY <1>1, <2>1, ConstantsAssumption DEF IInv, TypeOK, TableTypes, PcTypes,
        LocalTypes, DeadHostEvicted, ObjDiscipline, NewHostDiscipline,
        OwnApplication, Keys, Born
  <2>7. SlotDiscipline'
    BY <1>1, <2>1, ConstantsAssumption DEF IInv, TypeOK, TableTypes, PcTypes,
        LocalTypes, SlotDiscipline, MonitorDiscipline, StartupDiscipline,
        Critical, Keys
  <2>8. StartupDiscipline'
    BY <1>1, <2>1, ConstantsAssumption DEF IInv, TypeOK, TableTypes, PcTypes,
        LocalTypes, FlagTypes, StartupDiscipline, MonitorDiscipline, Critical,
        Keys
  <2>9. QED  BY <2>2, <2>3, <2>4, <2>5, <2>6, <2>7, <2>8 DEF IInv, TypeOK
<1>2. CASE hostObj[app[disposing]] # disposing
  <2>1. /\ disposing # NoHost /\ monitor \in {Disposer, DisposerStuck}
        /\ monitor' \in {DisposerStuck, NoThread} /\ disposing' = NoHost
        /\ UNCHANGED <<factory, hostObj, world, pc, locals>>
    BY <1>2, ConstantsAssumption DEF HostFinalized, InHostFinalized
  <2>2.
        (FlagTypes /\ PcTypes /\ LocalTypes /\ OwnApplication /\ DeadHostEvicted /\ ObjDiscipline /\ NewHostDiscipline /\ SlotDiscipline /\ StartupDiscipline)'
    BY <2>1 DEF IInv, TypeOK, FlagTypes, PcTypes, LocalTypes, OwnApplication,
        DeadHostEvicted, ObjDiscipline, NewHostDiscipline, SlotDiscipline,
        StartupDiscipline, Keys
  <2>3. TableTypes'
    BY <1>2, <2>1, ConstantsAssumption DEF IInv, TypeOK, TableTypes, PcTypes,
        LocalTypes, NewHostDiscipline, Keys, Born
  <2>4. MonitorDiscipline'
    BY <1>2, <2>1, ConstantsAssumption DEF IInv, TypeOK, PcTypes,
        MonitorDiscipline, Critical, ThreadPc, MainPc
  <2>5. QED  BY <2>2, <2>3, <2>4 DEF IInv, TypeOK
<1>3. QED  BY <1>1, <1>2

(* HostFinalized throws and leaves the Monitor locked.                     *)
LEMMA HostFinalizedThrowsInv ==
    ASSUME IInv,
           HostFinalizedThrows
    PROVE  IInv'
<1>1.
      (FlagTypes /\ PcTypes /\ LocalTypes /\ OwnApplication /\ DeadHostEvicted /\ ObjDiscipline /\ NewHostDiscipline /\ SlotDiscipline /\ StartupDiscipline)'
  BY DEF IInv, TypeOK, HostFinalizedThrows, FlagTypes, PcTypes, LocalTypes,
      OwnApplication, DeadHostEvicted, ObjDiscipline, NewHostDiscipline,
      SlotDiscipline, StartupDiscipline, Keys
<1>2. TableTypes'
  BY ConstantsAssumption DEF IInv, TypeOK, HostFinalizedThrows, TableTypes,
      PcTypes, LocalTypes, NewHostDiscipline, Keys, Born
<1>3. MonitorDiscipline'
  BY ConstantsAssumption DEF IInv, TypeOK, HostFinalizedThrows, InHostFinalized, PcTypes,
      MonitorDiscipline, Critical, ThreadPc, MainPc
<1>4. QED  BY <1>1, <1>2, <1>3 DEF IInv, TypeOK

(* An application domain is unloaded.                                      *)
LEMMA LoseHostInv ==
    ASSUME IInv,
           NEW h \in Hosts,
           LoseHost(h)
    PROVE  IInv'
<1>1.
      (FlagTypes /\ PcTypes /\ LocalTypes /\ MonitorDiscipline /\ OwnApplication /\ NewHostDiscipline /\ SlotDiscipline /\ StartupDiscipline)'
  BY DEF IInv, TypeOK, LoseHost, FlagTypes, PcTypes, LocalTypes,
      MonitorDiscipline, OwnApplication, NewHostDiscipline, SlotDiscipline,
      StartupDiscipline, Keys
<1>2. TableTypes'
  BY ConstantsAssumption DEF IInv, TypeOK, LoseHost, TableTypes, PcTypes,
      LocalTypes, NewHostDiscipline, Keys, Born
<1>3. DeadHostEvicted'
  BY ConstantsAssumption DEF IInv, TypeOK, LoseHost, TableTypes, PcTypes,
      LocalTypes, DeadHostEvicted, ObjDiscipline, NewHostDiscipline,
      OwnApplication, Keys, Born
<1>4. ObjDiscipline'
  BY ConstantsAssumption DEF IInv, TypeOK, LoseHost, TableTypes, PcTypes,
      LocalTypes, ObjDiscipline, SlotDiscipline, OwnApplication, Keys, Born
<1>5. QED  BY <1>1, <1>2, <1>3, <1>4 DEF IInv, TypeOK

(* A lost host nobody refers to is reclaimed.                              *)
LEMMA CollectInv ==
    ASSUME IInv,
           NEW h \in Hosts,
           Collect(h)
    PROVE  IInv'
<1>1.
      (FlagTypes /\ PcTypes /\ LocalTypes /\ MonitorDiscipline /\ NewHostDiscipline /\ SlotDiscipline /\ StartupDiscipline)'
  BY DEF IInv, TypeOK, Collect, Referenced, FlagTypes, PcTypes, LocalTypes,
      MonitorDiscipline, NewHostDiscipline, SlotDiscipline, StartupDiscipline,
      Keys
<1>2. TableTypes'
  BY ConstantsAssumption DEF IInv, TypeOK, Collect, Referenced, TableTypes,
      PcTypes, LocalTypes, NewHostDiscipline, Keys, Born
<1>3. OwnApplication'
  BY ConstantsAssumption DEF IInv, TypeOK, Collect, Referenced, TableTypes,
      PcTypes, LocalTypes, OwnApplication, ObjDiscipline, NewHostDiscipline,
      SlotDiscipline, Keys, Born
<1>4. DeadHostEvicted'
  BY ConstantsAssumption DEF IInv, TypeOK, Collect, Referenced, TableTypes,
      PcTypes, LocalTypes, DeadHostEvicted, ObjDiscipline, NewHostDiscipline,
      OwnApplication, Keys, Born
<1>5. ObjDiscipline'
  BY ConstantsAssumption DEF IInv, TypeOK, Collect, Referenced, TableTypes,
      PcTypes, LocalTypes, ObjDiscipline, SlotDiscipline, OwnApplication, Keys,
      Born
<1>6. QED  BY <1>1, <1>2, <1>3, <1>4, <1>5 DEF IInv, TypeOK
-----------------------------------------------------------------------------
(* The state HostFactory's constructor leaves satisfies IInv.              *)
LEMMA InitInv == ASSUME Init PROVE IInv
<1>1. FlagTypes /\ TableTypes /\ LocalTypes
  BY ConstantsAssumption DEF Init, FlagTypes, TableTypes, LocalTypes, Keys
<1>2. PcTypes
  BY ConstantsAssumption DEF Init, PcTypes, ThreadPc, MainPc
<1>3. MonitorDiscipline
  BY ConstantsAssumption DEF Init, MonitorDiscipline, Critical
<1>4. OwnApplication /\ DeadHostEvicted
  BY ConstantsAssumption DEF Init, OwnApplication, DeadHostEvicted
<1>5. ObjDiscipline /\ NewHostDiscipline /\ SlotDiscipline
  BY ConstantsAssumption DEF Init, ObjDiscipline, NewHostDiscipline, SlotDiscipline, ThreadPc
<1>6. StartupDiscipline
  BY ConstantsAssumption DEF Init, StartupDiscipline
<1>7. QED  BY <1>1, <1>2, <1>3, <1>4, <1>5, <1>6 DEF IInv, TypeOK

(* Every step of the factory, its callers and ASP.NET preserves IInv.      *)
LEMMA NextInv == ASSUME IInv, [Next]_vars PROVE IInv'
<1>1. CASE MainStep
  BY <1>1, CreateHostInv, StartServingInv, DestroyInv, DestroySlotInv, DestroyListsInv
     DEF MainStep
<1>2. ASSUME NEW a \in Callers, ConnectHost(a) PROVE IInv'
  BY <1>2, CreateApplicationHostInv, CreateApplicationHostNullInv,
     CreateApplicationHostThrowsInv, ConfigureInv, ConfigureThrowsInv DEF ConnectHost
<1>3. ASSUME NEW t \in Threads, NEW k \in Keys, Arrive(t, k) PROVE IInv'
  BY <1>3, ArriveInv
<1>4. ASSUME NEW t \in Threads, RequestStep(t) \/ EnterMonitor(t) PROVE IInv'
  BY <1>4, LookupInv, CallReturnsInv, CallRemotingExceptionInv, CallExceptionInv,
     RestartInv, EnterMonitorInv, RecheckInv, QueryHostInv, ExitMonitorInv DEF RequestStep
<1>5. ASSUME NEW h \in Hosts, Dispose(h) \/ LoseHost(h) \/ Collect(h) PROVE IInv'
  BY <1>5, DisposeInv, LoseHostInv, CollectInv
<1>6. CASE FinalizerStep
  BY <1>6, HostFinalizedEnterInv, HostFinalizedInv, HostFinalizedThrowsInv DEF FinalizerStep
<1>7. CASE UNCHANGED vars
  <2>1. FlagTypes' /\ TableTypes' /\ PcTypes' /\ LocalTypes'
    BY <1>7 DEF vars, IInv, TypeOK, FlagTypes, TableTypes, PcTypes, LocalTypes, Keys
  <2>2. MonitorDiscipline' /\ OwnApplication' /\ DeadHostEvicted'
    BY <1>7 DEF vars, IInv, MonitorDiscipline, OwnApplication, DeadHostEvicted
  <2>3. ObjDiscipline' /\ NewHostDiscipline' /\ SlotDiscipline' /\ StartupDiscipline'
    BY <1>7 DEF vars, IInv, ObjDiscipline, NewHostDiscipline, SlotDiscipline, StartupDiscipline
  <2>4. QED  BY <2>1, <2>2, <2>3 DEF IInv, TypeOK
<1>8. QED  BY <1>1, <1>2, <1>3, <1>4, <1>5, <1>6, <1>7 DEF Next

(* IInv holds in every reachable state of the factory.                     *)
THEOREM Invariance == Spec => []IInv
<1>1. Init => IInv  BY InitInv
<1>2. IInv /\ [Next]_vars => IInv'  BY NextInv
<1>3. QED  BY <1>1, <1>2, PTL DEF Spec

(* Every index used with the lists of the factory is an entry of them, and *)
(* every other variable keeps its type.                                    *)
THEOREM TypeCorrect == Spec => []TypeOK
<1>1. IInv => TypeOK  BY DEF IInv
<1>2. QED  BY <1>1, Invariance, PTL

(* No path out of HandleHostRequest leaves the Monitor locked.             *)
THEOREM MonitorIsReleased == Spec => []MonitorDiscipline
<1>1. IInv => MonitorDiscipline  BY DEF IInv
<1>2. QED  BY <1>1, Invariance, PTL

(* ConnectHost runs on one thread at a time, CreateHost's unlocked call of *)
(* it included.                                                            *)
THEOREM ConnectIsExclusive == Spec => []OneConnectAtATime
<1>1. IInv => OneConnectAtATime
  <2>1. SUFFICES ASSUME IInv, NEW a \in Callers, NEW b \in Callers,
                        pc[a] \in {"create", "configure"}, pc[b] \in {"create", "configure"}
                 PROVE  a = b
    BY DEF OneConnectAtATime
  <2>2. CASE a \in Threads /\ b \in Threads
    BY <2>1, <2>2 DEF IInv, MonitorDiscipline, Critical
  <2>3. CASE a = Main \/ b = Main
    BY <2>1, <2>3 DEF IInv, StartupDiscipline
  <2>4. QED  BY <2>2, <2>3
<1>2. QED  BY <1>1, Invariance, PTL

(* HandleHostRequest never calls the application of another mount.         *)
THEOREM RequestsReachTheirOwnApplication == Spec => []OwnApplication
<1>1. IInv => OwnApplication  BY DEF IInv
<1>2. QED  BY <1>1, Invariance, PTL

(* A thread that found its host gone has evicted it before it answers.     *)
THEOREM DeadHostsAreEvicted == Spec => []DeadHostEvicted
<1>1. IInv => DeadHostEvicted  BY DEF IInv
<1>2. QED  BY <1>1, Invariance, PTL

-----------------------------------------------------------------------------
(* The refinement of RequestService.                                       *)

(* A step the service does not show, but for the applications that are up. *)
Silent ==
    /\ \A t \in Threads : (pc'[t] = "idle") <=> (pc[t] = "idle")
    /\ \A t \in Threads : key'[t] = key[t]
    /\ UNCHANGED status

(* The end of a request.  Only a host that is alive can have served it.    *)
Ends(t, s) ==
    /\ pc[t] # "idle" /\ Answer(t, s)
    /\ s = "served" => obj[t] \in Hosts \ lost
    /\ UNCHANGED <<world, key>>

(* A step that ends no request and starts none is a Change of the service. *)
LEMMA SilentMaps ==
    ASSUME IInv, IInv', Silent
    PROVE  [Service!Next]_(Service!vars)
<1>1. UNCHANGED <<{t \in Threads : pc[t] # "idle"}, [t \in Threads |-> key[t]], status>>
  BY DEF Silent
<1>2. {app'[h] : h \in (Born \ lost)'} \in SUBSET Keys
  BY DEF IInv, TypeOK, TableTypes, Born
<1>3. Service!Change
  BY <1>1, <1>2 DEF Service!Change
<1>4. QED  BY <1>3 DEF Service!Next

(* The end of a request is a Reply of the service, because obj is a host of*)
(* the request's own mount.                                                *)
LEMMA EndsMaps ==
    ASSUME IInv, NEW t \in Threads, NEW s \in {"served", "500"}, Ends(t, s)
    PROVE  [Service!Next]_(Service!vars)
<1>1. t \in {u \in Threads : pc[u] # "idle"}
  BY DEF Ends
<1>2. ASSUME s = "served"
      PROVE  [u \in Threads |-> key[u]][t] \in {app[h] : h \in Born \ lost}
  <2>1. obj[t] \in Hosts \ lost /\ app[obj[t]] = key[t]
    BY <1>2, ConstantsAssumption DEF Ends, IInv, OwnApplication
  <2>2. obj[t] \in Born \ lost
    BY <2>1 DEF IInv, TypeOK, LocalTypes, Keys, Born
  <2>3. QED  BY <2>1, <2>2
<1>3. {u \in Threads : pc'[u] # "idle"} = {u \in Threads : pc[u] # "idle"} \ {t}
  BY ConstantsAssumption DEF Ends, Answer, IInv, TypeOK, PcTypes
<1>4. /\ status' = [status EXCEPT ![t] = s]
      /\ [u \in Threads |-> key'[u]] = [u \in Threads |-> key[u]]
      /\ {app'[h] : h \in (Born \ lost)'} = {app[h] : h \in Born \ lost}
  BY DEF Ends, Answer, Born
<1>5. Service!Reply(t, s)
  BY <1>1, <1>2, <1>3, <1>4 DEF Service!Reply
<1>6. QED  BY <1>5 DEF Service!Next

(* Arrive implements Arrive.                                               *)
LEMMA ArriveMaps ==
    ASSUME IInv, NEW t \in Threads, NEW k \in Keys, Arrive(t, k)
    PROVE  [Service!Next]_(Service!vars)
<1>1. t \notin {u \in Threads : pc[u] # "idle"}
  BY DEF Arrive
<1>2. {u \in Threads : pc'[u] # "idle"} = {u \in Threads : pc[u] # "idle"} \cup {t}
  BY DEF Arrive, IInv, TypeOK, PcTypes
<1>3. [u \in Threads |-> key'[u]] = [[u \in Threads |-> key[u]] EXCEPT ![t] = k]
  BY DEF Arrive, IInv, TypeOK, LocalTypes
<1>4. /\ status' = [status EXCEPT ![t] = "none"]
      /\ {app'[h] : h \in (Born \ lost)'} = {app[h] : h \in Born \ lost}
  BY DEF Arrive, Born
<1>5. Service!Arrive(t, k)
  BY <1>1, <1>2, <1>3, <1>4 DEF Service!Arrive
<1>6. QED  BY <1>5 DEF Service!Next

(* The initial states map to initial states.                               *)
LEMMA InitMaps == ASSUME Init PROVE Service!Init
<1>1. {t \in Threads : pc[t] # "idle"} = {}
  BY ConstantsAssumption DEF Init
<1>2. [t \in Threads |-> key[t]] \in [Threads -> Keys]
  BY ConstantsAssumption DEF Init, Keys
<1>3. {app[h] : h \in Born \ lost} = {}
  BY DEF Init, Born
<1>4. QED  BY <1>1, <1>2, <1>3 DEF Init, Service!Init

(* Giving up ends a worker thread's request; in CreateHost there is none.  *)
LEMMA GiveUpEnds ==
    ASSUME IInv, NEW a \in Callers, pc[a] # "idle", GiveUp(a),
           UNCHANGED <<factory, world, key>>
    PROVE  Silent \/ \E t \in Threads : Ends(t, "500")
<1>1. CASE a = Main  BY <1>1, ConstantsAssumption DEF GiveUp, Silent, IInv, TypeOK, PcTypes
<1>2. CASE a # Main  BY <1>2 DEF GiveUp, Ends
<1>3. QED  BY <1>1, <1>2

(* No step of the main thread ends or starts a request.                    *)
LEMMA MainStepSilent == ASSUME IInv, MainStep PROVE Silent
  BY ConstantsAssumption DEF MainStep, CreateHost, StartServing, Destroy, DestroySlot,
     DestroyLists, Silent, IInv, TypeOK, PcTypes, LocalTypes

(* ConnectHost ends a request only by giving up.                           *)
LEMMA ConnectHostMaps ==
    ASSUME IInv, NEW a \in Callers, ConnectHost(a)
    PROVE  Silent \/ \E t \in Threads : Ends(t, "500")
<1>1. ASSUME NEW h \in Hosts, CreateApplicationHost(a, h) PROVE Silent
  BY <1>1, ConstantsAssumption DEF CreateApplicationHost, Silent, IInv, TypeOK, PcTypes
<1>2. CASE Configure(a)
  <2>1. CASE a = Main
    BY <1>2, <2>1, ConstantsAssumption DEF Configure, Silent, IInv, TypeOK, PcTypes
  <2>2. CASE a # Main
    BY <1>2, <2>2, ConstantsAssumption DEF Configure, Silent, IInv, TypeOK, PcTypes
  <2>3. QED  BY <2>1, <2>2
<1>3. CASE CreateApplicationHostNull(a)
  BY <1>3, GiveUpEnds DEF CreateApplicationHostNull
<1>4. CASE CreateApplicationHostThrows(a)
  BY <1>4, GiveUpEnds DEF CreateApplicationHostThrows
<1>5. CASE ConfigureThrows(a)
  BY <1>5, GiveUpEnds DEF ConfigureThrows
<1>6. QED  BY <1>1, <1>2, <1>3, <1>4, <1>5 DEF ConnectHost

(* A step of HandleHostRequest is silent or ends the request.              *)
LEMMA RequestStepMaps ==
    ASSUME IInv, NEW t \in Threads, RequestStep(t) \/ EnterMonitor(t)
    PROVE  Silent \/ \E s \in {"served", "500"} : Ends(t, s)
<1>1. CASE Lookup(t)
  <2>1. CASE lists
    BY <1>1, <2>1 DEF Lookup, Silent, IInv, TypeOK, PcTypes
  <2>2. CASE ~lists
    BY <1>1, <2>2 DEF Lookup, Ends
  <2>3. QED  BY <2>1, <2>2
<1>2. CASE CallReturns(t)
  BY <1>2 DEF CallReturns, Ends, IInv, TypeOK, LocalTypes, ObjDiscipline
<1>3. CASE CallRemotingException(t)
  BY <1>3 DEF CallRemotingException, Silent, IInv, TypeOK, PcTypes
<1>4. CASE CallException(t)
  BY <1>4 DEF CallException, Ends
<1>5. CASE Restart(t)
  <2>1. CASE utf8_encoding
    BY <1>5, <2>1 DEF Restart, Silent, IInv, TypeOK, PcTypes
  <2>2. CASE ~utf8_encoding
    BY <1>5, <2>2 DEF Restart, Ends
  <2>3. QED  BY <2>1, <2>2
<1>6. CASE Recheck(t)
  <2>1. CASE lists
    BY <1>6, <2>1 DEF Recheck, Silent, IInv, TypeOK, PcTypes
  <2>2. CASE ~lists
    BY <1>6, <2>2, ConstantsAssumption DEF Recheck, GiveUp, Ends
  <2>3. QED  BY <2>1, <2>2
<1>7. CASE QueryHost(t)
  <2>1. CASE lists /\ hostObj[key[t]] # NoHost
    BY <1>7, <2>1 DEF QueryHost, Silent, IInv, TypeOK, PcTypes
  <2>2. CASE ~(lists /\ hostObj[key[t]] # NoHost)
    BY <1>7, <2>2, ConstantsAssumption DEF QueryHost, GiveUp, Ends
  <2>3. QED  BY <2>1, <2>2
<1>8. CASE ExitMonitor(t) \/ EnterMonitor(t)
  BY <1>8 DEF ExitMonitor, EnterMonitor, Silent, IInv, TypeOK, PcTypes
<1>9. QED
  BY <1>1, <1>2, <1>3, <1>4, <1>5, <1>6, <1>7, <1>8 DEF RequestStep

(* Every step maps to a step of the service or to a stutter.               *)
LEMMA StepMaps ==
    ASSUME IInv, IInv', [Next]_vars
    PROVE  [Service!Next]_(Service!vars)
<1>1. CASE MainStep
  BY <1>1, MainStepSilent, SilentMaps
<1>2. ASSUME NEW a \in Callers, ConnectHost(a)
      PROVE  [Service!Next]_(Service!vars)
  BY <1>2, ConnectHostMaps, SilentMaps, EndsMaps
<1>3. ASSUME NEW t \in Threads, NEW k \in Keys, Arrive(t, k)
      PROVE  [Service!Next]_(Service!vars)
  BY <1>3, ArriveMaps
<1>4. ASSUME NEW t \in Threads, RequestStep(t) \/ EnterMonitor(t)
      PROVE  [Service!Next]_(Service!vars)
  BY <1>4, RequestStepMaps, SilentMaps, EndsMaps
<1>5. ASSUME NEW h \in Hosts, Dispose(h) \/ LoseHost(h) \/ Collect(h)
      PROVE  [Service!Next]_(Service!vars)
  <2>1. Silent  BY <1>5 DEF Dispose, LoseHost, Collect, Silent
  <2>2. QED  BY <2>1, SilentMaps
<1>6. CASE FinalizerStep
  <2>1. Silent
    BY <1>6 DEF FinalizerStep, HostFinalizedEnter, HostFinalized, HostFinalizedThrows, Silent
  <2>2. QED  BY <2>1, SilentMaps
<1>7. CASE UNCHANGED vars
  <2>1. Silent  BY <1>7 DEF vars, Silent
  <2>2. QED  BY <2>1, SilentMaps
<1>8. QED
  BY <1>1, <1>2, <1>3, <1>4, <1>5, <1>6, <1>7 DEF Next

(* The step that takes a live host from its slot is one of the two allowed.*)
LEMMA LiveHostKeptStep ==
    ASSUME IInv, [Next]_vars, NEW k \in Keys,
           utf8_encoding, hostObj[k] # NoHost, hostObj[k] \notin lost, hostObj'[k] # hostObj[k]
    PROVE  \/ disposing = hostObj[k]
           \/ \E t \in Threads : pc[t] = "create" /\ key[t] = k
<1> USE DEF IInv, TypeOK, TableTypes, LocalTypes, ClearSlot
<1>1. CASE MainStep
  BY <1>1 DEF MainStep, CreateHost, StartServing, Destroy, DestroySlot, DestroyLists,
     StartupDiscipline
<1>2. ASSUME NEW a \in Callers, ConnectHost(a)
      PROVE  pc[a] = "create" /\ key[a] = k /\ a # Main
  <2>1. pc[a] \in {"create", "configure"} /\ key[a] = k
    BY <1>2 DEF ConnectHost, CreateApplicationHost, CreateApplicationHostNull,
       CreateApplicationHostThrows, Configure, ConfigureThrows
  <2>2. pc[a] # "configure"
    <3>1. SUFFICES ASSUME pc[a] = "configure" PROVE FALSE
      OBVIOUS
    <3>2. hostObj[k] = newHost[a]
      BY <2>1, <3>1 DEF SlotDiscipline
    <3>3. ConfigureThrows(a)
      BY <1>2, <3>1 DEF ConnectHost, CreateApplicationHost, CreateApplicationHostNull,
         CreateApplicationHostThrows, Configure
    <3>4. QED
      BY <3>2, <3>3 DEF ConfigureThrows, StartupDiscipline
  <2>3. a # Main
    BY <2>1, <2>2 DEF StartupDiscipline
  <2>4. QED  BY <2>1, <2>2, <2>3
<1>3. ASSUME NEW t \in Threads, RequestStep(t) \/ EnterMonitor(t)
      PROVE  FALSE
  BY <1>3 DEF RequestStep, Lookup, CallReturns, CallRemotingException, CallException,
     Restart, EnterMonitor, Recheck, QueryHost, ExitMonitor, ObjDiscipline
<1>4. ASSUME NEW t \in Threads, NEW j \in Keys, Arrive(t, j) PROVE FALSE
  BY <1>4 DEF Arrive
<1>5. ASSUME NEW h \in Hosts, Dispose(h) \/ LoseHost(h) \/ Collect(h) PROVE FALSE
  BY <1>5 DEF Dispose, LoseHost, Collect
<1>6. CASE FinalizerStep
  BY <1>6 DEF FinalizerStep, HostFinalizedEnter, HostFinalized, HostFinalizedThrows
<1>7. CASE UNCHANGED vars  BY <1>7 DEF vars
<1>8. QED
  BY <1>1, <1>2, <1>3, <1>4, <1>5, <1>6, <1>7 DEF Next

(* A step that puts no new host in a slot or in a thread's hands, forgets  *)
(* no host, and ends a ConnectHost only with its host configured or gone.  *)
Keeps ==
    /\ lists' => lists
    /\ \A k \in Keys : hostObj'[k] \in {hostObj[k], NoHost}
    /\ \A t \in Threads : obj'[t] \in {obj[t], NoHost, hostObj[key[t]]}
    /\ configured \subseteq configured' /\ lost \subseteq lost'
    /\ \A a \in Callers : pc[a] = "configure" /\ lists' =>
        \/ pc'[a] = "configure" /\ newHost'[a] = newHost[a]
        \/ newHost[a] \in configured' \cup lost'

LEMMA KeepsTransient ==
    ASSUME IInv, UnconfiguredIsTransient, Keeps
    PROVE  UnconfiguredIsTransient'
<1>1. SUFFICES ASSUME lists', NEW h \in InUse', h # NoHost
               PROVE  \/ h \in configured' \cup lost'
                      \/ \E a \in Callers : pc'[a] = "configure" /\ newHost'[a] = h
  BY DEF UnconfiguredIsTransient
<1>2. h \in InUse
  <2>1. key \in [Callers -> Keys]  BY DEF IInv, TypeOK, LocalTypes
  <2>2. QED  BY <1>1, <2>1 DEF InUse, Keeps, Callers
<1>3. \/ h \in configured \cup lost
      \/ \E a \in Callers : pc[a] = "configure" /\ newHost[a] = h
  BY <1>1, <1>2 DEF UnconfiguredIsTransient, Keeps
<1>4. QED  BY <1>1, <1>3 DEF Keeps

(* Every step but the creation and the collection of a host is of this     *)
(* kind.                                                                   *)
LEMMA StepKeeps ==
    ASSUME IInv, [Next]_vars,
           \A a \in Callers, h \in Hosts : ~CreateApplicationHost(a, h),
           \A h \in Hosts : ~Collect(h)
    PROVE  Keeps
<1> USE DEF IInv, TypeOK, TableTypes, LocalTypes, PcTypes, ClearSlot, Callers, factory, world, locals
<1>1. CASE MainStep
  BY <1>1 DEF Keeps, MainStep, CreateHost, StartServing, Destroy, DestroySlot, DestroyLists
<1>2. ASSUME NEW a \in Callers, ConnectHost(a) PROVE Keeps
  <2>1. CASE CreateApplicationHostNull(a) \/ CreateApplicationHostThrows(a)
    BY <2>1 DEF Keeps, CreateApplicationHostNull, CreateApplicationHostThrows, GiveUp, Answer
  <2>2. CASE Configure(a)
    BY <2>2 DEF Keeps, Configure
  <2>3. CASE ConfigureThrows(a)
    BY <2>3 DEF Keeps, ConfigureThrows, GiveUp, Answer
  <2>4. QED  BY <1>2, <2>1, <2>2, <2>3 DEF ConnectHost
<1>3. ASSUME NEW t \in Threads, RequestStep(t) \/ EnterMonitor(t) PROVE Keeps
  <2>1. CASE Lookup(t)  BY <2>1 DEF Keeps, Lookup, Answer
  <2>2. CASE CallReturns(t)  BY <2>2 DEF Keeps, CallReturns, Answer
  <2>3. CASE CallRemotingException(t)  BY <2>3 DEF Keeps, CallRemotingException
  <2>4. CASE CallException(t)  BY <2>4 DEF Keeps, CallException, Answer
  <2>5. CASE Restart(t)  BY <2>5 DEF Keeps, Restart, Answer
  <2>6. CASE Recheck(t)  BY <2>6 DEF Keeps, Recheck, GiveUp, Answer
  <2>7. CASE QueryHost(t)  BY <2>7 DEF Keeps, QueryHost, GiveUp, Answer
  <2>8. CASE ExitMonitor(t) \/ EnterMonitor(t)  BY <2>8 DEF Keeps, ExitMonitor, EnterMonitor
  <2>9. QED
    BY <1>3, <2>1, <2>2, <2>3, <2>4, <2>5, <2>6, <2>7, <2>8 DEF RequestStep
<1>4. ASSUME NEW t \in Threads, NEW k \in Keys, Arrive(t, k) PROVE Keeps
  BY <1>4 DEF Keeps, Arrive
<1>5. ASSUME NEW h \in Hosts, Dispose(h) \/ LoseHost(h) PROVE Keeps
  BY <1>5 DEF Keeps, Dispose, LoseHost
<1>6. CASE FinalizerStep
  BY <1>6 DEF Keeps, FinalizerStep, HostFinalizedEnter, HostFinalized, HostFinalizedThrows
<1>7. CASE UNCHANGED vars  BY <1>7 DEF Keeps, vars
<1>8. QED
  BY <1>1, <1>2, <1>3, <1>4, <1>5, <1>6, <1>7 DEF Next

(* ConnectHost publishes a host it is about to configure.                  *)
LEMMA PublishedTransient ==
    ASSUME IInv, UnconfiguredIsTransient,
           NEW a \in Callers, NEW h \in Hosts, CreateApplicationHost(a, h)
    PROVE  UnconfiguredIsTransient'
<1>1. /\ pc'[a] = "configure" /\ newHost'[a] = h
      /\ \A b \in Callers \ {a} : pc'[b] = pc[b] /\ newHost'[b] = newHost[b]
      /\ pc[a] # "configure"
      /\ \A k \in Keys : hostObj'[k] \in {hostObj[k], h}
      /\ UNCHANGED <<lists, configured, lost, obj>>
  BY DEF CreateApplicationHost, factory, IInv, TypeOK, TableTypes, PcTypes, LocalTypes
<1>2. InUse' \subseteq InUse \cup {h}  BY <1>1 DEF InUse
<1>3. QED  BY <1>1, <1>2 DEF UnconfiguredIsTransient

(* The collector takes no host in use.                                     *)
LEMMA CollectedTransient ==
    ASSUME IInv, UnconfiguredIsTransient, NEW h \in Hosts, Collect(h)
    PROVE  UnconfiguredIsTransient'
<1>1. /\ h \notin InUse /\ lost' = lost \ {h} /\ configured' = configured \ {h}
      /\ UNCHANGED <<lists, hostObj, obj, pc, newHost>>
  BY DEF Collect, Referenced, InUse, factory, locals
<1>2. InUse' = InUse  BY <1>1 DEF InUse
<1>3. QED  BY <1>1, <1>2 DEF UnconfiguredIsTransient

(* HandleHostRequest answers each request once, by a live application of   *)
(* its own mount or with 500: HostFactory implements RequestService.       *)
THEOREM FactoryImplementsService == Spec => ImplementsService
<1>1. Init => Service!Init  BY InitMaps
<1>2. IInv /\ IInv' /\ [Next]_vars => [Service!Next]_(Service!vars)  BY StepMaps
<1>3. QED
  BY <1>1, <1>2, Invariance, PTL DEF Spec, ImplementsService, Service!Spec

(* While the factory is up, a live host leaves its slot only through its   *)
(* own destructor or because a thread that had found the slot empty        *)
(* connects another.                                                       *)
THEOREM LiveHostsAreKept == Spec => LiveHostKept
<1>1. IInv /\ [Next]_vars =>
        [\A k \in Keys :
            LET h == hostObj[k]
            IN  utf8_encoding /\ h # NoHost /\ h \notin lost /\ hostObj'[k] # h =>
                  \/ disposing = h
                  \/ \E t \in Threads : pc[t] = "create" /\ key[t] = k]_vars
  BY LiveHostKeptStep
<1>2. QED  BY <1>1, Invariance, PTL DEF Spec, LiveHostKept

(* A host is called without its paths only while the thread that created   *)
(* it is on its way to Configure it.                                       *)
THEOREM UnconfiguredHostsAreTransient == Spec => []UnconfiguredIsTransient
<1>1. ASSUME Init PROVE UnconfiguredIsTransient
  <2>1. \A k \in Keys : hostObj[k] = NoHost  BY <1>1 DEF Init
  <2>2. \A t \in Threads : obj[t] = NoHost  BY <1>1 DEF Init
  <2>3. InUse \subseteq {NoHost}  BY <2>1, <2>2 DEF InUse
  <2>4. QED  BY <2>3 DEF UnconfiguredIsTransient
<1>2. IInv /\ UnconfiguredIsTransient /\ [Next]_vars => UnconfiguredIsTransient'
  BY KeepsTransient, StepKeeps, PublishedTransient, CollectedTransient
<1>3. QED  BY <1>1, <1>2, Invariance, PTL DEF Spec
=============================================================================
