----------------------------- MODULE TacConnProofs -----------------------------
(***************************************************************************)
(* Proofs about TacConn for any ids and bounds, with and without           *)
(* multiplexing and an idle timeout.                                       *)
(***************************************************************************)
EXTENDS TacConn, TLAPS

\* Closing a session keeps the types of the table, the channels and the timer.
LEMMA CloseSessionType ==
    ASSUME TypeOK, NEW s \in Sessions, CloseSession(s)
    PROVE  /\ sess' \in [Ids -> Sessions \cup {None}]
           /\ open' \in [Sessions -> BOOLEAN]
           /\ idleT' \in {"nil", "running", "stopped", "fired"}
<1>1. CASE sess[id[s]] = s
    BY <1>1 DEF TypeOK, CloseSession
<1>2. CASE sess[id[s]] # s
    BY <1>2 DEF TypeOK, CloseSession
<1> QED
    BY <1>1, <1>2

\* Taking a packet and looking whether to leave keep the types of what they
\* change.
LEMMA TakePacketType ==
    ASSUME TypeOK, NEW packet \in Packet, TakePacket(packet), LeaveWhenDone
    PROVE  /\ mux' \in BOOLEAN /\ checkMux' \in BOOLEAN
           /\ serving' \in {"serve", "leave", "ended"}
           /\ rc' \in Packet \cup {None}
    BY DEF TypeOK, TakePacket, LeaveWhenDone

\* Every step keeps the types.
LEMMA TypeStep ==
    ASSUME ConnInv, [Next]_vars
    PROVE  TypeOK'
<1> USE ConnAssumption
<1> USE DEF ConnInv, TypeOK, vars, connVars, loopVars, sessionVars, handlerVars
<1>1. ASSUME NEW packet \in Packet, NewSession(packet) PROVE TypeOK'
    <2> DEFINE s == born + 1
    <2>1. s \in Sessions /\ s \in 0 .. MaxPackets /\ packet.id \in Ids
        BY <1>1 DEF NewSession, Sessions, Packet
    <2>2. /\ sess' \in [Ids -> Sessions \cup {None}]
          /\ id' \in [Sessions -> Ids \cup {None}]
          /\ open' \in [Sessions -> BOOLEAN]
        BY <1>1, <2>1 DEF NewSession
    <2>3. /\ in' \in [Sessions -> {0, 1, 3}]
          /\ pc' \in [Sessions -> {"unborn", "read", "handle", "write", "send",
                                   "wait", "close", "closing", "ended"}]
        BY <1>1, <2>1 DEF NewSession, Packet
    <2>4. idleT' \in {"nil", "running", "stopped", "fired"} /\ born' \in 0 .. MaxPackets
        BY <1>1, <2>1 DEF NewSession, StopTimer
    <2>5. /\ mux' \in BOOLEAN /\ checkMux' \in BOOLEAN
          /\ serving' \in {"serve", "leave", "ended"}
          /\ rc' \in Packet \cup {None}
        BY <1>1, TakePacketType DEF NewSession
    <2> QED
        BY <1>1, <2>2, <2>3, <2>4, <2>5 DEF NewSession, TakePacket
<1>2. ASSUME NEW packet \in Packet, DropPacket(packet) PROVE TypeOK'
    BY <1>2 DEF DropPacket, TakePacket, LeaveWhenDone
<1>3. ASSUME NEW packet \in Packet, QueuePacket(packet) PROVE TypeOK'
    <2>1. sess[packet.id] \in Sessions
        BY <1>3 DEF QueuePacket, Packet
    <2>2. in' \in [Sessions -> {0, 1, 3}]
        BY <1>3, <2>1 DEF QueuePacket, Packet
    <2>3. /\ mux' \in BOOLEAN /\ checkMux' \in BOOLEAN
          /\ serving' \in {"serve", "leave", "ended"}
          /\ rc' \in Packet \cup {None}
        BY <1>3, TakePacketType DEF QueuePacket
    <2> QED
        BY <1>3, <2>2, <2>3 DEF QueuePacket, TakePacket
<1>4. ASSUME NEW packet \in Packet, OverflowSession(packet) PROVE TypeOK'
    <2>1. sess[packet.id] \in Sessions /\ CloseSession(sess[packet.id])
        BY <1>4 DEF OverflowSession, Packet
    <2>2. /\ sess' \in [Ids -> Sessions \cup {None}]
          /\ open' \in [Sessions -> BOOLEAN]
          /\ idleT' \in {"nil", "running", "stopped", "fired"}
        BY <2>1, CloseSessionType
    <2>3. overflowed' \in [Sessions -> BOOLEAN]
        BY <1>4, <2>1 DEF OverflowSession
    <2>4. /\ mux' \in BOOLEAN /\ checkMux' \in BOOLEAN
          /\ serving' \in {"serve", "leave", "ended"}
          /\ rc' \in Packet \cup {None}
        BY <1>4, TakePacketType DEF OverflowSession
    <2> QED
        BY <1>4, <2>2, <2>3, <2>4 DEF OverflowSession, TakePacket
<1>5. ASSUME NEW packet \in Packet, Receive(packet) PROVE TypeOK'
    BY <1>5 DEF Receive
<1>6. ASSUME NEW s \in Sessions, TakeClose(s) PROVE TypeOK'
    <2>1. /\ sess' \in [Ids -> Sessions \cup {None}]
          /\ open' \in [Sessions -> BOOLEAN]
          /\ idleT' \in {"nil", "running", "stopped", "fired"}
        BY <1>6, CloseSessionType DEF TakeClose
    <2>2. serving' \in {"serve", "leave", "ended"}
        BY <1>6 DEF TakeClose, LeaveWhenDone
    <2>3. pc' \in [Sessions -> {"unborn", "read", "handle", "write", "send",
                                "wait", "close", "closing", "ended"}]
        BY <1>6 DEF TakeClose
    <2> QED
        BY <1>6, <2>1, <2>2, <2>3 DEF TakeClose
<1>7. ASSUME NEW s \in Sessions, AcceptWrite(s) PROVE TypeOK'
    BY <1>7 DEF AcceptWrite
<1>8. ASSUME NEW s \in Sessions, ReadPacket(s) PROVE TypeOK'
    BY <1>8 DEF ReadPacket, GoTo
<1>9. ASSUME NEW s \in Sessions, ReadNothing(s) PROVE TypeOK'
    BY <1>9 DEF ReadNothing, Give, GoTo
<1>10. ASSUME NEW s \in Sessions, Handle(s) PROVE TypeOK'
    BY <1>10 DEF Handle, GoTo
<1>11. ASSUME NEW s \in Sessions, Prompt(s) PROVE TypeOK'
    BY <1>11 DEF Prompt, GoTo
<1>12. ASSUME NEW s \in Sessions, RefuseWrite(s) PROVE TypeOK'
    BY <1>12 DEF RefuseWrite, Give, GoTo
<1>13. ASSUME NEW s \in Sessions, BeginWrite(s) PROVE TypeOK'
    <2>1. p[s] \in {1, 3}
        BY <1>13 DEF BeginWrite, BirthInv
    <2>2. seq' \in [Sessions -> {0, 2, 4}]
        BY <1>13, <2>1 DEF BeginWrite
    <2> QED
        BY <1>13, <2>2 DEF BeginWrite, GoTo
<1>14. ASSUME NEW s \in Sessions, AbortWrite(s) PROVE TypeOK'
    BY <1>14 DEF AbortWrite, Give, GoTo
<1>15. ASSUME NEW s \in Sessions, FinishWrite(s) PROVE TypeOK'
    <2>1. p' \in [Sessions -> {0, 1, 3}] /\ ec' \in [Sessions -> {"none", "ok", "err"}]
        BY <1>15 DEF FinishWrite, Give
    <2>2. pc' \in [Sessions -> {"unborn", "read", "handle", "write", "send",
                                "wait", "close", "closing", "ended"}]
        BY <1>15 DEF FinishWrite, Give, GoTo
    <2> QED
        BY <1>15, <2>1, <2>2 DEF FinishWrite
<1>16. ASSUME NEW s \in Sessions, EndSession(s) PROVE TypeOK'
    BY <1>16 DEF EndSession, GoTo
<1>17. CASE Cleanup
    BY <1>17 DEF Cleanup
<1>18. CASE TimerFires
    BY <1>18 DEF TimerFires
<1>19. CASE TimerCloses
    BY <1>19 DEF TimerCloses
<1>20. CASE ReadFails
    BY <1>20 DEF ReadFails
<1>21. CASE StopReading
    BY <1>21 DEF StopReading
<1>22. CASE WriteSucceeds
    BY <1>22 DEF WriteSucceeds
<1>23. CASE WriteFails
    BY <1>23 DEF WriteFails
<1>24. CASE StopWriting
    BY <1>24 DEF StopWriting
<1>25. CASE UNCHANGED vars
    BY <1>25
<1> QED
    BY <1>1, <1>2, <1>3, <1>4, <1>5, <1>6, <1>7, <1>8, <1>9, <1>10, <1>11,
       <1>12, <1>13, <1>14, <1>15, <1>16, <1>17, <1>18, <1>19, <1>20, <1>21,
       <1>22, <1>23, <1>24, <1>25
       DEF Next, ProcessPacket, Session

\* Every step keeps what is known of the sessions that exist.
LEMMA BirthStep ==
    ASSUME ConnInv, [Next]_vars
    PROVE  BirthInv'
<1> USE ConnAssumption
<1> USE DEF ConnInv, TypeOK, BirthInv, vars, connVars, loopVars, sessionVars,
            handlerVars
<1>1. ASSUME NEW packet \in Packet, NewSession(packet) PROVE BirthInv'
    <2>1. born + 1 \in Sessions /\ packet.id \in Ids
        BY <1>1 DEF NewSession, Packet
    <2>2. ASSUME NEW s \in Sessions
          PROVE  /\ s > born' => pc'[s] = "unborn" /\ ~open'[s]
                 /\ s <= born' => pc'[s] # "unborn" /\ id'[s] \in Ids
                 /\ pc'[s] \in {"handle", "write"} => p'[s] # 0
        <3>1. CASE s = born + 1
            BY <1>1, <2>1, <3>1 DEF NewSession
        <3>2. CASE s # born + 1
            BY <1>1, <2>1, <3>2 DEF NewSession, Sessions
        <3> QED
            BY <3>1, <3>2
    <2> QED
        BY <2>2
<1>2. ASSUME NEW packet \in Packet, DropPacket(packet) PROVE BirthInv'
    BY <1>2 DEF DropPacket, TakePacket, LeaveWhenDone
<1>3. ASSUME NEW packet \in Packet, QueuePacket(packet) PROVE BirthInv'
    BY <1>3 DEF QueuePacket, TakePacket, LeaveWhenDone
<1>4. ASSUME NEW packet \in Packet, OverflowSession(packet) PROVE BirthInv'
    BY <1>4 DEF OverflowSession, TakePacket, LeaveWhenDone, CloseSession
<1>5. ASSUME NEW packet \in Packet, Receive(packet) PROVE BirthInv'
    BY <1>5 DEF Receive
<1>6. ASSUME NEW s \in Sessions, TakeClose(s) PROVE BirthInv'
    BY <1>6 DEF TakeClose, CloseSession, LeaveWhenDone, GoTo
<1>7. ASSUME NEW s \in Sessions, AcceptWrite(s) PROVE BirthInv'
    BY <1>7 DEF AcceptWrite
<1>8. ASSUME NEW s \in Sessions, ReadPacket(s) PROVE BirthInv'
    BY <1>8 DEF ReadPacket, GoTo
<1>9. ASSUME NEW s \in Sessions, ReadNothing(s) PROVE BirthInv'
    BY <1>9 DEF ReadNothing, Give, GoTo
<1>10. ASSUME NEW s \in Sessions, Handle(s) PROVE BirthInv'
    BY <1>10 DEF Handle, GoTo
<1>11. ASSUME NEW s \in Sessions, Prompt(s) PROVE BirthInv'
    BY <1>11 DEF Prompt, GoTo
<1>12. ASSUME NEW s \in Sessions, RefuseWrite(s) PROVE BirthInv'
    BY <1>12 DEF RefuseWrite, Give, GoTo
<1>13. ASSUME NEW s \in Sessions, BeginWrite(s) PROVE BirthInv'
    BY <1>13 DEF BeginWrite, GoTo
<1>14. ASSUME NEW s \in Sessions, AbortWrite(s) PROVE BirthInv'
    BY <1>14 DEF AbortWrite, Give, GoTo
<1>15. ASSUME NEW s \in Sessions, FinishWrite(s) PROVE BirthInv'
    BY <1>15 DEF FinishWrite, Give, GoTo
<1>16. ASSUME NEW s \in Sessions, EndSession(s) PROVE BirthInv'
    BY <1>16 DEF EndSession, GoTo
<1>17. CASE Cleanup
    BY <1>17 DEF Cleanup
<1>18. CASE TimerFires
    BY <1>18 DEF TimerFires
<1>19. CASE TimerCloses
    BY <1>19 DEF TimerCloses
<1>20. CASE ReadFails
    BY <1>20 DEF ReadFails
<1>21. CASE StopReading
    BY <1>21 DEF StopReading
<1>22. CASE WriteSucceeds
    BY <1>22 DEF WriteSucceeds
<1>23. CASE WriteFails
    BY <1>23 DEF WriteFails
<1>24. CASE StopWriting
    BY <1>24 DEF StopWriting
<1>25. CASE UNCHANGED vars
    BY <1>25
<1> QED
    BY <1>1, <1>2, <1>3, <1>4, <1>5, <1>6, <1>7, <1>8, <1>9, <1>10, <1>11,
       <1>12, <1>13, <1>14, <1>15, <1>16, <1>17, <1>18, <1>19, <1>20, <1>21,
       <1>22, <1>23, <1>24, <1>25
       DEF Next, ProcessPacket, Session

\* Closing a session, or failing to find it, keeps the table and the open
\* channels in agreement.
LEMMA CloseSessionRegistry ==
    ASSUME TypeOK, BirthInv, RegistryInv, serving # "ended",
           NEW s \in Sessions, id[s] \in Ids, CloseSession(s), UNCHANGED id
    PROVE  RegistryInv'
<1> USE ConnAssumption DEF TypeOK
<1>1. CASE sess[id[s]] # s
    BY <1>1 DEF CloseSession, RegistryInv
<1>2. CASE sess[id[s]] = s
    <2>1. /\ sess' = [sess EXCEPT ![id[s]] = None]
          /\ open' = [open EXCEPT ![s] = FALSE]
        BY <1>2 DEF CloseSession
    <2>2. ASSUME NEW i \in Ids, sess'[i] # None
          PROVE  open'[sess'[i]] /\ id'[sess'[i]] = i
        <3>1. i # id[s] /\ sess'[i] = sess[i]
            BY <2>1, <2>2
        <3>2. open[sess[i]] /\ id[sess[i]] = i /\ sess[i] \in Sessions
            BY <2>2, <3>1 DEF RegistryInv
        <3> QED
            BY <2>1, <3>1, <3>2
    <2>3. ASSUME NEW t \in Sessions, open'[t]
          PROVE  sess'[id'[t]] = t
        <3>1. t # s /\ open[t]
            BY <2>1, <2>3
        <3>2. sess[id[t]] = t /\ id[t] # id[s]
            BY <1>2, <3>1 DEF RegistryInv
        <3> QED
            BY <2>1, <3>2
    <2> QED
        BY <2>2, <2>3 DEF RegistryInv
<1> QED
    BY <1>1, <1>2

\* Every step keeps the table of sessions and the open channels in agreement.
LEMMA RegistryStep ==
    ASSUME ConnInv, [Next]_vars
    PROVE  RegistryInv'
<1> USE ConnAssumption
<1> USE DEF ConnInv, TypeOK, BirthInv, RegistryInv, vars, connVars, loopVars,
            sessionVars, handlerVars
<1>1. ASSUME NEW packet \in Packet, NewSession(packet) PROVE RegistryInv'
    <2> DEFINE s == born + 1
    <2>1. s \in Sessions /\ ~open[s] /\ packet.id \in Ids /\ s # None
        BY <1>1 DEF NewSession, Packet, Sessions
    <2>2. /\ sess[packet.id] = None
          /\ sess' = [sess EXCEPT ![packet.id] = s]
          /\ id' = [id EXCEPT ![s] = packet.id]
          /\ open' = [open EXCEPT ![s] = TRUE]
          /\ serving = "serve"
        BY <1>1 DEF NewSession, TakePacket
    <2> HIDE DEF s
    <2>3. ASSUME NEW i \in Ids, sess'[i] # None
          PROVE  open'[sess'[i]] /\ id'[sess'[i]] = i
        <3>1. CASE i = packet.id
            BY <2>1, <2>2, <3>1
        <3>2. CASE i # packet.id
            <4>1. sess'[i] = sess[i] /\ open[sess[i]] /\ id[sess[i]] = i
                BY <2>1, <2>2, <2>3, <3>2
            <4> QED
                BY <2>1, <2>2, <2>3, <4>1
        <3> QED
            BY <3>1, <3>2
    <2>4. ASSUME NEW t \in Sessions, open'[t]
          PROVE  sess'[id'[t]] = t
        <3>1. CASE t = s
            BY <2>1, <2>2, <3>1
        <3>2. CASE t # s
            <4>1. open[t] /\ sess[id[t]] = t /\ id'[t] = id[t]
                BY <2>1, <2>2, <2>4, <3>2
            <4>2. id[t] \in Ids /\ t # None
                BY <4>1 DEF Sessions
            <4> QED
                BY <2>1, <2>2, <4>1, <4>2
        <3> QED
            BY <3>1, <3>2
    <2> QED
        BY <2>3, <2>4
<1>2. ASSUME NEW packet \in Packet, DropPacket(packet) PROVE RegistryInv'
    BY <1>2 DEF DropPacket, TakePacket, LeaveWhenDone
<1>3. ASSUME NEW packet \in Packet, QueuePacket(packet) PROVE RegistryInv'
    BY <1>3 DEF QueuePacket, TakePacket, LeaveWhenDone
<1>4. ASSUME NEW packet \in Packet, OverflowSession(packet) PROVE RegistryInv'
    <2>1. sess[packet.id] \in Sessions /\ id[sess[packet.id]] \in Ids
        BY <1>4 DEF OverflowSession, TakePacket, Packet
    <2> QED
        BY <1>4, <2>1, CloseSessionRegistry DEF OverflowSession, TakePacket
<1>5. ASSUME NEW packet \in Packet, Receive(packet) PROVE RegistryInv'
    BY <1>5 DEF Receive
<1>6. ASSUME NEW s \in Sessions, TakeClose(s) PROVE RegistryInv'
    <2>1. id[s] \in Ids
        BY <1>6 DEF TakeClose, Sessions
    <2> QED
        BY <1>6, <2>1, CloseSessionRegistry DEF TakeClose
<1>7. ASSUME NEW s \in Sessions, AcceptWrite(s) PROVE RegistryInv'
    BY <1>7 DEF AcceptWrite
<1>8. ASSUME NEW s \in Sessions, ReadPacket(s) PROVE RegistryInv'
    BY <1>8 DEF ReadPacket, GoTo
<1>9. ASSUME NEW s \in Sessions, ReadNothing(s) PROVE RegistryInv'
    BY <1>9 DEF ReadNothing, Give, GoTo
<1>10. ASSUME NEW s \in Sessions, Handle(s) PROVE RegistryInv'
    BY <1>10 DEF Handle, GoTo
<1>11. ASSUME NEW s \in Sessions, Prompt(s) PROVE RegistryInv'
    BY <1>11 DEF Prompt, GoTo
<1>12. ASSUME NEW s \in Sessions, RefuseWrite(s) PROVE RegistryInv'
    BY <1>12 DEF RefuseWrite, Give, GoTo
<1>13. ASSUME NEW s \in Sessions, BeginWrite(s) PROVE RegistryInv'
    BY <1>13 DEF BeginWrite, GoTo
<1>14. ASSUME NEW s \in Sessions, AbortWrite(s) PROVE RegistryInv'
    BY <1>14 DEF AbortWrite, Give, GoTo
<1>15. ASSUME NEW s \in Sessions, FinishWrite(s) PROVE RegistryInv'
    BY <1>15 DEF FinishWrite, Give, GoTo
<1>16. ASSUME NEW s \in Sessions, EndSession(s) PROVE RegistryInv'
    BY <1>16 DEF EndSession, GoTo
<1>17. CASE Cleanup
    BY <1>17 DEF Cleanup
<1>18. CASE TimerFires
    BY <1>18 DEF TimerFires
<1>19. CASE TimerCloses
    BY <1>19 DEF TimerCloses
<1>20. CASE ReadFails
    BY <1>20 DEF ReadFails
<1>21. CASE StopReading
    BY <1>21 DEF StopReading
<1>22. CASE WriteSucceeds
    BY <1>22 DEF WriteSucceeds
<1>23. CASE WriteFails
    BY <1>23 DEF WriteFails
<1>24. CASE StopWriting
    BY <1>24 DEF StopWriting
<1>25. CASE UNCHANGED vars
    BY <1>25
<1> QED
    BY <1>1, <1>2, <1>3, <1>4, <1>5, <1>6, <1>7, <1>8, <1>9, <1>10, <1>11,
       <1>12, <1>13, <1>14, <1>15, <1>16, <1>17, <1>18, <1>19, <1>20, <1>21,
       <1>22, <1>23, <1>24, <1>25
       DEF Next, ProcessPacket, Session

\* Closing a session arms the idle timer only when no session is left, and
\* does nothing once it has expired.
LEMMA CloseSessionTimer ==
    ASSUME TypeOK, TimerSparesSessions, serving # "ended",
           NEW s \in Sessions, id[s] \in Ids, CloseSession(s)
    PROVE  /\ idleT' \in {"running", "fired"} => NoSessions'
           /\ idleT = "fired" => idleT' = "fired"
<1> USE ConnAssumption DEF TypeOK, TimerSparesSessions
<1>1. CASE sess[id[s]] # s
    BY <1>1 DEF CloseSession, NoSessions
<1>2. CASE sess[id[s]] = s
    <2>1. ~NoSessions
        BY <1>2 DEF NoSessions, Sessions
    <2> QED
        BY <1>2, <2>1 DEF CloseSession
<1> QED
    BY <1>1, <1>2

\* Every step keeps the idle timer away from sessions.
LEMMA TimerStep ==
    ASSUME ConnInv, [Next]_vars
    PROVE  TimerInv'
<1> USE ConnAssumption
<1> USE DEF ConnInv, TypeOK, BirthInv, RegistryInv, TimerInv,
            TimerSparesSessions, NoSessions, vars, connVars, loopVars,
            sessionVars, handlerVars
<1>1. ASSUME NEW packet \in Packet, NewSession(packet) PROVE TimerInv'
    BY <1>1 DEF NewSession, TakePacket, LeaveWhenDone, StopTimer
<1>2. ASSUME NEW packet \in Packet, DropPacket(packet) PROVE TimerInv'
    BY <1>2 DEF DropPacket, TakePacket, LeaveWhenDone
<1>3. ASSUME NEW packet \in Packet, QueuePacket(packet) PROVE TimerInv'
    BY <1>3 DEF QueuePacket, TakePacket, LeaveWhenDone
<1>4. ASSUME NEW packet \in Packet, OverflowSession(packet) PROVE TimerInv'
    <2>1. sess[packet.id] \in Sessions /\ id[sess[packet.id]] \in Ids
        BY <1>4 DEF OverflowSession, TakePacket, Packet
    <2>2. /\ idleT' \in {"running", "fired"} => NoSessions'
          /\ idleT = "fired" => idleT' = "fired"
        <3>1. PICK s \in Sessions : s = sess[packet.id]
            BY <2>1
        <3>2. CloseSession(s) /\ serving # "ended" /\ id[s] \in Ids
            BY <1>4, <2>1, <3>1 DEF OverflowSession, TakePacket, CloseSession
        <3> HIDE DEF NoSessions, TimerInv, TimerSparesSessions, TypeOK
        <3>3. TypeOK /\ TimerSparesSessions
            BY DEF TimerInv
        <3> QED
            BY <3>2, <3>3, CloseSessionTimer
    <2> QED
        BY <1>4, <2>2 DEF OverflowSession, TakePacket, LeaveWhenDone
<1>5. ASSUME NEW packet \in Packet, Receive(packet) PROVE TimerInv'
    BY <1>5 DEF Receive
<1>6. ASSUME NEW s \in Sessions, TakeClose(s) PROVE TimerInv'
    <2>1. id[s] \in Ids
        BY <1>6 DEF TakeClose, Sessions
    <2>2. /\ idleT' \in {"running", "fired"} => NoSessions'
          /\ idleT = "fired" => idleT' = "fired"
        BY <1>6, <2>1, CloseSessionTimer DEF TakeClose
    <2> QED
        BY <1>6, <2>2 DEF TakeClose, LeaveWhenDone
<1>7. ASSUME NEW s \in Sessions, AcceptWrite(s) PROVE TimerInv'
    BY <1>7 DEF AcceptWrite
<1>8. ASSUME NEW s \in Sessions, ReadPacket(s) PROVE TimerInv'
    BY <1>8 DEF ReadPacket, GoTo
<1>9. ASSUME NEW s \in Sessions, ReadNothing(s) PROVE TimerInv'
    BY <1>9 DEF ReadNothing, Give, GoTo
<1>10. ASSUME NEW s \in Sessions, Handle(s) PROVE TimerInv'
    BY <1>10 DEF Handle, GoTo
<1>11. ASSUME NEW s \in Sessions, Prompt(s) PROVE TimerInv'
    BY <1>11 DEF Prompt, GoTo
<1>12. ASSUME NEW s \in Sessions, RefuseWrite(s) PROVE TimerInv'
    BY <1>12 DEF RefuseWrite, Give, GoTo
<1>13. ASSUME NEW s \in Sessions, BeginWrite(s) PROVE TimerInv'
    BY <1>13 DEF BeginWrite, GoTo
<1>14. ASSUME NEW s \in Sessions, AbortWrite(s) PROVE TimerInv'
    BY <1>14 DEF AbortWrite, Give, GoTo
<1>15. ASSUME NEW s \in Sessions, FinishWrite(s) PROVE TimerInv'
    BY <1>15 DEF FinishWrite, Give, GoTo
<1>16. ASSUME NEW s \in Sessions, EndSession(s) PROVE TimerInv'
    BY <1>16 DEF EndSession, GoTo
<1>17. CASE Cleanup
    BY <1>17 DEF Cleanup
<1>18. CASE TimerFires
    BY <1>18 DEF TimerFires
<1>19. CASE TimerCloses
    BY <1>19 DEF TimerCloses
<1>20. CASE ReadFails
    BY <1>20 DEF ReadFails
<1>21. CASE StopReading
    BY <1>21 DEF StopReading
<1>22. CASE WriteSucceeds
    BY <1>22 DEF WriteSucceeds
<1>23. CASE WriteFails
    BY <1>23 DEF WriteFails
<1>24. CASE StopWriting
    BY <1>24 DEF StopWriting
<1>25. CASE UNCHANGED vars
    BY <1>25
<1> QED
    BY <1>1, <1>2, <1>3, <1>4, <1>5, <1>6, <1>7, <1>8, <1>9, <1>10, <1>11,
       <1>12, <1>13, <1>14, <1>15, <1>16, <1>17, <1>18, <1>19, <1>20, <1>21,
       <1>22, <1>23, <1>24, <1>25
       DEF Next, ProcessPacket, Session

\* Every step leaves a session that is closed with its reply or an excuse.
LEMMA ReplyStep ==
    ASSUME ConnInv, [Next]_vars
    PROVE  ReplyInv'
<1> USE ConnAssumption
<1> USE DEF ConnInv, TypeOK, BirthInv, RegistryInv, TimerInv,
            TimerSparesSessions, NoSessions, ReplyInv, vars, connVars,
            loopVars, sessionVars, handlerVars
<1>1. ASSUME NEW packet \in Packet, NewSession(packet) PROVE ReplyInv'
    <2> DEFINE n == born + 1
    <2>1. n \in Sessions /\ pc[n] = "unborn" /\ ec[n] = "none" /\ writing # n
        BY <1>1 DEF NewSession, Sessions
    <2>2. /\ pc' = [pc EXCEPT ![n] = "read"]
          /\ open' = [open EXCEPT ![n] = TRUE]
          /\ born' = n
          /\ UNCHANGED <<writing, ec, replied, overflowed, broken, what>>
        BY <1>1 DEF NewSession, TakePacket
    <2>3. ASSUME NEW s \in Sessions, s <= n, s # n
          PROVE  s <= born
        BY <2>3 DEF Sessions
    <2> QED
        BY <2>1, <2>2, <2>3
<1>2. ASSUME NEW packet \in Packet, DropPacket(packet) PROVE ReplyInv'
    BY <1>2 DEF DropPacket, TakePacket, LeaveWhenDone
<1>3. ASSUME NEW packet \in Packet, QueuePacket(packet) PROVE ReplyInv'
    BY <1>3 DEF QueuePacket, TakePacket, LeaveWhenDone
<1>4. ASSUME NEW packet \in Packet, OverflowSession(packet) PROVE ReplyInv'
    BY <1>4 DEF OverflowSession, TakePacket, LeaveWhenDone, CloseSession
<1>5. ASSUME NEW packet \in Packet, Receive(packet) PROVE ReplyInv'
    BY <1>5 DEF Receive
<1>6. ASSUME NEW s \in Sessions, TakeClose(s) PROVE ReplyInv'
    BY <1>6 DEF TakeClose, CloseSession, LeaveWhenDone, GoTo
<1>7. ASSUME NEW s \in Sessions, AcceptWrite(s) PROVE ReplyInv'
    BY <1>7 DEF AcceptWrite
<1>8. ASSUME NEW s \in Sessions, ReadPacket(s) PROVE ReplyInv'
    BY <1>8 DEF ReadPacket, GoTo
<1>9. ASSUME NEW s \in Sessions, ReadNothing(s) PROVE ReplyInv'
    <2>1. /\ replied[s] \/ overflowed[s] \/ broken
          /\ ec[s] = "none" /\ writing # s
        BY <1>9 DEF ReadNothing, Sessions
    <2> QED
        BY <1>9, <2>1 DEF ReadNothing, Give, GoTo
<1>10. ASSUME NEW s \in Sessions, Handle(s) PROVE ReplyInv'
    BY <1>10 DEF Handle, GoTo
<1>11. ASSUME NEW s \in Sessions, Prompt(s) PROVE ReplyInv'
    BY <1>11 DEF Prompt, GoTo
<1>12. ASSUME NEW s \in Sessions, RefuseWrite(s) PROVE ReplyInv'
    <2>1. /\ replied[s] \/ overflowed[s] \/ broken
          /\ ec[s] = "none" /\ writing # s
        BY <1>12 DEF RefuseWrite, Sessions
    <2> QED
        BY <1>12, <2>1 DEF RefuseWrite, Give, GoTo
<1>13. ASSUME NEW s \in Sessions, BeginWrite(s) PROVE ReplyInv'
    BY <1>13 DEF BeginWrite, GoTo
<1>14. ASSUME NEW s \in Sessions, AbortWrite(s) PROVE ReplyInv'
    <2>1. /\ replied[s] \/ overflowed[s] \/ broken
          /\ ec[s] = "none" /\ writing # s
        BY <1>14 DEF AbortWrite, Sessions
    <2> QED
        BY <1>14, <2>1 DEF AbortWrite, Give, GoTo
<1>15. ASSUME NEW s \in Sessions, FinishWrite(s) PROVE ReplyInv'
    BY <1>15 DEF FinishWrite, Give, GoTo
<1>16. ASSUME NEW s \in Sessions, EndSession(s) PROVE ReplyInv'
    BY <1>16 DEF EndSession, GoTo
<1>17. CASE Cleanup
    <2>1. ASSUME NEW s \in Sessions, s <= born, open[s]
          PROVE  broken
        <3>1. sess[id[s]] = s /\ id[s] \in Ids /\ s # None
            BY <1>17, <2>1 DEF Cleanup, Sessions
        <3> QED
            BY <1>17, <3>1 DEF Cleanup
    <2> QED
        BY <1>17, <2>1 DEF Cleanup
<1>18. CASE TimerFires
    BY <1>18 DEF TimerFires
<1>19. CASE TimerCloses
    BY <1>19 DEF TimerCloses
<1>20. CASE ReadFails
    BY <1>20 DEF ReadFails
<1>21. CASE StopReading
    BY <1>21 DEF StopReading
<1>22. CASE WriteSucceeds
    <2>1. writing \in Sessions /\ pc[writing] = "wait"
        BY <1>22 DEF WriteSucceeds
    <2>2. ASSUME NEW s \in Sessions, s # writing
          PROVE  ec'[s] = ec[s] /\ replied'[s] = replied[s]
        BY <1>22, <2>2 DEF WriteSucceeds
    <2>3. /\ ec'[writing] = "ok"
          /\ what[writing] # "prompt" => replied'[writing]
          /\ replied[writing] => replied'[writing]
        <3>1. replied' = [replied EXCEPT ![writing] =
                              replied[writing] \/ what[writing] # "prompt"]
            BY <1>22 DEF WriteSucceeds
        <3>2. ec'[writing] = "ok"
            BY <1>22, <2>1 DEF WriteSucceeds
        <3>3. DOMAIN replied = Sessions
            OBVIOUS
        <3>4. replied'[writing] <=> (replied[writing] \/ what[writing] # "prompt")
            BY <2>1, <3>1, <3>3, Zenon
        <3> QED
            BY <3>2, <3>4
    <2> QED
        BY <1>22, <2>1, <2>2, <2>3 DEF WriteSucceeds
<1>23. CASE WriteFails
    BY <1>23 DEF WriteFails
<1>24. CASE StopWriting
    BY <1>24 DEF StopWriting
<1>25. CASE UNCHANGED vars
    BY <1>25
<1> QED
    BY <1>1, <1>2, <1>3, <1>4, <1>5, <1>6, <1>7, <1>8, <1>9, <1>10, <1>11,
       <1>12, <1>13, <1>14, <1>15, <1>16, <1>17, <1>18, <1>19, <1>20, <1>21,
       <1>22, <1>23, <1>24, <1>25
       DEF Next, ProcessPacket, Session


-----------------------------------------------------------------------------
\* The strengthened invariant holds of every behaviour.
LEMMA ConnInvariant == Spec => []ConnInv
<1>1. Init => ConnInv
    <2> SUFFICES ASSUME Init PROVE ConnInv
        OBVIOUS
    <2> USE ConnAssumption DEF Init
    <2>1. TypeOK
        <3>1. born \in 0 .. MaxPackets /\ received \in 0 .. MaxPackets
            OBVIOUS
        <3>2. prompts \in [Sessions -> 0 .. MaxPrompts]
            OBVIOUS
        <3>3. sess \in [Ids -> Sessions \cup {None}]
            OBVIOUS
        <3>4. mux \in BOOLEAN /\ checkMux \in BOOLEAN
            OBVIOUS
        <3> QED
            BY <3>1, <3>2, <3>3, <3>4 DEF TypeOK
    <2>2. BirthInv
        BY DEF BirthInv, Sessions
    <2>3. RegistryInv
        BY DEF RegistryInv
    <2>4. TimerInv
        BY DEF TimerInv, TimerSparesSessions
    <2>5. ReplyInv
        BY DEF ReplyInv, Sessions
    <2> QED
        BY <2>1, <2>2, <2>3, <2>4, <2>5 DEF ConnInv
<1>2. ConnInv /\ [Next]_vars => ConnInv'
    BY TypeStep, BirthStep, RegistryStep, TimerStep, ReplyStep DEF ConnInv
<1> QED
    BY <1>1, <1>2, PTL DEF Spec

\* TypeOK holds of every behaviour: what serve, readLoop, writeLoop and the
\* sessions' goroutines assign stays within its type.
THEOREM TypeCorrect == Spec => []TypeOK
<1>1. ConnInv => TypeOK
    BY DEF ConnInv
<1> QED
    BY <1>1, ConnInvariant, PTL

\* closeSession and processPacket keep the table of sessions exact: no session
\* is lost and no done channel is closed twice.
THEOREM TableIsExact == Spec => []RegistryIsExact
<1>1. ConnInv => RegistryIsExact
    <2> SUFFICES ASSUME ConnInv, serving # "ended", NEW s \in Sessions
                 PROVE  open[s] <=> \E i \in Ids : sess[i] = s /\ id[s] = i
        BY DEF RegistryIsExact
    <2>1. open[s] => sess[id[s]] = s /\ id[s] \in Ids
        BY DEF ConnInv, BirthInv, RegistryInv, Sessions, TypeOK
    <2>2. ASSUME NEW i \in Ids, sess[i] = s
          PROVE  open[s]
        BY <2>2, ConnAssumption DEF ConnInv, RegistryInv, Sessions
    <2> QED
        BY <2>1, <2>2
<1> QED
    BY <1>1, ConnInvariant, PTL

\* The idle timer never runs while a session is served.
THEOREM IdleTimerIsSafe == Spec => []TimerSparesSessions
<1>1. ConnInv => TimerSparesSessions
    BY DEF ConnInv, TimerInv
<1> QED
    BY <1>1, ConnInvariant, PTL

\* A session whose goroutine ended was answered, unless the network failed or
\* its packet queue overflowed.
THEOREM RepliesAreNotLost == Spec => []EverySessionIsAnswered
<1>1. ConnInv => EverySessionIsAnswered
    BY DEF ConnInv, ReplyInv, EverySessionIsAnswered
<1> QED
    BY <1>1, ConnInvariant, PTL
=============================================================================
