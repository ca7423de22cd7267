-------------------------- MODULE DirectPathProofs --------------------------
(***************************************************************************)
(* Theorems about DirectPath for any machines, calls, services and modes.  *)
(***************************************************************************)
EXTENDS DirectPath, TLAPS

Outgoing == [way : Ways, old : BOOLEAN]
Incoming == [est : BOOLEAN, old : BOOLEAN, before : BOOLEAN, sees : {"real", "tunnel"}]

\* Only a csa puts tables up, and a guard with the mode off puts up none.
TablesByCsa ==
  \A h \in Hosts : /\ guard[h] => h \in Csa /\ Mode[h] # "off"
                   /\ nat[h] => h \in Csa

\* What a machine remembers of a direct call to a service: it was let in
\* before there was a guard, or as the operator wants.
OnlyOldEntered ==
  \A c \in Calls :
    inn[<<c, "direct">>] # None /\ ToService(c) =>
      \/ inn[<<c, "direct">>].old
      \/ Mode[c.to] = "all" /\ <<c.proto, c.dport>> \in Keep[c.to]

\* What either machine remembers of a direct call that nat would turn: it had
\* left before there was a nat.
OnlyOldLeft ==
  \A c \in Calls : ToSteer(c) =>
    /\ out[c] # None /\ out[c].way = "direct" => out[c].old
    /\ inn[<<c, "direct">>] # None => inn[<<c, "direct">>].before

IInv == TypeOK /\ TablesByCsa /\ OnlyOldEntered /\ OnlyOldLeft
        /\ ServicesClosed /\ FailsClosed

LEMMA CallTypes ==
  ASSUME NEW c \in Calls
  PROVE  /\ c.from \in Hosts /\ c.to \in Hosts
         /\ c.by \in {"real", "tunnel"} /\ c.proto \in {"tcp", "udp"}
BY PathAssumption DEF Call

LEMMA InitIInv == Init => IInv
<1> SUFFICES ASSUME Init PROVE IInv
  OBVIOUS
<1>1. TypeOK
  BY PathAssumption DEF Init, TypeOK, Nothing, Phases, Ways
<1>2. TablesByCsa
  BY DEF Init, TablesByCsa
<1>3. OnlyOldEntered
  BY DEF Init, OnlyOldEntered, Ways
<1>4. OnlyOldLeft
  BY DEF Init, OnlyOldLeft, Ways
<1>5. ServicesClosed /\ FailsClosed
  BY DEF Init, ServicesClosed, FailsClosed, Called, Nothing
<1> QED BY <1>1, <1>2, <1>3, <1>4, <1>5 DEF IInv

\* Where nothing was sent, nothing is claimed.
LEMMA Silence ==
  ASSUME last' = Nothing
  PROVE  ServicesClosed' /\ FailsClosed'
BY DEF ServicesClosed, FailsClosed, Called, Nothing

\* A call on its way: tracking keeps to the way it found, which for a call to
\* a service is the tunnel from nat's table on.
LEMMA SendWay ==
  ASSUME IInv, NEW c \in Calls
  PROVE  /\ WayOf(c) \in Ways
         /\ Left(c, WayOf(c))[c] \in Outgoing
         /\ Left(c, WayOf(c))[c].way = WayOf(c)
         /\ WayOf(c) = "direct" /\ ToSteer(c) => Left(c, WayOf(c))[c].old
<1>1. CASE out[c] # None
  BY <1>1 DEF IInv, TypeOK, OnlyOldLeft, WayOf, Left, Outgoing
<1>2. CASE out[c] = None
  <2> DEFINE o == ~ nat[c.from]
  <2>1. WayOf(c) \in Ways
    BY <1>2 DEF WayOf, Ways
  <2>2. Left(c, WayOf(c))[c] = [way |-> WayOf(c), old |-> o]
    BY <1>2 DEF IInv, TypeOK, Left
  <2>3. o \in BOOLEAN
    OBVIOUS
  <2>4. WayOf(c) = "direct" /\ ToSteer(c) => o
    BY <1>2, CallTypes DEF WayOf, Steers, ToSteer
  <2> HIDE DEF o
  <2> QED BY <2>1, <2>2, <2>3, <2>4 DEF Outgoing
<1> QED BY <1>1, <1>2

\* A direct call to a service that is let in although the guard stands.
LEMMA LetIn ==
  ASSUME IInv, NEW c \in Calls, NEW e \in BOOLEAN,
         e => inn[<<c, "direct">>] # None,
         ToService(c), guard[c.to], Accepts(c.to, "direct", c.proto, c.dport, e)
  PROVE  /\ Mode[c.to] = "all"
         /\ \/ inn[<<c, "direct">>] # None /\ inn[<<c, "direct">>].old
            \/ <<c.proto, c.dport>> \in Keep[c.to]
<1>1. c.to \in Csa /\ c.dport \in Services[c.to] /\ c.dport # WGPort
  BY PathAssumption DEF ToService
<1>2. Mode[c.to] \in {"services", "all"}
  BY <1>1, CallTypes, PathAssumption DEF IInv, TablesByCsa
<1>3. Mode[c.to] = "all"
  BY <1>1, <1>2 DEF Accepts
<1>4. e \/ <<c.proto, c.dport>> \in Keep[c.to]
  BY <1>1, <1>3 DEF Accepts
<1> QED BY <1>3, <1>4 DEF IInv, OnlyOldEntered

LEMMA SendStep ==
  ASSUME IInv, NEW c \in Calls, Send(c)
  PROVE  IInv'
<1> DEFINE w == WayOf(c)
           est == inn[<<c, w>>] # None /\ inn[<<c, w>>].est
           reached == Carried(c, w) /\ Accepts(c.to, w, c.proto, c.dport, est)
<1>1. /\ out' = Left(c, w)
      /\ inn' = IF reached THEN Entered(c, w) ELSE inn
      /\ last' = [call |-> c, dir |-> "call", way |-> w, reached |-> reached]
      /\ UNCHANGED <<phase, guard, nat>>
  BY DEF Send
<1>2. /\ w \in Ways
      /\ Left(c, w)[c] \in Outgoing /\ Left(c, w)[c].way = w
      /\ w = "direct" /\ ToSteer(c) => Left(c, w)[c].old
  BY SendWay
<1>3. est \in BOOLEAN /\ reached \in BOOLEAN
  <2>1. inn[<<c, w>>] # None => inn[<<c, w>>] \in Incoming
    BY <1>2 DEF IInv, TypeOK, Incoming
  <2>2. est \in BOOLEAN
    BY <2>1 DEF Incoming
  <2> QED BY <2>2 DEF Carried, Accepts
<1> HIDE DEF w, est, reached
<1>4. \A d \in Calls : d # c => out'[d] = out[d]
  BY <1>1 DEF IInv, TypeOK, Left
<1>5. \A d \in Calls, v \in Ways : <<d, v>> # <<c, w>> => inn'[<<d, v>>] = inn[<<d, v>>]
  BY <1>1 DEF IInv, TypeOK, Entered
<1>6. \/ inn'[<<c, w>>] = inn[<<c, w>>]
      \/ /\ inn[<<c, w>>] = None /\ reached
         /\ inn'[<<c, w>>] = [est |-> FALSE, old |-> ~ guard[c.to], before |-> Left(c, w)[c].old,
                          sees |-> IF w = "tunnel" /\ ~ Presents(c) THEN "tunnel" ELSE "real"]
  BY <1>1, <1>2 DEF IInv, TypeOK, Entered
<1>7. TypeOK'
  <2>1. out' \in [Calls -> Outgoing \cup {None}]
    BY <1>1, <1>2 DEF IInv, TypeOK, Left, Outgoing
  <2>2. inn' \in [Calls \X Ways -> Incoming \cup {None}]
    <3> DEFINE new == [est |-> FALSE, old |-> ~ guard[c.to], before |-> Left(c, w)[c].old,
                       sees |-> IF w = "tunnel" /\ ~ Presents(c) THEN "tunnel" ELSE "real"]
    <3>1. Left(c, w)[c].old \in BOOLEAN
      BY <1>2 DEF Outgoing
    <3>2. new \in Incoming
      BY <3>1 DEF Incoming
    <3>3. inn' = inn \/ inn' = [inn EXCEPT ![<<c, w>>] = new]
      BY <1>1 DEF Entered
    <3> HIDE DEF new
    <3> QED BY <1>2, <3>2, <3>3 DEF IInv, TypeOK, Incoming
  <2>3. last' \in [call : Calls \cup {None}, dir : {"call", "answer"}, way : Ways, reached : BOOLEAN]
    BY <1>1, <1>2, <1>3
  <2> QED BY <1>1, <2>1, <2>2, <2>3 DEF IInv, TypeOK, Outgoing, Incoming
<1>8. TablesByCsa'
  BY <1>1 DEF IInv, TablesByCsa
<1>9. reached /\ w = "direct" /\ ToService(c) /\ guard[c.to] =>
        /\ Mode[c.to] = "all"
        /\ \/ inn[<<c, "direct">>] # None /\ inn[<<c, "direct">>].old
           \/ <<c.proto, c.dport>> \in Keep[c.to]
  <2> SUFFICES ASSUME reached, w = "direct", ToService(c), guard[c.to]
               PROVE  /\ Mode[c.to] = "all"
                      /\ \/ inn[<<c, "direct">>] # None /\ inn[<<c, "direct">>].old
                         \/ <<c.proto, c.dport>> \in Keep[c.to]
    OBVIOUS
  <2>1. Accepts(c.to, "direct", c.proto, c.dport, est)
    BY DEF reached
  <2>2. est => inn[<<c, "direct">>] # None
    BY DEF est
  <2> QED BY <1>3, <2>1, <2>2, LetIn
<1>10. OnlyOldEntered'
  <2> SUFFICES ASSUME NEW d \in Calls, inn'[<<d, "direct">>] # None, ToService(d)
               PROVE  \/ inn'[<<d, "direct">>].old
                      \/ Mode[d.to] = "all" /\ <<d.proto, d.dport>> \in Keep[d.to]
    BY DEF OnlyOldEntered, ToService
  <2>1. CASE inn'[<<d, "direct">>] = inn[<<d, "direct">>]
    BY <2>1 DEF IInv, OnlyOldEntered
  <2>2. CASE inn'[<<d, "direct">>] # inn[<<d, "direct">>]
    <3>1. d = c /\ w = "direct"
      BY <1>5, <2>2 DEF Ways
    <3>2. inn[<<c, "direct">>] = None /\ reached /\ inn'[<<c, "direct">>].old = ~ guard[c.to]
      BY <1>6, <2>2, <3>1
    <3> QED BY <1>9, <3>1, <3>2
  <2> QED BY <2>1, <2>2
<1>11. OnlyOldLeft'
  <2> SUFFICES ASSUME NEW d \in Calls, ToSteer(d)
               PROVE  /\ out'[d] # None /\ out'[d].way = "direct" => out'[d].old
                      /\ inn'[<<d, "direct">>] # None => inn'[<<d, "direct">>].before
    BY DEF OnlyOldLeft, ToSteer
  <2>1. out'[d] # None /\ out'[d].way = "direct" => out'[d].old
    BY <1>1, <1>2, <1>4 DEF IInv, OnlyOldLeft
  <2>2. CASE inn'[<<d, "direct">>] = inn[<<d, "direct">>]
    BY <2>1, <2>2 DEF IInv, OnlyOldLeft
  <2>3. CASE inn'[<<d, "direct">>] # inn[<<d, "direct">>]
    <3>1. d = c /\ w = "direct"
      BY <1>5, <2>3 DEF Ways
    <3>2. inn'[<<c, "direct">>].before = Left(c, w)[c].old
      BY <1>6, <2>3, <3>1
    <3> QED BY <1>2, <2>1, <3>1, <3>2
  <2> QED BY <2>2, <2>3
<1>12. ServicesClosed'
  <2> SUFFICES ASSUME reached, w = "direct", ToService(c), guard[c.to]
               PROVE  /\ Mode[c.to] = "all"
                      /\ inn'[<<c, "direct">>].old \/ <<c.proto, c.dport>> \in Keep[c.to]
    BY <1>1 DEF ServicesClosed, Called, ToService
  <2> QED BY <1>6, <1>9
<1>13. FailsClosed'
  BY <1>1, <1>2 DEF FailsClosed, Called, ToSteer
<1> QED BY <1>7, <1>8, <1>10, <1>11, <1>12, <1>13 DEF IInv

LEMMA AnswerStep ==
  ASSUME IInv, NEW c \in Calls, NEW w \in Ways, Answer(c, w)
  PROVE  IInv'
<1> DEFINE est == out[c] # None /\ out[c].way = w
           reached == Carried(c, w) /\ Accepts(c.from, w, c.proto, c.sport, est)
<1>1. /\ inn[<<c, w>>] # None
      /\ inn' = [inn EXCEPT ![<<c, w>>].est = TRUE]
      /\ out' = IF reached THEN Remind(c, w) ELSE out
      /\ last' = [call |-> c, dir |-> "answer", way |-> w, reached |-> reached]
      /\ UNCHANGED <<phase, guard, nat>>
  BY DEF Answer
<1>2. reached \in BOOLEAN
  BY DEF Carried, Accepts
<1> HIDE DEF reached
<1>4. inn[<<c, w>>] \in Incoming
  BY <1>1 DEF IInv, TypeOK, Incoming
<1>5. \A d \in Calls, v \in Ways : inn'[<<d, v>>] # None =>
        /\ inn[<<d, v>>] # None
        /\ inn'[<<d, v>>].old = inn[<<d, v>>].old
        /\ inn'[<<d, v>>].before = inn[<<d, v>>].before
  BY <1>1, <1>4 DEF IInv, TypeOK, Incoming
<1>3. \/ out' = out
      \/ /\ out[c] = None
         /\ out' = [out EXCEPT ![c] = [way |-> w, old |-> inn[<<c, w>>].before]]
  BY <1>1 DEF Remind
<1>6. TypeOK'
  <2>1. inn' \in [Calls \X Ways -> Incoming \cup {None}]
    BY <1>1, <1>4 DEF IInv, TypeOK, Incoming
  <2>2. last' \in [call : Calls \cup {None}, dir : {"call", "answer"}, way : Ways, reached : BOOLEAN]
    BY <1>1, <1>2
  <2>3. out' \in [Calls -> Outgoing \cup {None}]
    BY <1>3, <1>4 DEF IInv, TypeOK, Incoming, Outgoing
  <2> QED BY <1>1, <2>1, <2>2, <2>3 DEF IInv, TypeOK, Incoming, Outgoing
<1>7. TablesByCsa'
  BY <1>1 DEF IInv, TablesByCsa
<1>8. OnlyOldEntered'
  BY <1>5 DEF IInv, OnlyOldEntered, ToService, Ways
<1>9. OnlyOldLeft'
  <2> SUFFICES ASSUME NEW d \in Calls, ToSteer(d)
               PROVE  /\ out'[d] # None /\ out'[d].way = "direct" => out'[d].old
                      /\ inn'[<<d, "direct">>] # None => inn'[<<d, "direct">>].before
    BY DEF OnlyOldLeft, ToSteer
  <2>1. inn'[<<d, "direct">>] # None => inn'[<<d, "direct">>].before
    BY <1>5 DEF IInv, OnlyOldLeft, Ways
  <2>2. CASE out'[d] = out[d]
    BY <2>1, <2>2 DEF IInv, OnlyOldLeft
  <2>3. CASE out'[d] # out[d]
    <3>1. d = c /\ out'[d] = [way |-> w, old |-> inn[<<c, w>>].before]
      BY <1>3, <2>3 DEF IInv, TypeOK
    <3>2. w = "direct" => inn[<<c, "direct">>].before
      BY <1>1, <3>1 DEF IInv, OnlyOldLeft
    <3> QED BY <2>1, <3>1, <3>2
  <2> QED BY <2>2, <2>3
<1>10. ServicesClosed' /\ FailsClosed'
  BY <1>1 DEF ServicesClosed, FailsClosed, Called
<1> QED BY <1>6, <1>7, <1>8, <1>9, <1>10 DEF IInv

LEMMA ForgetStep ==
  ASSUME IInv, NEW c \in Calls, Forget(c)
  PROVE  IInv'
<1>1. last' = Nothing /\ UNCHANGED <<phase, guard, nat>>
  BY DEF Forget
<1>2. \A d \in Calls : out'[d] = None \/ out'[d] = out[d]
  BY DEF Forget, IInv, TypeOK
<1>3. \A d \in Calls, v \in Ways : inn'[<<d, v>>] = None \/ inn'[<<d, v>>] = inn[<<d, v>>]
  BY DEF Forget, IInv, TypeOK
<1>4. TypeOK'
  <2>1. out' \in [Calls -> Outgoing \cup {None}]
    BY DEF Forget, IInv, TypeOK, Outgoing
  <2>2. inn' \in [Calls \X Ways -> Incoming \cup {None}]
    BY DEF Forget, IInv, TypeOK, Incoming
  <2>3. last' \in [call : Calls \cup {None}, dir : {"call", "answer"}, way : Ways, reached : BOOLEAN]
    BY <1>1 DEF Nothing, Ways
  <2> QED BY <1>1, <2>1, <2>2, <2>3 DEF IInv, TypeOK, Outgoing, Incoming
<1>5. TablesByCsa'
  BY <1>1 DEF IInv, TablesByCsa
<1>6. OnlyOldEntered'
  BY <1>3 DEF IInv, OnlyOldEntered, ToService, Ways
<1>7. OnlyOldLeft'
  BY <1>2, <1>3 DEF IInv, OnlyOldLeft, ToSteer, Ways
<1> QED BY <1>1, <1>4, <1>5, <1>6, <1>7, Silence DEF IInv

\* A step of csa, or its end, changes no connection, and puts up a table only
\* on a machine that has a csa.
LEMMA CsaStep ==
  ASSUME IInv, NEW h \in Csa, Step(h) \/ Kill(h)
  PROVE  IInv'
<1>1. last' = Nothing /\ UNCHANGED <<out, inn>>
  BY DEF Step, Goto, Kill
<1>2. h \in Hosts
  BY PathAssumption
<1>3. phase' \in [Csa -> Phases]
  BY DEF IInv, TypeOK, Step, Goto, Kill, Phases
<1>4. /\ guard' \in [Hosts -> BOOLEAN]
      /\ \A g \in Hosts : guard'[g] => guard[g] \/ (g = h /\ Mode[h] # "off")
  BY <1>2 DEF IInv, TypeOK, Step, Goto, Kill, Set
<1>5. /\ nat' \in [Hosts -> BOOLEAN]
      /\ \A g \in Hosts : nat'[g] => nat[g] \/ g = h
  BY <1>2 DEF IInv, TypeOK, Step, Goto, Kill, Set
<1>6. TypeOK'
  <2>1. last' \in [call : Calls \cup {None}, dir : {"call", "answer"}, way : Ways, reached : BOOLEAN]
    BY <1>1 DEF Nothing, Ways
  <2> QED BY <1>1, <1>3, <1>4, <1>5, <2>1 DEF IInv, TypeOK
<1>7. TablesByCsa'
  BY <1>4, <1>5 DEF IInv, TablesByCsa
<1>8. OnlyOldEntered' /\ OnlyOldLeft'
  BY <1>1 DEF IInv, OnlyOldEntered, OnlyOldLeft, ToService, ToSteer
<1> QED BY <1>1, <1>6, <1>7, <1>8, Silence DEF IInv

LEMMA NextIInv == IInv /\ [Next]_vars => IInv'
<1> SUFFICES ASSUME IInv, [Next]_vars PROVE IInv'
  OBVIOUS
<1>1. CASE UNCHANGED vars
  BY <1>1 DEF vars, IInv, TypeOK, TablesByCsa, OnlyOldEntered, OnlyOldLeft,
              ServicesClosed, FailsClosed, ToService, ToSteer, Called
<1>2. ASSUME NEW c \in Calls, Send(c) PROVE IInv'
  BY <1>2, SendStep
<1>3. ASSUME NEW c \in Calls, Forget(c) PROVE IInv'
  BY <1>3, ForgetStep
<1>4. ASSUME NEW c \in Calls, NEW w \in Ways, Answer(c, w) PROVE IInv'
  BY <1>4, AnswerStep
<1>5. ASSUME NEW h \in Csa, Step(h) \/ Kill(h) PROVE IInv'
  BY <1>5, CsaStep
<1> QED BY <1>1, <1>2, <1>3, <1>4, <1>5 DEF Next

LEMMA Invariance == Spec => []IInv
<1>1. Init => IInv
  BY InitIInv
<1>2. IInv /\ [Next]_vars => IInv'
  BY NextIInv
<1> QED BY <1>1, <1>2, PTL DEF Spec

(***************************************************************************)
(* Types: every variable stays in its set.                                 *)
(***************************************************************************)
THEOREM TypeCorrect == Spec => []TypeOK
<1>1. IInv => TypeOK
  BY DEF IInv
<1> QED BY <1>1, Invariance, PTL

(***************************************************************************)
(* With any machines, services and modes: while a guard's table stands, no *)
(* direct call reaches a service but on an old connection, or at a port    *)
(* the operator keeps open, and both only in the mode all.                 *)
(***************************************************************************)
THEOREM ServicesClosedAlways == Spec => []ServicesClosed
<1>1. IInv => ServicesClosed
  BY DEF IInv
<1> QED BY <1>1, Invariance, PTL

(***************************************************************************)
(* A machine that steers sends no direct call to a service of a peer with  *)
(* a real address while nat's table stands, but on a connection made       *)
(* before, whichever machine still knows that one.                         *)
(***************************************************************************)
THEOREM FailsClosedAlways == Spec => []FailsClosed
<1>1. IInv => FailsClosed
  BY DEF IInv
<1> QED BY <1>1, Invariance, PTL

\* A call that neither machine knows by the direct way goes by the tunnel.
LEMMA NoneBegins ==
  ASSUME IInv, [Next]_vars, NEW c \in Calls, nat[c.from], ToSteer(c), ~ KnownDirect(c)
  PROVE  ~ KnownDirect(c)'
<1>1. /\ out[c] = None \/ out[c].way # "direct"
      /\ inn[<<c, "direct">>] = None
  BY DEF KnownDirect
<1> SUFFICES /\ out'[c] = None \/ out'[c].way # "direct"
             /\ inn'[<<c, "direct">>] = None
  BY DEF KnownDirect
<1>2. ASSUME NEW d \in Calls, Send(d) PROVE /\ out'[c] = None \/ out'[c].way # "direct"
                                          /\ inn'[<<c, "direct">>] = None
  <2>1. /\ out' = Left(d, WayOf(d))
        /\ inn' = inn \/ inn' = Entered(d, WayOf(d))
    BY <1>2 DEF Send
  <2>2. WayOf(d) \in Ways
    BY SendWay
  <2>3. CASE d = c
    <3>1. WayOf(c) = "tunnel"
      <4>1. CASE out[c] = None
        BY <4>1, CallTypes DEF WayOf, Steers, ToSteer
      <4>2. CASE out[c] # None
        BY <1>1, <2>2, <2>3, <4>2 DEF WayOf, Ways
      <4> QED BY <4>1, <4>2
    <3>2. Left(c, "tunnel")[c].way = "tunnel"
      BY <3>1, SendWay
    <3>3. inn'[<<c, "direct">>] = inn[<<c, "direct">>]
      BY <2>1, <2>3, <3>1 DEF IInv, TypeOK, Entered, Ways
    <3> QED BY <1>1, <2>1, <2>3, <3>1, <3>2, <3>3
  <2>4. CASE d # c
    <3>1. out'[c] = out[c]
      BY <2>1, <2>4 DEF IInv, TypeOK, Left
    <3>2. inn'[<<c, "direct">>] = inn[<<c, "direct">>]
      BY <2>1, <2>2, <2>4 DEF IInv, TypeOK, Entered, Ways
    <3> QED BY <1>1, <3>1, <3>2
  <2> QED BY <2>3, <2>4
<1>3. ASSUME NEW d \in Calls, NEW w \in Ways, Answer(d, w)
      PROVE  /\ out'[c] = None \/ out'[c].way # "direct"
             /\ inn'[<<c, "direct">>] = None
  <2>1. /\ inn[<<d, w>>] # None
        /\ inn' = [inn EXCEPT ![<<d, w>>].est = TRUE]
        /\ out' = out \/ out' = [out EXCEPT ![d] = [way |-> w, old |-> inn[<<d, w>>].before]]
    BY <1>3 DEF Answer, Remind
  <2>2. <<d, w>> # <<c, "direct">>
    BY <1>1, <2>1
  <2>3. inn'[<<c, "direct">>] = inn[<<c, "direct">>]
    BY <2>1, <2>2 DEF IInv, TypeOK, Ways
  <2>4. out'[c] = out[c] \/ (d = c /\ out'[c].way = w)
    BY <2>1 DEF IInv, TypeOK
  <2> QED BY <1>1, <2>2, <2>3, <2>4
<1>4. ASSUME NEW d \in Calls, Forget(d)
      PROVE  /\ out'[c] = None \/ out'[c].way # "direct"
             /\ inn'[<<c, "direct">>] = None
  <2>1. out'[c] = None \/ out'[c] = out[c]
    BY <1>4 DEF Forget, IInv, TypeOK
  <2>2. inn'[<<c, "direct">>] = None
    BY <1>1, <1>4 DEF Forget, IInv, TypeOK, Ways
  <2> QED BY <1>1, <2>1, <2>2
<1>5. ASSUME UNCHANGED <<out, inn>>
      PROVE  /\ out'[c] = None \/ out'[c].way # "direct"
             /\ inn'[<<c, "direct">>] = None
  BY <1>1, <1>5
<1>6. ASSUME NEW h \in Csa, Step(h) \/ Kill(h) PROVE UNCHANGED <<out, inn>>
  BY <1>6 DEF Step, Goto, Kill
<1> QED BY <1>2, <1>3, <1>4, <1>5, <1>6 DEF Next, vars

(***************************************************************************)
(* With any machines and calls: a direct connection that nat's table would *)
(* turn, once forgotten on both machines, is begun by neither again while  *)
(* that table stands.                                                      *)
(***************************************************************************)
THEOREM ForgottenForGoodAlways == Spec => ForgottenForGood
<1>1. IInv /\ [Next]_vars =>
        [\A c \in Calls : nat[c.from] /\ ToSteer(c) /\ ~ KnownDirect(c) => ~ KnownDirect(c)']_vars
  BY NoneBegins
<1> QED BY <1>1, Invariance, PTL DEF Spec, ForgottenForGood
=============================================================================
