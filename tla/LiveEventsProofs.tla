---------------------------- MODULE LiveEventsProofs ----------------------------
(***************************************************************************)
(* Theorems about LiveEvents: what a tab asked for is delivered, and what  *)
(* leaves consumers that nobody wants.                                     *)
(***************************************************************************)
EXTENDS LiveEvents, WellFoundedInduction, TLAPS

(***************************************************************************)
(* The invariant of a connection at the gateway.                           *)
(***************************************************************************)
\* Nothing is registered before the channel is there, tasks wait for it as long as it is not,
\* and a tag that can be cancelled has its consumer.
ChannelInv(g) ==
  /\ g.channel # "open" =>
       g.rpcs = <<>> /\ \A k \in Keys : g.tags[k] = "missing" /\ g.consumers[k] = 0
  /\ g.waiting # <<>> <=> g.channel = "creating"
  /\ \A k \in Keys : g.tags[k] = "live" => g.consumers[k] > 0

\* A start of the key is on its way.
Starts(g, k) == Contains(g.waiting, <<"start", k>>) \/ Contains(g.rpcs, <<"start", k>>)

\* What the manager knows has a consumer or gets one.
ManagerInv(g) == \A k \in g.manager : g.consumers[k] > 0 \/ Starts(g, k)

Once(s, t) == \A i, j \in DOMAIN s : s[i] = t /\ s[j] = t => i = j

\* Without a stop that overtook a start there is one consumer at most, counting those to come, and
\* none that the manager does not know.  A stop that waits for the channel ends the process.
SurplusInv(g) ==
  g.socket => \A k \in Keys \ g.overtaken :
    /\ g.tags[k] # "live" => g.consumers[k] = 0
    /\ ~ Contains(g.waiting, <<"stop", k>>) =>
         /\ Once(g.waiting, <<"start", k>>) /\ Once(g.rpcs, <<"start", k>>)
         /\ g.consumers[k] <= 1
         /\ Starts(g, k) => g.consumers[k] = 0
         /\ k \notin g.manager => g.consumers[k] = 0 /\ ~ Starts(g, k)

GatewayInv(g) == g \in Records /\ ChannelInv(g) /\ ManagerInv(g) /\ SurplusInv(g)

(***************************************************************************)
(* The invariant of the tab and its connection.                            *)
(***************************************************************************)
TabInv ==
  /\ ws \in Connections \cup {None}
  /\ state \in {"connecting", "open", "closed"}
  /\ connected \in BOOLEAN
  /\ pending \in Seq(Commands)
  /\ asked \in SUBSET Keys
  /\ state # "closed" => ws \in Connections
  /\ state = "connecting" => gateway[ws] = Nothing
  /\ state = "open" => connected /\ pending = <<>>
  /\ asked # {} => state = "open"

\* When the gateway has read what was sent, the manager will know the key: it does and no message
\* takes it away, or the last message about it is a subscription that comes after the authentication.
Wanted(g, k) ==
  \/ k \in g.manager /\ ~ Contains(g.inbox, <<"unsubscribe", k>>)
  \/ \E i \in DOMAIN g.inbox :
       /\ g.inbox[i] = <<"subscribe", k>>
       /\ g.auth \/ \E j \in DOMAIN g.inbox : j < i /\ g.inbox[j] = <<"auth">>
       /\ \A j \in DOMAIN g.inbox : j > i => g.inbox[j] # <<"unsubscribe", k>>

WantedInv ==
  Connected =>
    /\ gateway[ws].auth \/ Contains(gateway[ws].inbox, <<"auth">>)
    /\ \A k \in asked : Wanted(gateway[ws], k)

LiveInv ==
  /\ gateway \in [Connections -> Records] /\ \A c \in Connections : GatewayInv(gateway[c])
  /\ TabInv /\ WantedInv

-----------------------------------------------------------------------------
(* Queues.                                                                 *)

LEMMA Joined ==
  ASSUME NEW S, NEW s \in Seq(S), NEW u \in Seq(S)
  PROVE  /\ s \o u \in Seq(S)
         /\ \A e : Contains(s \o u, e) <=> Contains(s, e) \/ Contains(u, e)
         /\ \A e : Once(s, e) /\ Once(u, e) /\ ~ (Contains(s, e) /\ Contains(u, e)) => Once(s \o u, e)
<1> DEFINE m == Len(s)
           n == Len(u)
           v == s \o u
<1>1. /\ m \in Nat /\ n \in Nat /\ Len(v) = m + n /\ v \in Seq(S)
      /\ DOMAIN s = 1 .. m /\ DOMAIN u = 1 .. n /\ DOMAIN v = 1 .. (m + n)
      /\ \A i \in 1 .. m : v[i] = s[i]
      /\ \A i \in 1 .. n : v[m + i] = u[i]
  OBVIOUS
<1>2. \A i \in 1 .. (m + n) : i \in 1 .. m \/ (i - m \in 1 .. n /\ i = m + (i - m))
  BY <1>1
<1>3. \A i \in 1 .. (m + n) : \/ i \in 1 .. m /\ v[i] = s[i]
                              \/ i - m \in 1 .. n /\ v[i] = u[i - m] /\ i \notin 1 .. m
  <2> HIDE DEF v
  <2> QED BY <1>1, <1>2
<1>4. (\A i \in 1 .. m : i \in 1 .. (m + n)) /\ \A i \in 1 .. n : m + i \in 1 .. (m + n)
  BY <1>1
<1> HIDE DEF m, n, v
<1>5. ASSUME NEW e PROVE Contains(v, e) <=> Contains(s, e) \/ Contains(u, e)
  <2>1. Contains(v, e) => Contains(s, e) \/ Contains(u, e)
    BY <1>1, <1>3 DEF Contains, m, n
  <2>2. Contains(s, e) \/ Contains(u, e) => Contains(v, e)
    BY <1>1, <1>4 DEF Contains, m, n
  <2> QED BY <2>1, <2>2
<1>6. ASSUME NEW e, Once(s, e), Once(u, e), ~ (Contains(s, e) /\ Contains(u, e)),
             NEW i \in DOMAIN v, NEW j \in DOMAIN v, v[i] = e, v[j] = e
      PROVE  i = j
  <2>1. CASE i \in 1 .. m /\ j \in 1 .. m
    BY <2>1, <1>1, <1>6 DEF Once
  <2>2. CASE i \notin 1 .. m /\ j \notin 1 .. m
    <3>1. /\ i - m \in 1 .. n /\ u[i - m] = e /\ j - m \in 1 .. n /\ u[j - m] = e
          /\ i \in Nat /\ j \in Nat
      BY <2>2, <1>1, <1>3, <1>6
    <3>2. i - m = j - m
      BY <3>1, <1>1, <1>6 DEF Once
    <3> QED BY <3>1, <3>2, <1>1
  <2>3. CASE ~ (i \in 1 .. m <=> j \in 1 .. m)
    <3>1. (\E a \in 1 .. m : s[a] = e) /\ (\E b \in 1 .. n : u[b] = e)
      BY <2>3, <1>1, <1>3, <1>6
    <3> QED BY <3>1, <1>6 DEF Contains, m, n
  <2> QED BY <2>1, <2>2, <2>3
<1>7. \A e : Once(s, e) /\ Once(u, e) /\ ~ (Contains(s, e) /\ Contains(u, e)) => Once(v, e)
  BY <1>6 DEF Once
<1> QED BY <1>1, <1>5, <1>7 DEF v

LEMMA TakenOff ==
  ASSUME NEW S, NEW s \in Seq(S), s # <<>>
  PROVE  /\ Head(s) \in S /\ Tail(s) \in Seq(S)
         /\ \A e : Contains(s, e) <=> Head(s) = e \/ Contains(Tail(s), e)
         /\ \A e : Once(s, e) => Once(Tail(s), e) /\ (Head(s) = e => ~ Contains(Tail(s), e))
<1> DEFINE n == Len(s)
           v == Tail(s)
<1>1. /\ n \in Nat /\ n >= 1 /\ DOMAIN s = 1 .. n /\ Head(s) = s[1] /\ s[1] \in S
      /\ Len(v) = n - 1 /\ DOMAIN v = 1 .. (n - 1) /\ v \in Seq(S)
      /\ \A i \in 1 .. (n - 1) : v[i] = s[i + 1]
  OBVIOUS
<1>2. /\ \A i \in 1 .. n : i = 1 \/ (i - 1 \in 1 .. (n - 1) /\ i = (i - 1) + 1)
      /\ \A i \in 1 .. (n - 1) : i + 1 \in 1 .. n /\ i + 1 # 1
      /\ 1 \in 1 .. n
      /\ \A i, j \in 1 .. (n - 1) : i + 1 = j + 1 => i = j
  BY <1>1
<1>3. \A i \in 1 .. n : i = 1 \/ (i - 1 \in 1 .. (n - 1) /\ s[i] = v[i - 1])
  <2> HIDE DEF v
  <2> QED BY <1>1, <1>2
<1> HIDE DEF n, v
<1>4. ASSUME NEW e PROVE Contains(s, e) <=> Head(s) = e \/ Contains(v, e)
  <2>1. Contains(s, e) => Head(s) = e \/ Contains(v, e)
    BY <1>1, <1>3 DEF Contains, n
  <2>2. Head(s) = e \/ Contains(v, e) => Contains(s, e)
    BY <1>1, <1>2 DEF Contains, n
  <2> QED BY <2>1, <2>2
<1>5. ASSUME NEW e, Once(s, e) PROVE Once(v, e) /\ (Head(s) = e => ~ Contains(v, e))
  <2>1. ASSUME NEW i \in 1 .. (n - 1), NEW j \in 1 .. (n - 1), v[i] = e, v[j] = e PROVE i = j
    <3>1. s[i + 1] = e /\ s[j + 1] = e /\ i + 1 \in DOMAIN s /\ j + 1 \in DOMAIN s
      BY <2>1, <1>1, <1>2
    <3>2. i + 1 = j + 1
      BY <3>1, <1>5 DEF Once
    <3> QED BY <3>2, <1>2
  <2>2. ASSUME Head(s) = e, NEW i \in 1 .. (n - 1), v[i] = e PROVE FALSE
    <3>1. s[1] = e /\ s[i + 1] = e /\ i + 1 \in DOMAIN s /\ 1 \in DOMAIN s /\ i + 1 # 1
      BY <2>2, <1>1, <1>2
    <3> QED BY <3>1, <1>5 DEF Once
  <2>3. Head(s) = e => ~ Contains(v, e)
    BY <2>2, <1>1 DEF Contains, n
  <2>4. Once(v, e)
    BY <2>1, <1>1 DEF Once
  <2> QED BY <2>3, <2>4
<1> QED BY <1>1, <1>4, <1>5 DEF v

\* What is submitted at once.
LEMMA OneTask ==
  ASSUME NEW t
  PROVE  /\ \A e : Contains(<<t>>, e) <=> t = e
         /\ \A e : Once(<<t>>, e)
         /\ <<t>> # <<>> /\ Head(<<t>>) = t /\ Tail(<<t>>) = <<>>
<1>1. Len(<<t>>) = 1 /\ DOMAIN <<t>> = {1} /\ <<t>>[1] = t
  OBVIOUS
<1> QED BY <1>1 DEF Contains, Once

LEMMA TwoTasks ==
  ASSUME NEW t, NEW w, t # w
  PROVE  /\ \A e : Contains(<<t, w>>, e) <=> t = e \/ w = e
         /\ \A e : Once(<<t, w>>, e)
         /\ <<t, w>> # <<>> /\ Head(<<t, w>>) = t /\ Tail(<<t, w>>) = <<w>>
<1>1. Len(<<t, w>>) = 2 /\ DOMAIN <<t, w>> = {1, 2} /\ <<t, w>>[1] = t /\ <<t, w>>[2] = w
  OBVIOUS
<1>2. 1 .. 2 = {1, 2}
  OBVIOUS
<1> QED BY <1>1, <1>2 DEF Contains, Once

LEMMA NoTask == (\A e : ~ Contains(<<>>, e)) /\ (\A e : Once(<<>>, e))
BY DEF Contains, Once

-----------------------------------------------------------------------------
(* One connection.                                                         *)

LEMMA Apart ==
  ASSUME NEW k, NEW q
  PROVE  /\ <<"start", k>> # <<"stop", q>> /\ <<"subscribe", k>> # <<"unsubscribe", q>>
         /\ <<"auth">> # <<"subscribe", k>> /\ <<"auth">> # <<"unsubscribe", k>>
         /\ <<"auth">> # <<"ping">> /\ <<"start", k>> = <<"start", q>> => k = q
         /\ <<"stop", k>> = <<"stop", q>> => k = q
         /\ <<"subscribe", k>> = <<"subscribe", q>> => k = q
         /\ <<"unsubscribe", k>> = <<"unsubscribe", q>> => k = q
<1>1. /\ <<"start", k>>[1] = "start" /\ <<"stop", q>>[1] = "stop" /\ <<"auth">>[1] = "auth"
      /\ <<"subscribe", k>>[1] = "subscribe" /\ <<"unsubscribe", k>>[1] = "unsubscribe"
      /\ <<"unsubscribe", q>>[1] = "unsubscribe" /\ <<"ping">>[1] = "ping"
  OBVIOUS
<1> QED BY <1>1

LEMMA Fields ==
  ASSUME NEW g \in Records
  PROVE  /\ g.inbox \in Seq(Commands) /\ g.socket \in BOOLEAN /\ g.auth \in BOOLEAN
         /\ g.manager \in SUBSET Keys /\ g.channel \in {"none", "creating", "open"}
         /\ g.waiting \in Seq(Tasks) /\ g.rpcs \in Seq(Tasks)
         /\ g.tags \in [Keys -> {"missing", "live", "cancelled"}]
         /\ g.consumers \in [Keys -> Nat] /\ g.overtaken \in SUBSET Keys
BY DEF Records

LEMMA NothingFields ==
  /\ Nothing.inbox = <<>> /\ Nothing.socket = FALSE /\ Nothing.auth = FALSE /\ Nothing.manager = {}
  /\ Nothing.channel = "none" /\ Nothing.waiting = <<>> /\ Nothing.rpcs = <<>>
  /\ Nothing.tags = [k \in Keys |-> "missing"] /\ Nothing.consumers = [k \in Keys |-> 0]
  /\ Nothing.overtaken = {} /\ Nothing \in Records
BY DEF Nothing, Records

\* A connection that has no trace of an earlier one, whatever the client sends on it.
LEMMA FreshRight ==
  ASSUME NEW h \in Records, h.manager = {}, h.waiting = <<>>, h.rpcs = <<>>, h.channel = "none",
         h.tags = [k \in Keys |-> "missing"], h.consumers = [k \in Keys |-> 0]
  PROVE  GatewayInv(h)
<1>1. ChannelInv(h)
  BY DEF ChannelInv
<1>2. ManagerInv(h)
  BY DEF ManagerInv
<1>3. SurplusInv(h)
  BY NoTask DEF SurplusInv, Starts
<1> QED BY <1>1, <1>2, <1>3 DEF GatewayInv

\* Messages and the authentication leave the subscriptions alone.
LEMMA SameRight ==
  ASSUME NEW g \in Records, NEW h \in Records, GatewayInv(g),
         h.socket = g.socket, h.manager = g.manager, h.channel = g.channel, h.waiting = g.waiting,
         h.rpcs = g.rpcs, h.tags = g.tags, h.consumers = g.consumers, h.overtaken = g.overtaken
  PROVE  GatewayInv(h)
<1>1. ChannelInv(h)
  BY DEF GatewayInv, ChannelInv
<1>2. \A k : Starts(h, k) <=> Starts(g, k)
  BY DEF Starts
<1>3. ManagerInv(h)
  BY <1>2 DEF GatewayInv, ManagerInv
<1>4. SurplusInv(h)
  BY <1>2 DEF GatewayInv, SurplusInv
<1> QED BY <1>1, <1>3, <1>4 DEF GatewayInv

\* The tasks of one message: the stop of what the manager knew, and the start of what it knows now.
TasksOf(g, h, k, tasks) ==
  /\ tasks \in Seq(Tasks) /\ tasks # <<>>
  /\ \A q : Contains(tasks, <<"stop", q>>) <=> q = k /\ k \in g.manager
  /\ \A q : Contains(tasks, <<"start", q>>) <=> q = k /\ k \in h.manager
  /\ \A e : Once(tasks, e)

LEMMA WaitingRight ==
  ASSUME NEW g \in Records, NEW h \in Records, NEW k \in Keys, NEW tasks, GatewayInv(g),
         TasksOf(g, h, k, tasks), \A q \in Keys \ {k} : q \in h.manager <=> q \in g.manager,
         g.channel # "open", h.channel = "creating", h.waiting = g.waiting \o tasks,
         h.socket = g.socket, h.rpcs = g.rpcs, h.tags = g.tags, h.consumers = g.consumers,
         h.overtaken = g.overtaken
  PROVE  GatewayInv(h)
<1>1. /\ g.waiting \in Seq(Tasks) /\ tasks \in Seq(Tasks) /\ h.waiting # <<>>
      /\ h.manager \subseteq Keys /\ g.manager \subseteq Keys
  BY Fields DEF TasksOf
<1>2. /\ \A e : Contains(h.waiting, e) <=> Contains(g.waiting, e) \/ Contains(tasks, e)
      /\ \A e : Once(g.waiting, e) /\ Once(tasks, e) /\ ~ (Contains(g.waiting, e) /\ Contains(tasks, e))
                => Once(h.waiting, e)
  BY <1>1, Joined
<1>3. /\ g.rpcs = <<>> /\ \A q \in Keys : g.tags[q] = "missing" /\ g.consumers[q] = 0
      /\ \A e : ~ Contains(h.rpcs, e) /\ Once(h.rpcs, e)
  BY NoTask DEF GatewayInv, ChannelInv
<1>4. ChannelInv(h)
  BY <1>1, <1>3 DEF ChannelInv
<1>5. /\ \A q \in Keys : Starts(g, q) <=> Contains(g.waiting, <<"start", q>>)
      /\ \A q \in Keys : Starts(h, q) <=> Starts(g, q) \/ (q = k /\ k \in h.manager)
  BY <1>2, <1>3 DEF Starts, TasksOf
<1>6. ManagerInv(h)
  BY <1>1, <1>5 DEF GatewayInv, ManagerInv
<1>7. ASSUME h.socket, NEW q \in Keys \ h.overtaken, ~ Contains(h.waiting, <<"stop", q>>)
      PROVE  /\ Once(h.waiting, <<"start", q>>)
             /\ q \notin h.manager => ~ Starts(h, q)
  <2>1. ~ Contains(g.waiting, <<"stop", q>>) /\ (q = k => k \notin g.manager)
    BY <1>2, <1>7 DEF TasksOf
  <2>2. Once(g.waiting, <<"start", q>>) /\ (q \notin g.manager => ~ Starts(g, q))
    BY <1>7, <2>1 DEF GatewayInv, SurplusInv
  <2>3. Once(h.waiting, <<"start", q>>)
    BY <1>2, <1>5, <2>1, <2>2 DEF TasksOf
  <2> QED BY <1>5, <2>1, <2>2, <2>3
<1>8. \A q \in Keys : h.tags[q] # "live" /\ h.consumers[q] = 0 /\ h.consumers[q] <= 1
  BY <1>3
<1>9. SurplusInv(h)
  BY <1>3, <1>7, <1>8 DEF SurplusInv
<1> QED BY <1>4, <1>6, <1>9 DEF GatewayInv

\* The same on an open channel, where they are sent at once and the stop cancels what is known.
RunsOn(g, h, k, sent) ==
  /\ \A q : Contains(sent, <<"start", q>>) <=> q = k /\ k \in h.manager
  /\ \A e : Once(sent, e)
  /\ h.rpcs = g.rpcs \o sent
  /\ \A q \in Keys : h.tags[q] =
       IF q = k /\ k \in g.manager /\ g.tags[q] = "live" THEN "cancelled" ELSE g.tags[q]
  /\ \A q \in Keys : h.consumers[q] =
       IF q = k /\ k \in g.manager /\ g.tags[q] = "live" THEN g.consumers[q] - 1 ELSE g.consumers[q]
  /\ \A q \in Keys : q \in h.overtaken <=>
       q \in g.overtaken \/ (q = k /\ k \in g.manager /\ Contains(g.rpcs, <<"start", q>>))

LEMMA RunningRight ==
  ASSUME NEW g \in Records, NEW h \in Records, NEW k \in Keys, NEW sent \in Seq(Tasks), GatewayInv(g),
         RunsOn(g, h, k, sent), \A q \in Keys \ {k} : q \in h.manager <=> q \in g.manager,
         g.channel = "open", h.channel = "open", h.waiting = g.waiting, h.socket = g.socket
  PROVE  GatewayInv(h)
<1>1. /\ g.waiting = <<>> /\ g.rpcs \in Seq(Tasks) /\ \A e : ~ Contains(h.waiting, e) /\ Once(h.waiting, e)
      /\ \A q \in Keys : g.consumers[q] \in Nat
      /\ h.manager \subseteq Keys /\ g.manager \subseteq Keys
  BY Fields, NoTask DEF GatewayInv, ChannelInv
<1>2. /\ \A e : Contains(h.rpcs, e) <=> Contains(g.rpcs, e) \/ Contains(sent, e)
      /\ \A e : Once(g.rpcs, e) /\ Once(sent, e) /\ ~ (Contains(g.rpcs, e) /\ Contains(sent, e))
                => Once(h.rpcs, e)
  BY <1>1, Joined DEF RunsOn
<1>3. ChannelInv(h)
  BY <1>1 DEF GatewayInv, ChannelInv, RunsOn
<1>4. /\ \A q \in Keys : Starts(g, q) <=> Contains(g.rpcs, <<"start", q>>)
      /\ \A q \in Keys : Starts(h, q) <=> Starts(g, q) \/ (q = k /\ k \in h.manager)
  BY <1>1, <1>2, NoTask DEF Starts, RunsOn
<1>5. ManagerInv(h)
  BY <1>1, <1>4 DEF GatewayInv, ManagerInv, RunsOn
<1>6. ASSUME h.socket, NEW q \in Keys \ h.overtaken
      PROVE  /\ h.tags[q] # "live" => h.consumers[q] = 0
             /\ Once(h.rpcs, <<"start", q>>)
             /\ h.consumers[q] <= 1
             /\ Starts(h, q) => h.consumers[q] = 0
             /\ q \notin h.manager => h.consumers[q] = 0 /\ ~ Starts(h, q)
  <2>1. /\ g.socket /\ q \in Keys \ g.overtaken /\ ~ Contains(g.waiting, <<"stop", q>>)
        /\ q = k /\ k \in g.manager => ~ Starts(g, q)
    BY <1>1, <1>4, <1>6, NoTask DEF RunsOn
  <2>2. /\ g.tags[q] # "live" => g.consumers[q] = 0
        /\ Once(g.rpcs, <<"start", q>>)
        /\ g.consumers[q] <= 1
        /\ Starts(g, q) => g.consumers[q] = 0
        /\ q \notin g.manager => g.consumers[q] = 0 /\ ~ Starts(g, q)
        /\ g.tags[q] = "live" => g.consumers[q] > 0
    BY <1>1, <2>1 DEF GatewayInv, SurplusInv, ChannelInv
  <2>3. CASE q # k
    <3>1. Once(h.rpcs, <<"start", q>>)
      BY <1>2, <2>2, <2>3 DEF RunsOn
    <3> QED BY <1>4, <2>2, <2>3, <3>1 DEF RunsOn
  <2>4. CASE q = k
    <3>1. ~ Starts(g, k)
      BY <2>1, <2>2, <2>4
    <3>2. Once(h.rpcs, <<"start", q>>)
      BY <1>2, <1>4, <2>2, <2>4, <3>1 DEF RunsOn
    <3>3. h.consumers[k] = 0 /\ h.tags[k] # "live"
      <4>1. CASE k \in g.manager /\ g.tags[k] = "live"
        BY <1>1, <2>2, <2>4, <4>1 DEF RunsOn
      <4>2. CASE ~ (k \in g.manager /\ g.tags[k] = "live")
        BY <1>1, <2>2, <2>4, <4>2 DEF RunsOn
      <4> QED BY <4>1, <4>2
    <3> QED BY <1>4, <2>4, <3>1, <3>2, <3>3
  <2> QED BY <2>3, <2>4
<1>7. SurplusInv(h)
  BY <1>1, <1>6 DEF SurplusInv
<1> QED BY <1>3, <1>5, <1>7 DEF GatewayInv

\* The channel is there: what waited for it is sent.
LEMMA CreatedRight ==
  ASSUME NEW g \in Records, NEW h \in Records, GatewayInv(g),
         \A q \in Keys : ~ Contains(g.waiting, <<"stop", q>>),
         g.channel = "creating", h.channel = "open", h.waiting = <<>>, h.rpcs = g.waiting,
         h.socket = g.socket, h.manager = g.manager, h.tags = g.tags, h.consumers = g.consumers,
         h.overtaken = g.overtaken
  PROVE  GatewayInv(h)
<1>1. /\ g.rpcs = <<>> /\ \A e : ~ Contains(h.waiting, e) /\ Once(h.waiting, e)
      /\ \A e : ~ Contains(g.rpcs, e)
      /\ h.manager \subseteq Keys
  BY NoTask, Fields DEF GatewayInv, ChannelInv
<1>2. ChannelInv(h)
  BY DEF GatewayInv, ChannelInv
<1>3. \A q \in Keys : Starts(h, q) <=> Starts(g, q)
  BY <1>1 DEF Starts
<1>4. ManagerInv(h)
  BY <1>1, <1>3 DEF GatewayInv, ManagerInv
<1>5. SurplusInv(h)
  BY <1>1, <1>3 DEF GatewayInv, SurplusInv
<1> QED BY <1>2, <1>4, <1>5 DEF GatewayInv

LEMMA AnsweredRight ==
  ASSUME NEW g \in Records, NEW h \in Records, GatewayInv(g), g.rpcs # <<>>, h.rpcs = Tail(g.rpcs),
         NEW k \in Keys, NEW kind \in {"start", "stop"}, Head(g.rpcs) = <<kind, k>>,
         \A q \in Keys : h.tags[q] = IF q = k /\ kind = "start" THEN "live" ELSE g.tags[q],
         \A q \in Keys : h.consumers[q] =
           IF q = k /\ kind = "start" THEN g.consumers[q] + 1 ELSE g.consumers[q],
         h.channel = g.channel, h.waiting = g.waiting, h.socket = g.socket, h.manager = g.manager,
         h.overtaken = g.overtaken
  PROVE  GatewayInv(h)
<1>1. /\ g.channel = "open" /\ g.waiting = <<>> /\ g.rpcs \in Seq(Tasks)
      /\ \A e : ~ Contains(h.waiting, e) /\ Once(h.waiting, e)
      /\ \A q \in Keys : g.consumers[q] \in Nat
      /\ h.manager \subseteq Keys
  BY NoTask, Fields DEF GatewayInv, ChannelInv
<1>2. /\ \A e : Contains(g.rpcs, e) <=> <<kind, k>> = e \/ Contains(h.rpcs, e)
      /\ \A e : Once(g.rpcs, e) => Once(h.rpcs, e) /\ (<<kind, k>> = e => ~ Contains(h.rpcs, e))
  <2>1. /\ \A e : Contains(g.rpcs, e) <=> Head(g.rpcs) = e \/ Contains(Tail(g.rpcs), e)
        /\ \A e : Once(g.rpcs, e) =>
             Once(Tail(g.rpcs), e) /\ (Head(g.rpcs) = e => ~ Contains(Tail(g.rpcs), e))
    BY <1>1, TakenOff
  <2> QED BY <2>1
<1>3. ChannelInv(h)
  BY <1>1 DEF GatewayInv, ChannelInv
<1>4. /\ \A q \in Keys : Starts(g, q) <=> Contains(g.rpcs, <<"start", q>>)
      /\ \A q \in Keys : Starts(h, q) <=> Contains(h.rpcs, <<"start", q>>)
  BY <1>1, NoTask DEF Starts
<1>5. \A q \in Keys : Starts(g, q) <=> Starts(h, q) \/ (q = k /\ kind = "start")
  BY <1>2, <1>4, Apart
<1>6. ManagerInv(h)
  BY <1>1, <1>5 DEF GatewayInv, ManagerInv
<1>7. ASSUME h.socket, NEW q \in Keys \ h.overtaken
      PROVE  /\ h.tags[q] # "live" => h.consumers[q] = 0
             /\ Once(h.rpcs, <<"start", q>>)
             /\ h.consumers[q] <= 1
             /\ Starts(h, q) => h.consumers[q] = 0
             /\ q \notin h.manager => h.consumers[q] = 0 /\ ~ Starts(h, q)
  <2>1. /\ g.tags[q] # "live" => g.consumers[q] = 0
        /\ Once(g.rpcs, <<"start", q>>)
        /\ g.consumers[q] <= 1
        /\ Starts(g, q) => g.consumers[q] = 0
        /\ q \notin g.manager => g.consumers[q] = 0 /\ ~ Starts(g, q)
    BY <1>1, <1>7, NoTask DEF GatewayInv, SurplusInv
  <2>2. Once(h.rpcs, <<"start", q>>)
    BY <1>2, <2>1
  <2>3. CASE q = k /\ kind = "start"
    <3>1. Starts(g, k) /\ ~ Starts(h, k)
      BY <1>2, <1>4, <1>5, <2>1, <2>3
    <3> QED BY <1>1, <2>1, <2>2, <2>3, <3>1
  <2>4. CASE ~ (q = k /\ kind = "start")
    BY <1>5, <2>1, <2>2, <2>4
  <2> QED BY <2>3, <2>4
<1>8. SurplusInv(h)
  BY <1>1, <1>7 DEF SurplusInv
<1> QED BY <1>3, <1>6, <1>8 DEF GatewayInv

\* Only a channel that is being created outlives its WebSocket.
LEMMA ClosedRight ==
  ASSUME NEW g \in Records, GatewayInv(g), g.channel = "creating"
  PROVE  GatewayInv([Nothing EXCEPT !.channel = "creating", !.waiting = g.waiting])
<1> DEFINE h == [Nothing EXCEPT !.channel = "creating", !.waiting = g.waiting]
<1>1. /\ h \in Records /\ h.channel = "creating" /\ h.waiting = g.waiting /\ h.socket = FALSE
      /\ h.rpcs = <<>> /\ h.tags = [k \in Keys |-> "missing"] /\ h.consumers = [k \in Keys |-> 0]
      /\ h.manager = {}
  <2>1. g.waiting \in Seq(Tasks)
    BY Fields
  <2>2. /\ h.channel = "creating" /\ h.waiting = g.waiting /\ h.socket = FALSE /\ h.rpcs = <<>>
        /\ h.tags = [k \in Keys |-> "missing"] /\ h.consumers = [k \in Keys |-> 0] /\ h.manager = {}
    BY DEF Nothing
  <2> HIDE DEF h
  <2>3. h \in Records
    <3>1. \A w \in Seq(Tasks) : [Nothing EXCEPT !.channel = "creating", !.waiting = w] \in Records
      BY NothingFields DEF Records
    <3> QED BY <2>1, <3>1 DEF h
  <2> QED BY <2>2, <2>3
<1>2. g.waiting # <<>>
  BY DEF GatewayInv, ChannelInv
<1> HIDE DEF h
<1>3. ChannelInv(h)
  BY <1>1, <1>2 DEF ChannelInv
<1>4. ManagerInv(h) /\ SurplusInv(h)
  BY <1>1 DEF ManagerInv, SurplusInv
<1> QED BY <1>1, <1>3, <1>4 DEF GatewayInv, h

-----------------------------------------------------------------------------
(* The messages of the tab.                                                *)

\* The gateway takes a message off: what is wanted stays wanted.
LEMMA ReadWanted ==
  ASSUME NEW g \in Records, NEW h \in Records, NEW k \in Keys, Wanted(g, k),
         g.inbox # <<>>, h.inbox = Tail(g.inbox),
         g.auth => h.auth,
         Head(g.inbox) = <<"auth">> => h.auth,
         k \in g.manager /\ Head(g.inbox) # <<"unsubscribe", k>> => k \in h.manager,
         Head(g.inbox) = <<"subscribe", k>> /\ g.auth => k \in h.manager
  PROVE  Wanted(h, k)
<1> DEFINE n == Len(g.inbox)
<1>1. /\ g.inbox \in Seq(Commands) /\ n \in Nat /\ n >= 1 /\ DOMAIN g.inbox = 1 .. n
      /\ Head(g.inbox) = g.inbox[1]
      /\ DOMAIN h.inbox = 1 .. (n - 1) /\ Len(h.inbox) = n - 1
      /\ \A i \in 1 .. (n - 1) : h.inbox[i] = g.inbox[i + 1]
  <2>1. g.inbox \in Seq(Commands)
    BY Fields
  <2>2. ASSUME NEW s \in Seq(Commands), s # <<>>
        PROVE  /\ Len(s) \in Nat /\ Len(s) >= 1 /\ DOMAIN s = 1 .. Len(s) /\ Head(s) = s[1]
               /\ DOMAIN Tail(s) = 1 .. (Len(s) - 1) /\ Len(Tail(s)) = Len(s) - 1
               /\ \A i \in 1 .. (Len(s) - 1) : Tail(s)[i] = s[i + 1]
    BY <2>2
  <2> QED BY <2>1, <2>2
<1>2. /\ \A i \in 1 .. n : i = 1 \/ (i - 1 \in 1 .. (n - 1) /\ h.inbox[i - 1] = g.inbox[i])
      /\ \A i \in 1 .. (n - 1) : i + 1 \in 1 .. n /\ i + 1 # 1
      /\ 1 \in 1 .. n
  BY <1>1
<1> HIDE DEF n
<1>3. CASE k \in g.manager /\ ~ Contains(g.inbox, <<"unsubscribe", k>>)
  <2>1. \A i \in 1 .. n : g.inbox[i] # <<"unsubscribe", k>>
    BY <1>3 DEF Contains, n
  <2>2. \A i \in 1 .. (n - 1) : h.inbox[i] # <<"unsubscribe", k>>
    BY <1>1, <1>2, <2>1
  <2>3. ~ Contains(h.inbox, <<"unsubscribe", k>>)
    BY <1>1, <2>2 DEF Contains
  <2> QED BY <1>1, <1>2, <1>3, <2>1, <2>3 DEF Wanted
<1>4. ASSUME NEW i \in DOMAIN g.inbox, g.inbox[i] = <<"subscribe", k>>,
             g.auth \/ \E j \in DOMAIN g.inbox : j < i /\ g.inbox[j] = <<"auth">>,
             \A j \in DOMAIN g.inbox : j > i => g.inbox[j] # <<"unsubscribe", k>>
      PROVE  Wanted(h, k)
  <2>1. CASE i = 1
    <3>1. ~ \E j \in DOMAIN g.inbox : j < i /\ g.inbox[j] = <<"auth">>
      BY <1>1, <2>1
    <3>2. k \in h.manager
      BY <1>1, <1>4, <2>1, <3>1
    <3>3. \A j \in 1 .. (n - 1) : h.inbox[j] # <<"unsubscribe", k>>
      <4>1. \A j \in 1 .. (n - 1) : j + 1 > i
        BY <1>1, <2>1
      <4> QED BY <1>1, <1>2, <1>4, <4>1
    <3> QED BY <1>1, <3>2, <3>3 DEF Wanted, Contains
  <2>2. CASE i # 1
    <3>1. i - 1 \in DOMAIN h.inbox /\ h.inbox[i - 1] = <<"subscribe", k>>
      BY <1>1, <1>2, <1>4, <2>2
    <3>2. h.auth \/ \E j \in DOMAIN h.inbox : j < i - 1 /\ h.inbox[j] = <<"auth">>
      <4>1. CASE g.auth
        BY <4>1
      <4>2. ASSUME NEW j \in DOMAIN g.inbox, j < i, g.inbox[j] = <<"auth">>
            PROVE  h.auth \/ \E l \in DOMAIN h.inbox : l < i - 1 /\ h.inbox[l] = <<"auth">>
        <5>1. CASE j = 1
          BY <1>1, <4>2, <5>1
        <5>2. CASE j # 1
          <6>1. j - 1 \in DOMAIN h.inbox /\ h.inbox[j - 1] = <<"auth">>
            BY <1>1, <1>2, <4>2, <5>2
          <6>2. j - 1 < i - 1
            BY <1>1, <4>2
          <6> QED BY <6>1, <6>2
        <5> QED BY <5>1, <5>2
      <4> QED BY <1>4, <4>1, <4>2
    <3>3. ASSUME NEW j \in DOMAIN h.inbox, j > i - 1 PROVE h.inbox[j] # <<"unsubscribe", k>>
      <4>1. j + 1 \in DOMAIN g.inbox /\ j + 1 > i /\ h.inbox[j] = g.inbox[j + 1]
        BY <1>1, <1>2, <3>3
      <4> QED BY <1>4, <4>1
    <3> QED BY <3>1, <3>2, <3>3 DEF Wanted
  <2> QED BY <2>1, <2>2
<1> QED BY <1>3, <1>4 DEF Wanted

\* The tab sends a message: it takes away only the key it is about.
LEMMA SentWanted ==
  ASSUME NEW g \in Records, NEW h \in Records, NEW k \in Keys, NEW m \in Commands,
         h.inbox = g.inbox \o <<m>>, h.auth = g.auth, h.manager = g.manager
  PROVE  /\ Wanted(g, k) /\ m # <<"unsubscribe", k>> => Wanted(h, k)
         /\ (g.auth \/ Contains(g.inbox, <<"auth">>)) =>
              /\ h.auth \/ Contains(h.inbox, <<"auth">>)
              /\ m = <<"subscribe", k>> => Wanted(h, k)
<1> DEFINE n == Len(g.inbox)
<1>1. /\ n \in Nat /\ DOMAIN g.inbox = 1 .. n
      /\ DOMAIN h.inbox = 1 .. (n + 1) /\ Len(h.inbox) = n + 1
      /\ \A i \in 1 .. n : h.inbox[i] = g.inbox[i]
      /\ h.inbox[n + 1] = m
  <2>1. g.inbox \in Seq(Commands)
    BY Fields
  <2>2. ASSUME NEW s \in Seq(Commands)
        PROVE  /\ Len(s) \in Nat /\ DOMAIN s = 1 .. Len(s)
               /\ DOMAIN (s \o <<m>>) = 1 .. (Len(s) + 1) /\ Len(s \o <<m>>) = Len(s) + 1
               /\ \A i \in 1 .. Len(s) : (s \o <<m>>)[i] = s[i]
               /\ (s \o <<m>>)[Len(s) + 1] = m
    OBVIOUS
  <2> QED BY <2>1, <2>2
<1>2. /\ \A i \in 1 .. (n + 1) : i \in 1 .. n \/ i = n + 1
      /\ \A i \in 1 .. n : i \in 1 .. (n + 1) /\ i < n + 1
      /\ n + 1 \in 1 .. (n + 1)
  BY <1>1
<1> HIDE DEF n
<1>3. ASSUME Wanted(g, k), m # <<"unsubscribe", k>> PROVE Wanted(h, k)
  <2>1. CASE k \in g.manager /\ ~ Contains(g.inbox, <<"unsubscribe", k>>)
    <3>1. \A i \in 1 .. (n + 1) : h.inbox[i] # <<"unsubscribe", k>>
      BY <1>1, <1>2, <1>3, <2>1 DEF Contains, n
    <3> QED BY <1>1, <2>1, <3>1 DEF Wanted, Contains
  <2>2. ASSUME NEW i \in DOMAIN g.inbox, g.inbox[i] = <<"subscribe", k>>,
               g.auth \/ \E j \in DOMAIN g.inbox : j < i /\ g.inbox[j] = <<"auth">>,
               \A j \in DOMAIN g.inbox : j > i => g.inbox[j] # <<"unsubscribe", k>>
        PROVE  Wanted(h, k)
    <3>1. i \in DOMAIN h.inbox /\ h.inbox[i] = <<"subscribe", k>>
      BY <1>1, <1>2, <2>2
    <3>2. h.auth \/ \E j \in DOMAIN h.inbox : j < i /\ h.inbox[j] = <<"auth">>
      BY <1>1, <1>2, <2>2
    <3>3. \A j \in DOMAIN h.inbox : j > i => h.inbox[j] # <<"unsubscribe", k>>
      BY <1>1, <1>2, <1>3, <2>2
    <3> QED BY <3>1, <3>2, <3>3 DEF Wanted
  <2> QED BY <1>3, <2>1, <2>2 DEF Wanted
<1>4. ASSUME g.auth \/ Contains(g.inbox, <<"auth">>) PROVE h.auth \/ Contains(h.inbox, <<"auth">>)
  <2>1. ASSUME NEW i \in 1 .. n, g.inbox[i] = <<"auth">> PROVE Contains(h.inbox, <<"auth">>)
    BY <1>1, <1>2, <2>1 DEF Contains
  <2> QED BY <1>4, <2>1 DEF Contains, n
<1>5. ASSUME g.auth \/ Contains(g.inbox, <<"auth">>), m = <<"subscribe", k>> PROVE Wanted(h, k)
  <2>1. n + 1 \in DOMAIN h.inbox /\ h.inbox[n + 1] = <<"subscribe", k>>
    BY <1>1, <1>2, <1>5
  <2>2. h.auth \/ \E j \in DOMAIN h.inbox : j < n + 1 /\ h.inbox[j] = <<"auth">>
    <3>1. ASSUME NEW i \in 1 .. n, g.inbox[i] = <<"auth">>
          PROVE  \E j \in DOMAIN h.inbox : j < n + 1 /\ h.inbox[j] = <<"auth">>
      BY <1>1, <1>2, <3>1
    <3> QED BY <1>5, <3>1 DEF Contains, n
  <2>3. \A j \in DOMAIN h.inbox : j > n + 1 => h.inbox[j] # <<"unsubscribe", k>>
    BY <1>1
  <2> QED BY <2>1, <2>2, <2>3 DEF Wanted
<1> QED BY <1>3, <1>4, <1>5

\* The messages at the opening end with the authentication and the subscription to the notifications.
LEMMA OpeningWanted ==
  ASSUME NEW h \in Records, NEW s \in Seq(Commands), NEW k \in Keys,
         h.inbox = Append(s, <<"auth">>) \o <<<<"subscribe", k>>>>
  PROVE  Contains(h.inbox, <<"auth">>) /\ Wanted(h, k)
<1> DEFINE n == Len(s)
<1>1. /\ n \in Nat
      /\ DOMAIN h.inbox = 1 .. (n + 2) /\ Len(h.inbox) = n + 2
      /\ h.inbox[n + 1] = <<"auth">> /\ h.inbox[n + 2] = <<"subscribe", k>>
  OBVIOUS
<1> HIDE DEF n
<1>2. n + 1 \in DOMAIN h.inbox /\ n + 2 \in DOMAIN h.inbox /\ n + 1 < n + 2
      /\ \A j \in DOMAIN h.inbox : ~ j > n + 2
  BY <1>1
<1>3. Contains(h.inbox, <<"auth">>)
  BY <1>1, <1>2 DEF Contains
<1>4. Wanted(h, k)
  BY <1>1, <1>2 DEF Wanted
<1> QED BY <1>3, <1>4

-----------------------------------------------------------------------------
(* What a message makes of its connection.                                 *)

\* The tasks that a subscription or the end of one submits, and what the manager knows then.
Submits(g, k, tasks, known) ==
  \/ tasks = <<<<"start", k>>>> /\ k \notin g.manager /\ known = g.manager \cup {k}
  \/ tasks = <<<<"stop", k>>, <<"start", k>>>> /\ k \in g.manager /\ known = g.manager \cup {k}
  \/ tasks = <<<<"stop", k>>>> /\ k \in g.manager /\ known = g.manager \ {k}

LEMMA SubmittedTasks ==
  ASSUME NEW g \in Records, NEW k \in Keys, NEW tasks, NEW known, Submits(g, k, tasks, known)
  PROVE  /\ tasks \in Seq(Tasks) /\ tasks # <<>> /\ known \in SUBSET Keys
         /\ \A q : Contains(tasks, <<"stop", q>>) <=> q = k /\ k \in g.manager
         /\ \A q : Contains(tasks, <<"start", q>>) <=> q = k /\ k \in known
         /\ \A e : Once(tasks, e)
         /\ Sent(g, tasks) \in Seq(Tasks)
         /\ \A q : Contains(Sent(g, tasks), <<"start", q>>) <=> q = k /\ k \in known
         /\ \A e : Once(Sent(g, tasks), e)
         /\ \A q \in Keys \ {k} : q \in known <=> q \in g.manager
<1>1. /\ <<"start", k>> \in Tasks /\ <<"stop", k>> \in Tasks /\ g.manager \in SUBSET Keys
      /\ <<"start", k>>[1] = "start" /\ <<"stop", k>>[1] = "stop"
  BY Fields DEF Tasks
<1>2. /\ \A q : <<"start", k>> = <<"start", q>> <=> k = q
      /\ \A q : <<"stop", k>> = <<"stop", q>> <=> k = q
      /\ \A q : <<"start", k>> # <<"stop", q>> /\ <<"stop", k>> # <<"start", q>>
  BY Apart
<1>3. /\ known \in SUBSET Keys
      /\ \A q \in Keys \ {k} : q \in known <=> q \in g.manager
  BY <1>1 DEF Submits
<1>4. CASE tasks = <<<<"start", k>>>> /\ k \notin g.manager /\ known = g.manager \cup {k}
  <2>1. Sent(g, tasks) = tasks
    BY <1>1, <1>4, OneTask DEF Sent
  <2> QED BY <1>1, <1>2, <1>3, <1>4, <2>1, OneTask
<1>5. CASE tasks = <<<<"stop", k>>, <<"start", k>>>> /\ k \in g.manager /\ known = g.manager \cup {k}
  <2>1. /\ \A e : Contains(tasks, e) <=> <<"stop", k>> = e \/ <<"start", k>> = e
        /\ \A e : Once(tasks, e)
        /\ tasks # <<>> /\ Head(tasks) = <<"stop", k>> /\ Tail(tasks) = <<<<"start", k>>>>
    BY <1>2, <1>5, TwoTasks
  <2>2. Sent(g, tasks) = tasks \/ Sent(g, tasks) = <<<<"start", k>>>>
    BY <2>1 DEF Sent
  <2>3. tasks \in Seq(Tasks) /\ <<<<"start", k>>>> \in Seq(Tasks)
    BY <1>1, <1>5
  <2>4. /\ \A e : Contains(<<<<"start", k>>>>, e) <=> <<"start", k>> = e
        /\ \A e : Once(<<<<"start", k>>>>, e)
    BY OneTask
  <2>5. /\ \A q : Contains(tasks, <<"stop", q>>) <=> q = k
        /\ \A q : Contains(tasks, <<"start", q>>) <=> q = k
        /\ \A q : Contains(<<<<"start", k>>>>, <<"start", q>>) <=> q = k
    BY <1>2, <2>1, <2>4
  <2>6. Sent(g, tasks) \in Seq(Tasks) /\ \A e : Once(Sent(g, tasks), e)
    BY <2>1, <2>2, <2>3, <2>4
  <2>7. \A q : Contains(Sent(g, tasks), <<"start", q>>) <=> q = k
    <3>1. CASE Sent(g, tasks) = tasks
      BY <2>5, <3>1
    <3>2. CASE Sent(g, tasks) = <<<<"start", k>>>>
      BY <2>5, <3>2
    <3> QED BY <2>2, <3>1, <3>2
  <2> QED BY <1>3, <1>5, <2>1, <2>3, <2>5, <2>6, <2>7
<1>6. CASE tasks = <<<<"stop", k>>>> /\ k \in g.manager /\ known = g.manager \ {k}
  <2>1. Sent(g, tasks) = tasks \/ Sent(g, tasks) = <<>>
    BY <1>6, OneTask DEF Sent
  <2>2. /\ \A e : Contains(tasks, e) <=> <<"stop", k>> = e
        /\ \A e : Once(tasks, e)
        /\ tasks # <<>> /\ tasks \in Seq(Tasks)
    BY <1>1, <1>6, OneTask
  <2>3. \A q : Contains(tasks, <<"stop", q>>) <=> q = k
    BY <1>2, <2>2
  <2>4. \A q : ~ Contains(tasks, <<"start", q>>)
    BY <1>2, <2>2
  <2>5. Sent(g, tasks) \in Seq(Tasks) /\ \A e : Once(Sent(g, tasks), e)
    <3>1. CASE Sent(g, tasks) = tasks
      BY <2>2, <3>1
    <3>2. CASE Sent(g, tasks) = <<>>
      BY NoTask, <3>2
    <3> QED BY <2>1, <3>1, <3>2
  <2>6. \A q : ~ Contains(Sent(g, tasks), <<"start", q>>)
    BY <2>1, <2>4, NoTask
  <2> QED BY <1>3, <1>6, <2>2, <2>3, <2>4, <2>5, <2>6
<1> QED BY <1>4, <1>5, <1>6 DEF Submits

\* The connection once they are submitted.
Submitting(g, tasks, known) == [Submitted(g, tasks) EXCEPT !.manager = known]

LEMMA SubmittedRight ==
  ASSUME NEW g \in Records, NEW k \in Keys, NEW tasks, NEW known, GatewayInv(g),
         Submits(g, k, tasks, known),
         NEW h, h = Submitting(g, tasks, known)
  PROVE  /\ h \in Records /\ GatewayInv(h)
         /\ h.inbox = g.inbox /\ h.auth = g.auth /\ h.socket = g.socket /\ h.manager = known
<1>1. /\ tasks \in Seq(Tasks) /\ tasks # <<>> /\ known \in SUBSET Keys
      /\ \A q : Contains(tasks, <<"stop", q>>) <=> q = k /\ k \in g.manager
      /\ \A q : Contains(tasks, <<"start", q>>) <=> q = k /\ k \in known
      /\ \A e : Once(tasks, e)
      /\ Sent(g, tasks) \in Seq(Tasks)
      /\ \A q : Contains(Sent(g, tasks), <<"start", q>>) <=> q = k /\ k \in known
      /\ \A e : Once(Sent(g, tasks), e)
      /\ \A q \in Keys \ {k} : q \in known <=> q \in g.manager
  BY SubmittedTasks
<1>2. /\ g.waiting \in Seq(Tasks) /\ g.rpcs \in Seq(Tasks)
      /\ g.tags \in [Keys -> {"missing", "live", "cancelled"}]
      /\ g.consumers \in [Keys -> Nat] /\ g.overtaken \in SUBSET Keys
  BY Fields
<1>3. CASE g.channel # "open"
  <2>1. \A w \in Seq(Tasks) :
          [[g EXCEPT !.channel = "creating", !.waiting = w] EXCEPT !.manager = known] \in Records
    BY <1>1 DEF Records
  <2>2. g.waiting \o tasks \in Seq(Tasks)
    BY <1>1, <1>2, Joined
  <2>3. h = [[g EXCEPT !.channel = "creating", !.waiting = g.waiting \o tasks] EXCEPT !.manager = known]
    BY <1>3 DEF Submitting, Submitted, Records
  <2>4. h \in Records
    BY <2>1, <2>2, <2>3
  <2>5. /\ h.inbox = g.inbox /\ h.auth = g.auth /\ h.socket = g.socket /\ h.manager = known
        /\ h.channel = "creating" /\ h.waiting = g.waiting \o tasks
        /\ h.rpcs = g.rpcs /\ h.tags = g.tags /\ h.consumers = g.consumers /\ h.overtaken = g.overtaken
    BY <2>3 DEF Records
  <2>6. TasksOf(g, h, k, tasks)
    BY <1>1, <2>5 DEF TasksOf
  <2>7. \A q \in Keys \ {k} : q \in h.manager <=> q \in g.manager
    BY <1>1, <2>5
  <2>8. GatewayInv(h)
    BY <1>3, <2>4, <2>5, <2>6, <2>7, WaitingRight
  <2> QED BY <2>4, <2>5, <2>8
<1>4. CASE g.channel = "open"
  <2> DEFINE stopped == {q \in Of("stop", tasks) : g.tags[q] = "live"}
             tags == [q \in Keys |-> IF q \in stopped THEN "cancelled" ELSE g.tags[q]]
             consumers == [q \in Keys |-> IF q \in stopped THEN g.consumers[q] - 1 ELSE g.consumers[q]]
             overtaken == g.overtaken \cup (Of("stop", tasks) \cap Of("start", g.rpcs))
  <2>1. \A q \in Keys : q \in stopped <=> q = k /\ k \in g.manager /\ g.tags[q] = "live"
    BY <1>1 DEF Of
  <2>2. \A q \in Keys : q \in overtaken <=>
          q \in g.overtaken \/ (q = k /\ k \in g.manager /\ Contains(g.rpcs, <<"start", q>>))
    BY <1>1 DEF Of
  <2>3. overtaken \in SUBSET Keys
    BY <1>2 DEF Of
  <2>4. \A q \in Keys : g.tags[q] = "live" => g.consumers[q] > 0
    BY DEF GatewayInv, ChannelInv
  <2> HIDE DEF stopped, overtaken
  <2>5. tags \in [Keys -> {"missing", "live", "cancelled"}]
    BY <1>2
  <2>6. consumers \in [Keys -> Nat]
    <3>1. \A q \in Keys : g.consumers[q] \in Nat /\ (q \in stopped => g.consumers[q] > 0)
      BY <1>2, <2>1, <2>4
    <3> QED BY <3>1
  <2>7. g.rpcs \o Sent(g, tasks) \in Seq(Tasks)
    BY <1>1, <1>2, Joined
  <2>8. h = [[g EXCEPT !.rpcs = g.rpcs \o Sent(g, tasks), !.tags = tags, !.consumers = consumers,
                       !.overtaken = overtaken] EXCEPT !.manager = known]
    BY <1>4 DEF Submitting, Submitted, Ran, stopped, overtaken
  <2> HIDE DEF tags, consumers
  <2>9. h \in Records
    <3>1. \A r \in Seq(Tasks) :
            [[g EXCEPT !.rpcs = r, !.tags = tags, !.consumers = consumers,
                       !.overtaken = overtaken] EXCEPT !.manager = known] \in Records
      BY <1>1, <2>3, <2>5, <2>6 DEF Records
    <3> QED BY <2>7, <2>8, <3>1
  <2>10. /\ h.inbox = g.inbox /\ h.auth = g.auth /\ h.socket = g.socket /\ h.manager = known
         /\ h.channel = g.channel /\ h.waiting = g.waiting
         /\ h.rpcs = g.rpcs \o Sent(g, tasks) /\ h.tags = tags /\ h.consumers = consumers
         /\ h.overtaken = overtaken
    BY <2>8 DEF Records
  <2>11. \A q \in Keys : h.tags[q] =
           IF q = k /\ k \in g.manager /\ g.tags[q] = "live" THEN "cancelled" ELSE g.tags[q]
    BY <2>1, <2>10 DEF tags
  <2>12. \A q \in Keys : h.consumers[q] =
           IF q = k /\ k \in g.manager /\ g.tags[q] = "live" THEN g.consumers[q] - 1 ELSE g.consumers[q]
    BY <2>1, <2>10 DEF consumers
  <2>13. /\ \A q \in Keys \ {k} : q \in h.manager <=> q \in g.manager
         /\ \A q : Contains(Sent(g, tasks), <<"start", q>>) <=> q = k /\ k \in h.manager
         /\ \A q \in Keys : q \in h.overtaken <=>
              q \in g.overtaken \/ (q = k /\ k \in g.manager /\ Contains(g.rpcs, <<"start", q>>))
         /\ h.channel = "open"
    BY <1>1, <1>4, <2>2, <2>10
  <2>14. PICK sent \in Seq(Tasks) : sent = Sent(g, tasks)
    BY <1>1
  <2>15. RunsOn(g, h, k, sent)
    BY <1>1, <2>10, <2>11, <2>12, <2>13, <2>14 DEF RunsOn
  <2>16. h.waiting = g.waiting /\ h.socket = g.socket
    BY <2>10
  <2>17. GatewayInv(h)
    BY <1>4, <2>9, <2>13, <2>15, <2>16, RunningRight
  <2> QED BY <2>9, <2>10, <2>17
<1> QED BY <1>3, <1>4

-----------------------------------------------------------------------------
(* Steps of the gateway.                                                   *)

LEMMA HeadForm ==
  ASSUME NEW g \in Records, g.inbox # <<>>
  PROVE  /\ Head(g.inbox) \in Commands /\ Tail(g.inbox) \in Seq(Commands)
         /\ Head(g.inbox)[1] = "auth" => Head(g.inbox) = <<"auth">>
         /\ Head(g.inbox)[1] = "ping" => Head(g.inbox) = <<"ping">>
         /\ \A kind \in {"subscribe", "unsubscribe"} : Head(g.inbox)[1] = kind =>
              Head(g.inbox)[2] \in Keys /\ Head(g.inbox) = <<kind, Head(g.inbox)[2]>>
<1>1. g.inbox \in Seq(Commands)
  BY Fields
<1>2. Head(g.inbox) \in Commands /\ Tail(g.inbox) \in Seq(Commands)
  BY <1>1, TakenOff
<1>3. ASSUME NEW m \in Commands
      PROVE  /\ m[1] = "auth" => m = <<"auth">>
             /\ m[1] = "ping" => m = <<"ping">>
             /\ \A kind \in {"subscribe", "unsubscribe"} : m[1] = kind => m[2] \in Keys /\ m = <<kind, m[2]>>
  BY <1>3 DEF Commands
<1> QED BY <1>2, <1>3

\* A step that changes one connection.
LEMMA OneStep ==
  ASSUME LiveInv, NEW c \in Connections, NEW h \in Records, GatewayInv(h),
         gateway' = [gateway EXCEPT ![c] = h],
         UNCHANGED <<ws, state, link, connected, pending, asked>>,
         gateway[c] # Nothing, h.socket => gateway[c].socket,
         c = ws /\ Connected /\ h.socket =>
           /\ h.auth \/ Contains(h.inbox, <<"auth">>)
           /\ \A k \in asked : Wanted(h, k)
  PROVE  LiveInv'
<1>1. /\ gateway \in [Connections -> Records] /\ gateway' \in [Connections -> Records]
      /\ gateway'[c] = h /\ \A d \in Connections \ {c} : gateway'[d] = gateway[d]
  BY DEF LiveInv
<1>2. \A d \in Connections : GatewayInv(gateway'[d])
  BY <1>1 DEF LiveInv
<1>3. TabInv'
  BY <1>1 DEF LiveInv, TabInv
<1>4. ws \in Connections => (gateway'[ws].socket => gateway[ws].socket)
  BY <1>1
<1>5. WantedInv'
  <2>1. SUFFICES ASSUME Connected' PROVE WantedInv'
    BY DEF WantedInv
  <2>2. ws \in Connections /\ Connected
    BY <1>4, <2>1 DEF LiveInv, TabInv, Connected
  <2>3. CASE c = ws
    <3>1. gateway'[ws] = h /\ h.socket /\ ws' = ws /\ asked' = asked
      BY <1>1, <2>1, <2>3 DEF Connected
    <3> QED BY <2>2, <2>3, <3>1 DEF WantedInv
  <2>4. CASE c # ws
    <3>1. gateway'[ws] = gateway[ws] /\ ws' = ws /\ asked' = asked
      BY <1>1, <2>2, <2>4
    <3> QED BY <2>2, <3>1 DEF WantedInv, LiveInv
  <2> QED BY <2>3, <2>4
<1> QED BY <1>1, <1>2, <1>3, <1>5 DEF LiveInv

LEMMA SocketFields ==
  ASSUME LiveInv, NEW c \in Connections
  PROVE  /\ gateway[c] \in Records /\ GatewayInv(gateway[c])
         /\ c = ws /\ Connected =>
              /\ gateway[c].auth \/ Contains(gateway[c].inbox, <<"auth">>)
              /\ asked \in SUBSET Keys /\ \A k \in asked : Wanted(gateway[c], k)
BY DEF LiveInv, TabInv, WantedInv

\* A step that takes a message off and closes no WebSocket.
LEMMA ReadStep ==
  ASSUME LiveInv, NEW c \in Connections, NEW h \in Records, GatewayInv(h),
         gateway' = [gateway EXCEPT ![c] = h],
         UNCHANGED <<ws, state, link, connected, pending, asked>>,
         gateway[c].inbox # <<>>, h.inbox = Tail(gateway[c].inbox), h.socket = gateway[c].socket,
         gateway[c].auth => h.auth,
         Head(gateway[c].inbox) = <<"auth">> => h.auth,
         \A k \in Keys :
           /\ k \in gateway[c].manager /\ Head(gateway[c].inbox) # <<"unsubscribe", k>> => k \in h.manager
           /\ Head(gateway[c].inbox) = <<"subscribe", k>> /\ gateway[c].auth => k \in h.manager
  PROVE  LiveInv'
<1>1. gateway[c] # Nothing
  BY NothingFields
<1>2. gateway[c] \in Records
  BY SocketFields
<1>3. gateway[c].auth \/ Contains(gateway[c].inbox, <<"auth">>) => h.auth \/ Contains(h.inbox, <<"auth">>)
  <2>1. PICK s \in Seq(Commands) : s = gateway[c].inbox
    BY <1>2, Fields
  <2>2. \A e : Contains(s, e) <=> Head(s) = e \/ Contains(Tail(s), e)
    BY <2>1, TakenOff
  <2>3. Contains(s, <<"auth">>) => Head(s) = <<"auth">> \/ Contains(Tail(s), <<"auth">>)
    BY <2>2
  <2> QED BY <2>1, <2>3
<1>4. ASSUME NEW k \in Keys, Wanted(gateway[c], k) PROVE Wanted(h, k)
  BY <1>2, <1>4, ReadWanted
<1>5. c = ws /\ Connected /\ h.socket =>
        /\ h.auth \/ Contains(h.inbox, <<"auth">>)
        /\ \A k \in asked : Wanted(h, k)
  BY <1>3, <1>4, SocketFields
<1> QED BY <1>1, <1>5, OneStep

\* The gateway ends: nothing of any connection is left.
LEMMA ExitStep ==
  ASSUME LiveInv, Exit, UNCHANGED <<ws, state, link, connected, pending, asked>>
  PROVE  LiveInv'
<1>1. /\ gateway' \in [Connections -> Records]
      /\ \A c \in Connections : gateway'[c] = Nothing
  BY NothingFields DEF Exit
<1>2. \A c \in Connections : GatewayInv(gateway'[c])
  BY <1>1, NothingFields, FreshRight
<1>3. TabInv'
  BY <1>1 DEF LiveInv, TabInv
<1>4. WantedInv'
  <2>1. ~ Connected'
    BY <1>1, NothingFields DEF Connected, LiveInv, TabInv
  <2> QED BY <2>1 DEF WantedInv
<1> QED BY <1>1, <1>2, <1>3, <1>4 DEF LiveInv

LEMMA RestFields ==
  ASSUME NEW c \in Connections, gateway[c] \in Records, GatewayInv(gateway[c]), gateway[c].inbox # <<>>
  PROVE  /\ Rest(c) \in Records /\ GatewayInv(Rest(c))
         /\ Rest(c).inbox = Tail(gateway[c].inbox) /\ Rest(c).socket = gateway[c].socket
         /\ Rest(c).auth = gateway[c].auth /\ Rest(c).manager = gateway[c].manager
         /\ Rest(c).channel = gateway[c].channel /\ Rest(c).waiting = gateway[c].waiting
         /\ Rest(c).rpcs = gateway[c].rpcs /\ Rest(c).tags = gateway[c].tags
         /\ Rest(c).consumers = gateway[c].consumers /\ Rest(c).overtaken = gateway[c].overtaken
<1>1. PICK g \in Records : g = gateway[c]
  OBVIOUS
<1>2. Tail(g.inbox) \in Seq(Commands)
  BY <1>1, HeadForm
<1>3. PICK r : r = Rest(c)
  OBVIOUS
<1>4. r = [g EXCEPT !.inbox = Tail(g.inbox)]
  BY <1>1, <1>3 DEF Rest
<1>5. r \in Records
  <2>1. \A s \in Seq(Commands) : [g EXCEPT !.inbox = s] \in Records
    BY DEF Records
  <2> QED BY <1>2, <1>4, <2>1
<1>6. /\ r.inbox = Tail(g.inbox) /\ r.socket = g.socket
      /\ r.auth = g.auth /\ r.manager = g.manager /\ r.channel = g.channel /\ r.waiting = g.waiting
      /\ r.rpcs = g.rpcs /\ r.tags = g.tags /\ r.consumers = g.consumers /\ r.overtaken = g.overtaken
  BY <1>4 DEF Records
<1>7. GatewayInv(r)
  BY <1>1, <1>5, <1>6, SameRight
<1> QED BY <1>1, <1>3, <1>5, <1>6, <1>7

tab == <<ws, state, link, connected, pending, asked>>

LEMMA AuthenticateStep ==
  ASSUME LiveInv, NEW c \in Connections, Authenticate(c), UNCHANGED tab
  PROVE  LiveInv'
<1>1. gateway[c] \in Records /\ GatewayInv(gateway[c]) /\ gateway[c].inbox # <<>>
      /\ Head(gateway[c].inbox)[1] = "auth"
  BY SocketFields DEF Authenticate, Received
<1>2. Head(gateway[c].inbox) = <<"auth">>
  BY <1>1, HeadForm
<1>3. PICK h : h = [Rest(c) EXCEPT !.auth = TRUE]
  OBVIOUS
<1>4. PICK r \in Records : r = Rest(c)
  BY <1>1, RestFields
<1>5. /\ h \in Records /\ h.auth = TRUE /\ h.inbox = r.inbox /\ h.socket = r.socket
      /\ h.manager = r.manager /\ h.channel = r.channel /\ h.waiting = r.waiting
      /\ h.rpcs = r.rpcs /\ h.tags = r.tags /\ h.consumers = r.consumers /\ h.overtaken = r.overtaken
  BY <1>3, <1>4 DEF Records
<1>6. GatewayInv(h)
  BY <1>1, <1>4, <1>5, RestFields, SameRight
<1>7. /\ h.inbox = Tail(gateway[c].inbox) /\ h.socket = gateway[c].socket
      /\ h.manager = gateway[c].manager
  BY <1>1, <1>4, <1>5, RestFields
<1>8. gateway' = [gateway EXCEPT ![c] = h]
  BY <1>3 DEF Authenticate
<1>9. \A k \in Keys : Head(gateway[c].inbox) # <<"subscribe", k>>
  BY <1>2, Apart
<1> QED BY <1>1, <1>5, <1>6, <1>7, <1>8, <1>9, ReadStep DEF tab

\* A message that changes no subscription.
LEMMA IgnoredStep ==
  ASSUME LiveInv, NEW c \in Connections, gateway[c].inbox # <<>>,
         gateway' = [gateway EXCEPT ![c] = Rest(c)], UNCHANGED tab,
         Head(gateway[c].inbox) # <<"auth">>,
         \A k \in Keys : Head(gateway[c].inbox) # <<"subscribe", k>> \/ ~ gateway[c].auth
  PROVE  LiveInv'
<1>1. gateway[c] \in Records /\ GatewayInv(gateway[c])
  BY SocketFields
<1>2. PICK r \in Records : r = Rest(c)
  BY <1>1, RestFields
<1>3. /\ GatewayInv(r) /\ r.inbox = Tail(gateway[c].inbox) /\ r.socket = gateway[c].socket
      /\ r.auth = gateway[c].auth /\ r.manager = gateway[c].manager
  BY <1>1, <1>2, RestFields
<1>4. gateway' = [gateway EXCEPT ![c] = r]
  BY <1>2
<1> QED BY <1>3, <1>4, ReadStep DEF tab

LEMMA PongStep ==
  ASSUME LiveInv, NEW c \in Connections, Pong(c), UNCHANGED tab
  PROVE  LiveInv'
<1>1. /\ gateway[c].inbox # <<>> /\ Head(gateway[c].inbox)[1] = "ping"
      /\ gateway' = [gateway EXCEPT ![c] = Rest(c)]
  BY DEF Pong, Received
<1>2. Head(gateway[c].inbox)[1] # "auth" /\ Head(gateway[c].inbox)[1] # "subscribe"
  BY <1>1
<1>3. Head(gateway[c].inbox) # <<"auth">> /\ \A k \in Keys : Head(gateway[c].inbox) # <<"subscribe", k>>
  <2>1. <<"auth">>[1] = "auth" /\ \A k \in Keys : <<"subscribe", k>>[1] = "subscribe"
    OBVIOUS
  <2> QED BY <1>2, <2>1
<1> QED BY <1>1, <1>3, IgnoredStep

LEMMA IgnoreStep ==
  ASSUME LiveInv, NEW c \in Connections, Ignore(c), UNCHANGED tab
  PROVE  LiveInv'
<1>1. /\ gateway[c].inbox # <<>> /\ gateway' = [gateway EXCEPT ![c] = Rest(c)]
      /\ \/ Head(gateway[c].inbox)[1] = "subscribe" /\ ~ gateway[c].auth
         \/ Head(gateway[c].inbox)[1] = "unsubscribe"
  BY DEF Ignore, Received
<1>2. <<"auth">>[1] = "auth" /\ \A k \in Keys : <<"subscribe", k>>[1] = "subscribe"
  OBVIOUS
<1>3. Head(gateway[c].inbox) # <<"auth">>
  BY <1>1, <1>2
<1>4. \A k \in Keys : Head(gateway[c].inbox) # <<"subscribe", k>> \/ ~ gateway[c].auth
  BY <1>1, <1>2
<1> QED BY <1>1, <1>3, <1>4, IgnoredStep

LEMMA SubmitStep ==
  ASSUME LiveInv, NEW c \in Connections, NEW k \in Keys, NEW tasks, NEW known,
         gateway[c].inbox # <<>>, Submits(gateway[c], k, tasks, known),
         Submit(c, tasks, known), UNCHANGED tab,
         Head(gateway[c].inbox) # <<"auth">>,
         \A q \in Keys :
           /\ q \in gateway[c].manager /\ Head(gateway[c].inbox) # <<"unsubscribe", q>> => q \in known
           /\ Head(gateway[c].inbox) = <<"subscribe", q>> /\ gateway[c].auth => q \in known
  PROVE  LiveInv'
<1>1. CASE Exit
  BY <1>1, ExitStep DEF tab
<1>2. CASE gateway' = [gateway EXCEPT ![c] = [Submitted(Rest(c), tasks) EXCEPT !.manager = known]]
  <2>1. gateway[c] \in Records /\ GatewayInv(gateway[c])
    BY SocketFields
  <2>2. PICK r \in Records : r = Rest(c)
    BY <2>1, RestFields
  <2>3. /\ GatewayInv(r) /\ r.inbox = Tail(gateway[c].inbox) /\ r.socket = gateway[c].socket
        /\ r.auth = gateway[c].auth /\ r.manager = gateway[c].manager
    BY <2>1, <2>2, RestFields
  <2>4. Submits(r, k, tasks, known)
    BY <2>3 DEF Submits
  <2>5. PICK h : h = Submitting(r, tasks, known)
    OBVIOUS
  <2>6. /\ h \in Records /\ GatewayInv(h)
        /\ h.inbox = r.inbox /\ h.auth = r.auth /\ h.socket = r.socket /\ h.manager = known
    BY <2>2, <2>3, <2>4, <2>5, SubmittedRight
  <2>7. gateway' = [gateway EXCEPT ![c] = h]
    BY <1>2, <2>2, <2>5 DEF Submitting
  <2>8. /\ h.inbox = Tail(gateway[c].inbox) /\ h.socket = gateway[c].socket
        /\ h.auth = gateway[c].auth /\ h.manager = known
    BY <2>3, <2>6
  <2> QED BY <2>6, <2>7, <2>8, ReadStep DEF tab
<1> QED BY <1>1, <1>2 DEF Submit

LEMMA AddSubscriptionStep ==
  ASSUME LiveInv, NEW c \in Connections, AddSubscription(c), UNCHANGED tab
  PROVE  LiveInv'
<1>1. /\ gateway[c] \in Records /\ gateway[c].inbox # <<>>
      /\ Head(gateway[c].inbox)[1] = "subscribe"
      /\ Submit(c, AddTasks(c, Key(c)), gateway[c].manager \cup {Key(c)})
  BY SocketFields DEF AddSubscription, Received
<1>2. Key(c) \in Keys /\ Head(gateway[c].inbox) = <<"subscribe", Key(c)>>
  BY <1>1, HeadForm DEF Key
<1>3. PICK k \in Keys : k = Key(c)
  BY <1>2
<1>4. PICK tasks : tasks = AddTasks(c, k)
  OBVIOUS
<1>5. PICK known : known = gateway[c].manager \cup {k}
  OBVIOUS
<1>6. Submits(gateway[c], k, tasks, known)
  BY <1>4, <1>5 DEF Submits, AddTasks
<1>7. Submit(c, tasks, known)
  BY <1>1, <1>3, <1>4, <1>5
<1>8. /\ Head(gateway[c].inbox) # <<"auth">>
      /\ \A q \in Keys : Head(gateway[c].inbox) = <<"subscribe", q>> => q = k
  BY <1>2, <1>3, Apart
<1>9. \A q \in Keys :
        /\ q \in gateway[c].manager /\ Head(gateway[c].inbox) # <<"unsubscribe", q>> => q \in known
        /\ Head(gateway[c].inbox) = <<"subscribe", q>> /\ gateway[c].auth => q \in known
  BY <1>5, <1>8
<1> QED BY <1>1, <1>6, <1>7, <1>8, <1>9, SubmitStep

LEMMA RemoveSubscriptionStep ==
  ASSUME LiveInv, NEW c \in Connections, RemoveSubscription(c), UNCHANGED tab
  PROVE  LiveInv'
<1>1. /\ gateway[c] \in Records /\ gateway[c].inbox # <<>>
      /\ Head(gateway[c].inbox)[1] = "unsubscribe" /\ Key(c) \in gateway[c].manager
      /\ Submit(c, <<<<"stop", Key(c)>>>>, gateway[c].manager \ {Key(c)})
  BY SocketFields DEF RemoveSubscription, Received
<1>2. Key(c) \in Keys /\ Head(gateway[c].inbox) = <<"unsubscribe", Key(c)>>
  BY <1>1, HeadForm DEF Key
<1>3. PICK k \in Keys : k = Key(c)
  BY <1>2
<1>4. PICK tasks : tasks = <<<<"stop", k>>>>
  OBVIOUS
<1>5. PICK known : known = gateway[c].manager \ {k}
  OBVIOUS
<1>6. Submits(gateway[c], k, tasks, known)
  BY <1>1, <1>3, <1>4, <1>5 DEF Submits
<1>7. Submit(c, tasks, known)
  BY <1>1, <1>3, <1>4, <1>5
<1>8. /\ Head(gateway[c].inbox) # <<"auth">> /\ Head(gateway[c].inbox) = <<"unsubscribe", k>>
      /\ \A q \in Keys : Head(gateway[c].inbox) # <<"subscribe", q>>
  BY <1>2, <1>3, Apart
<1>9. \A q \in Keys :
        /\ q \in gateway[c].manager /\ Head(gateway[c].inbox) # <<"unsubscribe", q>> => q \in known
        /\ Head(gateway[c].inbox) = <<"subscribe", q>> /\ gateway[c].auth => q \in known
  BY <1>5, <1>8
<1> QED BY <1>1, <1>6, <1>7, <1>8, <1>9, SubmitStep

LEMMA CloseStep ==
  ASSUME LiveInv, NEW c \in Connections, Close(c), UNCHANGED tab
  PROVE  LiveInv'
<1>1. gateway[c] \in Records /\ GatewayInv(gateway[c]) /\ gateway[c] # Nothing
  BY SocketFields, NothingFields DEF Close, Received
<1>2. CASE Exit
  BY <1>2, ExitStep DEF tab
<1>3. CASE gateway' = [gateway EXCEPT ![c] =
                         IF @.channel = "creating"
                         THEN [Nothing EXCEPT !.channel = "creating", !.waiting = gateway[c].waiting]
                         ELSE Nothing]
  <2>1. PICK h : h = IF gateway[c].channel = "creating"
                     THEN [Nothing EXCEPT !.channel = "creating", !.waiting = gateway[c].waiting]
                     ELSE Nothing
    OBVIOUS
  <2>2. GatewayInv(h) /\ h \in Records
    <3>1. CASE gateway[c].channel = "creating"
      BY <1>1, <2>1, <3>1, ClosedRight DEF GatewayInv
    <3>2. CASE gateway[c].channel # "creating"
      BY <2>1, <3>2, NothingFields, FreshRight
    <3> QED BY <3>1, <3>2
  <2>3. h.socket = FALSE
    BY <2>1 DEF Nothing
  <2>4. gateway' = [gateway EXCEPT ![c] = h]
    BY <1>3, <2>1
  <2> QED BY <1>1, <2>2, <2>3, <2>4, OneStep DEF tab
<1> QED BY <1>2, <1>3 DEF Close

\* What the gateway does to the channel of a connection leaves its messages alone.
LEMMA ChannelStep ==
  ASSUME LiveInv, NEW c \in Connections, NEW h \in Records, GatewayInv(h),
         gateway' = [gateway EXCEPT ![c] = h], UNCHANGED tab, gateway[c] # Nothing,
         h.inbox = gateway[c].inbox, h.auth = gateway[c].auth, h.manager = gateway[c].manager,
         h.socket = gateway[c].socket
  PROVE  LiveInv'
<1>1. \A k \in Keys : Wanted(gateway[c], k) => Wanted(h, k)
  BY DEF Wanted
<1>2. c = ws /\ Connected /\ h.socket =>
        /\ h.auth \/ Contains(h.inbox, <<"auth">>)
        /\ \A k \in asked : Wanted(h, k)
  BY <1>1, SocketFields
<1> QED BY <1>2, OneStep DEF tab

LEMMA CreateChannelStep ==
  ASSUME LiveInv, NEW c \in Connections, CreateChannel(c), UNCHANGED tab
  PROVE  LiveInv'
<1>1. PICK g \in Records : g = gateway[c]
  BY SocketFields
<1>2. /\ GatewayInv(g) /\ g.channel = "creating" /\ g.waiting # <<>> /\ g.rpcs = <<>>
      /\ \A k \in Keys : g.tags[k] = "missing"
      /\ g # Nothing /\ g.waiting \in Seq(Tasks)
  BY <1>1, SocketFields, NothingFields, Fields DEF CreateChannel, GatewayInv, ChannelInv
<1>3. CASE Exit
  BY <1>3, ExitStep DEF tab
<1>4. CASE /\ ~ Breaks(g, g.waiting)
           /\ gateway' = [gateway EXCEPT ![c] =
                            [Ran(g, g.waiting) EXCEPT !.channel = "open", !.waiting = <<>>]]
  <2>1. Of("stop", g.waiting) = {}
    BY <1>2, <1>4 DEF Breaks
  <2>2. \A k \in Keys : ~ Contains(g.waiting, <<"stop", k>>)
    BY <2>1 DEF Of
  <2>3. Sent(g, g.waiting) = g.waiting
    <3>1. /\ Head(g.waiting) \in Tasks
          /\ \A e : Contains(g.waiting, e) <=> Head(g.waiting) = e \/ Contains(Tail(g.waiting), e)
      BY <1>2, TakenOff
    <3>2. \A t \in Tasks : t[1] = "stop" => t[2] \in Keys /\ t = <<"stop", t[2]>>
      BY DEF Tasks
    <3>3. Head(g.waiting)[1] # "stop"
      BY <2>2, <3>1, <3>2
    <3> QED BY <3>3 DEF Sent
  <2>4. g.rpcs \o g.waiting = g.waiting
    BY <1>2
  <2>5. /\ g.tags = [k \in Keys |-> g.tags[k]]
        /\ g.consumers = [k \in Keys |-> g.consumers[k]]
    BY Fields
  <2>6. Ran(g, g.waiting) = [g EXCEPT !.rpcs = g.waiting, !.tags = g.tags, !.consumers = g.consumers,
                                      !.overtaken = g.overtaken]
    BY <2>1, <2>3, <2>4, <2>5 DEF Ran
  <2>7. PICK h : h = [Ran(g, g.waiting) EXCEPT !.channel = "open", !.waiting = <<>>]
    OBVIOUS
  <2>8. /\ h.inbox = g.inbox /\ h.auth = g.auth /\ h.socket = g.socket /\ h.manager = g.manager
        /\ h.channel = "open" /\ h.waiting = <<>> /\ h.rpcs = g.waiting
        /\ h.tags = g.tags /\ h.consumers = g.consumers /\ h.overtaken = g.overtaken
        /\ h \in Records
    BY <1>2, <2>6, <2>7 DEF Records
  <2>9. GatewayInv(h)
    BY <1>2, <2>2, <2>8, CreatedRight
  <2>10. gateway' = [gateway EXCEPT ![c] = h]
    BY <1>4, <2>7
  <2> QED BY <1>1, <1>2, <2>8, <2>9, <2>10, ChannelStep
<1> QED BY <1>1, <1>3, <1>4 DEF CreateChannel

LEMMA AnswerStep ==
  ASSUME LiveInv, NEW c \in Connections, Answer(c), UNCHANGED tab
  PROVE  LiveInv'
<1>1. PICK g \in Records : g = gateway[c]
  BY SocketFields
<1>2. /\ GatewayInv(g) /\ g.rpcs # <<>> /\ g # Nothing /\ g.rpcs \in Seq(Tasks)
      /\ g.tags \in [Keys -> {"missing", "live", "cancelled"}] /\ g.consumers \in [Keys -> Nat]
  BY <1>1, SocketFields, NothingFields, Fields DEF Answer
<1>3. /\ Head(g.rpcs) \in Tasks /\ Tail(g.rpcs) \in Seq(Tasks)
  BY <1>2, TakenOff
<1>4. PICK kind \in {"start", "stop"} : \E q \in Keys : Head(g.rpcs) = <<kind, q>>
  BY <1>3 DEF Tasks
<1>5. PICK k \in Keys : Head(g.rpcs) = <<kind, k>>
  BY <1>4
<1>6. Head(g.rpcs)[1] = kind /\ Head(g.rpcs)[2] = k
  BY <1>5
<1>7. PICK tags : tags = [g.tags EXCEPT ![k] = IF kind = "start" THEN "live" ELSE @]
  OBVIOUS
<1>8. PICK consumers : consumers = [g.consumers EXCEPT ![k] = IF kind = "start" THEN @ + 1 ELSE @]
  OBVIOUS
<1>9. PICK h : h = [g EXCEPT !.rpcs = Tail(g.rpcs), !.tags = tags, !.consumers = consumers]
  OBVIOUS
<1>10. /\ tags \in [Keys -> {"missing", "live", "cancelled"}]
       /\ \A q \in Keys : tags[q] = IF q = k /\ kind = "start" THEN "live" ELSE g.tags[q]
  BY <1>2, <1>7
<1>11. /\ consumers \in [Keys -> Nat]
       /\ \A q \in Keys :
            consumers[q] = IF q = k /\ kind = "start" THEN g.consumers[q] + 1 ELSE g.consumers[q]
  BY <1>2, <1>8
<1>12. h \in Records
  <2>1. \A s \in Seq(Tasks) : [g EXCEPT !.rpcs = s, !.tags = tags, !.consumers = consumers] \in Records
    BY <1>10, <1>11 DEF Records
  <2> QED BY <1>3, <1>9, <2>1
<1>13. /\ h.inbox = g.inbox /\ h.auth = g.auth /\ h.socket = g.socket /\ h.manager = g.manager
       /\ h.channel = g.channel /\ h.waiting = g.waiting /\ h.rpcs = Tail(g.rpcs)
       /\ h.tags = tags /\ h.consumers = consumers /\ h.overtaken = g.overtaken
  BY <1>9 DEF Records
<1>14. GatewayInv(h)
  BY <1>2, <1>5, <1>10, <1>11, <1>12, <1>13, AnsweredRight
<1>15. gateway' = [gateway EXCEPT ![c] = h]
  BY <1>1, <1>6, <1>7, <1>8, <1>9 DEF Answer
<1> QED BY <1>1, <1>2, <1>12, <1>13, <1>14, <1>15, ChannelStep

LEMMA HandleStep ==
  ASSUME LiveInv, NEW c \in Connections, Handle(c) \/ Ping(c)
  PROVE  LiveInv'
<1>1. CASE Handle(c)
  <2>1. UNCHANGED tab
    BY <1>1 DEF Handle, client, tab
  <2>2. CASE Authenticate(c)
    BY <2>1, <2>2, AuthenticateStep
  <2>3. CASE Ignore(c)
    BY <2>1, <2>3, IgnoreStep
  <2>4. CASE AddSubscription(c)
    BY <2>1, <2>4, AddSubscriptionStep
  <2>5. CASE RemoveSubscription(c)
    BY <2>1, <2>5, RemoveSubscriptionStep
  <2>6. CASE Close(c)
    BY <2>1, <2>6, CloseStep
  <2>7. CASE CreateChannel(c)
    BY <2>1, <2>7, CreateChannelStep
  <2>8. CASE Answer(c)
    BY <2>1, <2>8, AnswerStep
  <2> QED BY <1>1, <2>2, <2>3, <2>4, <2>5, <2>6, <2>7, <2>8 DEF Handle
<1>2. CASE Ping(c)
  BY <1>2, PongStep DEF Ping, ReceivePong, tab
<1> QED BY <1>1, <1>2

-----------------------------------------------------------------------------
(* Steps of the tab and of the network.                                    *)

LEMMA SmallestExists ==
  ASSUME NEW U \in SUBSET Nat, U # {}
  PROVE  Min(U) \in U
<1> DEFINE R == OpToRel(<, Nat)
<1>1. IsWellFoundedOn(R, Nat)
  BY NatLessThanWellFounded
<1>2. \A x, y \in Nat : x < y => <<x, y>> \in R
  BY DEF OpToRel
<1> HIDE DEF R
<1>3. PICK x \in U : \A y \in U : ~ (<<y, x>> \in R)
  BY <1>1, WFMin
<1>4. ASSUME NEW y \in U PROVE x <= y
  <2>1. x \in Nat /\ y \in Nat /\ ~ (y < x)
    BY <1>2, <1>3
  <2> QED BY <2>1
<1> QED BY <1>4 DEF Min

LEMMA Messages ==
  /\ <<"auth">> \in Commands /\ <<"ping">> \in Commands /\ <<"close">> \in Commands
  /\ \A k \in Keys : <<"subscribe", k>> \in Commands /\ <<"unsubscribe", k>> \in Commands
BY DEF Commands

\* Messages put into the inbox of a connection.
LEMMA InboxRight ==
  ASSUME NEW g \in Records, GatewayInv(g), NEW s \in Seq(Commands),
         NEW h, h = [g EXCEPT !.inbox = s]
  PROVE  /\ h \in Records /\ GatewayInv(h) /\ h.inbox = s /\ h.socket = g.socket
         /\ h.auth = g.auth /\ h.manager = g.manager
<1>1. h \in Records
  BY DEF Records
<1>2. /\ h.inbox = s /\ h.socket = g.socket /\ h.auth = g.auth /\ h.manager = g.manager
      /\ h.channel = g.channel /\ h.waiting = g.waiting /\ h.rpcs = g.rpcs /\ h.tags = g.tags
      /\ h.consumers = g.consumers /\ h.overtaken = g.overtaken
  BY DEF Records
<1> QED BY <1>1, <1>2, SameRight

\* Where nothing reaches the gateway, its side of the invariant stays.
LEMMA GatewayAlone ==
  ASSUME LiveInv, UNCHANGED gateway
  PROVE  gateway' \in [Connections -> Records] /\ \A c \in Connections : GatewayInv(gateway'[c])
BY DEF LiveInv

\* What the current connection gets is all that changes at the gateway.
LEMMA TransmitRight ==
  ASSUME LiveInv, NEW messages \in Seq(Commands), Transmit(messages)
  PROVE  /\ gateway' \in [Connections -> Records] /\ \A c \in Connections : GatewayInv(gateway'[c])
         /\ \A c \in Connections \ {ws} : gateway'[c] = gateway[c]
         /\ ~ Connected => gateway' = gateway
         /\ Connected =>
              /\ ws \in Connections
              /\ gateway'[ws].inbox = gateway[ws].inbox \o messages
              /\ gateway'[ws].auth = gateway[ws].auth /\ gateway'[ws].manager = gateway[ws].manager
<1>1. CASE Connected
  <2>1. ws \in Connections /\ gateway[ws] \in Records /\ GatewayInv(gateway[ws])
    BY <1>1 DEF Connected, LiveInv, TabInv
  <2>2. PICK g \in Records : g = gateway[ws] /\ GatewayInv(g)
    BY <2>1
  <2>3. PICK s \in Seq(Commands) : s = g.inbox \o messages
    <3>1. g.inbox \in Seq(Commands)
      BY Fields
    <3> QED BY <3>1, Joined
  <2>4. PICK h : h = [g EXCEPT !.inbox = s]
    OBVIOUS
  <2>5. /\ h \in Records /\ GatewayInv(h) /\ h.inbox = s /\ h.auth = g.auth /\ h.manager = g.manager
    BY <2>2, <2>4, InboxRight
  <2>6. gateway' = [gateway EXCEPT ![ws] = h]
    BY <1>1, <2>2, <2>3, <2>4 DEF Transmit
  <2>7. gateway \in [Connections -> Records]
    BY DEF LiveInv
  <2>8. gateway'[ws] = h /\ \A c \in Connections \ {ws} : gateway'[c] = gateway[c]
    BY <2>1, <2>6, <2>7
  <2>9. gateway' \in [Connections -> Records] /\ \A c \in Connections : GatewayInv(gateway'[c])
    BY <2>5, <2>6, <2>7, <2>8 DEF LiveInv
  <2> QED BY <1>1, <2>1, <2>2, <2>3, <2>5, <2>8, <2>9
<1>2. CASE ~ Connected
  <2>1. gateway' = gateway
    BY <1>2 DEF Transmit
  <2> QED BY <1>2, <2>1, GatewayAlone
<1> QED BY <1>1, <1>2

LEMMA SendStep ==
  ASSUME LiveInv, NEW m \in Commands, SendMessage(m), UNCHANGED <<ws, state, link, connected>>,
         asked' \in SUBSET Keys, asked' # {} => state = "open",
         \A k \in asked' : m = <<"subscribe", k>> \/ (k \in asked /\ m # <<"unsubscribe", k>>)
  PROVE  LiveInv'
<1>1. /\ pending \in Seq(Commands) /\ Append(pending, m) \in Seq(Commands)
      /\ state = "open" => connected /\ pending = <<>>
  BY DEF LiveInv, TabInv
<1>2. CASE ~ connected /\ pending' = Append(pending, m) /\ UNCHANGED gateway
  <2>1. state # "open"
    BY <1>1, <1>2
  <2>2. TabInv'
    BY <1>1, <1>2, <2>1 DEF LiveInv, TabInv
  <2>3. WantedInv'
    BY <2>1 DEF WantedInv, Connected
  <2> QED BY <1>2, <2>2, <2>3, GatewayAlone DEF LiveInv
<1>3. CASE connected /\ pending' = <<>> /\ Transmit(Append(pending, m))
  <2>1. PICK s \in Seq(Commands) : s = Append(pending, m)
    BY <1>1
  <2>2. /\ gateway' \in [Connections -> Records] /\ \A c \in Connections : GatewayInv(gateway'[c])
        /\ ~ Connected => gateway' = gateway
        /\ Connected =>
             /\ ws \in Connections
             /\ gateway'[ws].inbox = gateway[ws].inbox \o s
             /\ gateway'[ws].auth = gateway[ws].auth /\ gateway'[ws].manager = gateway[ws].manager
    BY <1>3, <2>1, TransmitRight
  <2>3. TabInv'
    <3>1. state = "connecting" => gateway'[ws] = Nothing
      BY <2>2 DEF Connected, LiveInv, TabInv
    <3> QED BY <1>3, <3>1 DEF LiveInv, TabInv
  <2>4. WantedInv'
    <3>1. CASE ~ Connected
      <4>1. ~ Connected'
        BY <2>2, <3>1 DEF Connected
      <4> QED BY <4>1 DEF WantedInv
    <3>2. CASE Connected
      <4>1. s = <<m>>
        BY <1>1, <2>1, <3>2 DEF Connected
      <4>2. PICK g \in Records : g = gateway[ws]
        BY <2>2, <3>2 DEF LiveInv
      <4>3. PICK h \in Records : h = gateway'[ws]
        BY <2>2, <3>2
      <4>4. h.inbox = g.inbox \o <<m>> /\ h.auth = g.auth /\ h.manager = g.manager
        BY <2>2, <3>2, <4>1, <4>2, <4>3
      <4>5. /\ g.auth \/ Contains(g.inbox, <<"auth">>)
            /\ \A k \in asked : Wanted(g, k)
        BY <3>2, <4>2 DEF LiveInv, WantedInv
      <4>6. ASSUME NEW k \in Keys
            PROVE  /\ Wanted(g, k) /\ m # <<"unsubscribe", k>> => Wanted(h, k)
                   /\ h.auth \/ Contains(h.inbox, <<"auth">>)
                   /\ m = <<"subscribe", k>> => Wanted(h, k)
        BY <4>4, <4>5, SentWanted
      <4>7. \A k \in asked' : Wanted(h, k)
        BY <4>5, <4>6
      <4>8. h.auth \/ Contains(h.inbox, <<"auth">>)
        BY <4>6, KeysAssumption
      <4> QED BY <4>3, <4>7, <4>8 DEF WantedInv
    <3> QED BY <3>1, <3>2
  <2> QED BY <2>2, <2>3, <2>4 DEF LiveInv
<1> QED BY <1>2, <1>3 DEF SendMessage

LEMMA SetupStep ==
  ASSUME LiveInv, SetupConnection
  PROVE  LiveInv'
<1>1. Unused # {} /\ ws' = Min(Unused) /\ state' = "connecting" /\ asked' = {}
      /\ Transmit(<<<<"close">>>>) /\ UNCHANGED <<connected, pending>>
  BY DEF SetupConnection
<1>2. Unused \in SUBSET Nat
  BY ConnectionsAssumption DEF Unused
<1>3. Min(Unused) \in Unused
  <2>1. PICK U \in SUBSET Nat : U = Unused
    BY <1>2
  <2> QED BY <1>1, <2>1, SmallestExists
<1>4. ws' \in Connections \ {ws} /\ gateway[ws'] = Nothing
  BY <1>1, <1>3 DEF Unused
<1>5. <<<<"close">>>> \in Seq(Commands)
  BY Messages
<1>6. /\ gateway' \in [Connections -> Records] /\ \A c \in Connections : GatewayInv(gateway'[c])
      /\ \A c \in Connections \ {ws} : gateway'[c] = gateway[c]
  BY <1>1, <1>5, TransmitRight
<1>7. PICK w \in Connections \ {ws} : w = ws'
  BY <1>4
<1>8. gateway'[w] = Nothing
  BY <1>4, <1>6, <1>7
<1>9. (gateway[ws])' = Nothing
  BY <1>7, <1>8
<1>10. TabInv'
  BY <1>1, <1>4, <1>9 DEF LiveInv, TabInv
<1>11. WantedInv'
  BY <1>1 DEF WantedInv, Connected
<1> QED BY <1>6, <1>10, <1>11 DEF LiveInv

LEMMA OpenStep ==
  ASSUME LiveInv, OnOpen
  PROVE  LiveInv'
<1>1. /\ state = "connecting" /\ ws \in Connections /\ gateway[ws] = Nothing
      /\ gateway \in [Connections -> Records] /\ pending \in Seq(Commands)
  BY DEF OnOpen, LiveInv, TabInv
<1>2. PICK s : s = OpeningMessages
  OBVIOUS
<1>3. s \in Seq(Commands) /\ s = Append(pending, <<"auth">>) \o <<<<"subscribe", Notes>>>>
  <2>1. /\ Append(pending, <<"auth">>) \in Seq(Commands) /\ <<<<"subscribe", Notes>>>> \in Seq(Commands)
    <3>1. <<"auth">> \in Commands /\ <<"subscribe", Notes>> \in Commands
      BY Messages, KeysAssumption
    <3> QED BY <1>1, <3>1
  <2> QED BY <1>2, <2>1, Joined DEF OpeningMessages
<1>4. PICK h : h = [Nothing EXCEPT !.socket = TRUE, !.inbox = s]
  OBVIOUS
<1>5. /\ h.manager = {} /\ h.waiting = <<>> /\ h.rpcs = <<>> /\ h.channel = "none"
      /\ h.tags = [k \in Keys |-> "missing"] /\ h.consumers = [k \in Keys |-> 0]
      /\ h.inbox = s
  BY <1>4 DEF Nothing
<1>6. h \in Records
  <2>1. \A i \in Seq(Commands) : [Nothing EXCEPT !.socket = TRUE, !.inbox = i] \in Records
    BY NothingFields DEF Records
  <2> QED BY <1>3, <1>4, <2>1
<1>7. GatewayInv(h)
  BY <1>5, <1>6, FreshRight
<1>8. gateway' = [gateway EXCEPT ![ws] = h]
  <2>1. gateway' = [gateway EXCEPT ![ws].socket = TRUE, ![ws].inbox = s]
    BY <1>2 DEF OnOpen
  <2> QED BY <1>1, <1>4, <2>1
<1>9. /\ gateway' \in [Connections -> Records] /\ gateway'[ws] = h
      /\ \A c \in Connections : GatewayInv(gateway'[c])
  BY <1>1, <1>6, <1>7, <1>8 DEF LiveInv
<1>10. TabInv'
  <2>1. /\ state' = "open" /\ connected' = TRUE /\ pending' = <<>> /\ asked' = {Notes} /\ ws' = ws
    BY DEF OnOpen
  <2> QED BY <1>1, <2>1, KeysAssumption DEF TabInv
<1>11. WantedInv'
  <2>1. Contains(h.inbox, <<"auth">>) /\ Wanted(h, Notes)
    BY <1>1, <1>3, <1>5, <1>6, OpeningWanted, KeysAssumption
  <2>2. ws' = ws /\ asked' = {Notes}
    BY DEF OnOpen
  <2> QED BY <1>9, <2>1, <2>2 DEF WantedInv
<1> QED BY <1>9, <1>10, <1>11 DEF LiveInv

LEMMA ClosingStep ==
  ASSUME LiveInv, NEW failed, OnClose(failed), UNCHANGED gateway
  PROVE  LiveInv'
<1>1. /\ state' = "closed" /\ connected' = FALSE /\ asked' = {} /\ UNCHANGED <<ws, pending>>
  BY DEF OnClose
<1>2. TabInv' /\ WantedInv'
  BY <1>1 DEF LiveInv, TabInv, WantedInv, Connected
<1> QED BY <1>2, GatewayAlone DEF LiveInv

LEMMA CutStep ==
  ASSUME LiveInv, Cut
  PROVE  LiveInv'
<1>1. /\ state = "open" /\ link' # "up" /\ UNCHANGED <<ws, state, connected, pending, asked>>
      /\ gateway' = [gateway EXCEPT ![ws].inbox = IF gateway[ws].socket THEN <<<<"close">>>> ELSE @]
  BY DEF Cut
<1>2. ws \in Connections /\ gateway \in [Connections -> Records] /\ GatewayInv(gateway[ws])
  BY <1>1 DEF LiveInv, TabInv
<1>3. PICK g \in Records : g = gateway[ws]
  BY <1>2
<1>4. PICK s \in Seq(Commands) : s = IF g.socket THEN <<<<"close">>>> ELSE g.inbox
  <2>1. <<<<"close">>>> \in Seq(Commands) /\ g.inbox \in Seq(Commands)
    BY Messages, Fields
  <2> QED BY <2>1
<1>5. PICK h : h = [g EXCEPT !.inbox = s]
  OBVIOUS
<1>6. h \in Records /\ GatewayInv(h)
  BY <1>2, <1>3, <1>5, InboxRight
<1>7. gateway' = [gateway EXCEPT ![ws] = h]
  BY <1>1, <1>3, <1>4, <1>5
<1>8. gateway' \in [Connections -> Records] /\ \A c \in Connections : GatewayInv(gateway'[c])
  BY <1>2, <1>6, <1>7 DEF LiveInv
<1>9. TabInv' /\ WantedInv'
  BY <1>1 DEF LiveInv, TabInv, WantedInv, Connected
<1> QED BY <1>8, <1>9 DEF LiveInv

LEMMA TickStep ==
  ASSUME LiveInv, Tick
  PROVE  LiveInv'
<1>1. CASE SetupConnection
  BY <1>1, SetupStep
<1>2. CASE SendMessage(<<"ping">>) /\ UNCHANGED <<ws, state, link, connected, asked>>
  <2>1. \A k \in Keys : <<"ping">> # <<"unsubscribe", k>>
    <3>1. <<"ping">>[1] = "ping" /\ \A k \in Keys : <<"unsubscribe", k>>[1] = "unsubscribe"
      OBVIOUS
    <3> QED BY <3>1
  <2>2. asked \in SUBSET Keys /\ (asked # {} => state = "open")
    BY DEF LiveInv, TabInv
  <2> QED BY <1>2, <2>1, <2>2, Messages, SendStep
<1> QED BY <1>1, <1>2 DEF Tick

LEMMA UserStep ==
  ASSUME LiveInv, Login \/ OpenBoard \/ ReloadBoard \/ LeaveBoard
  PROVE  LiveInv'
<1>1. /\ asked \in SUBSET Keys /\ (asked # {} => state = "open") /\ Board \in Keys
      /\ <<"subscribe", Board>> \in Commands /\ <<"unsubscribe", Board>> \in Commands
      /\ \A k \in Keys : <<"subscribe", Board>> # <<"unsubscribe", k>>
      /\ \A k \in Keys \ {Board} : <<"unsubscribe", Board>> # <<"unsubscribe", k>>
  BY Messages, KeysAssumption, Apart DEF LiveInv, TabInv
<1>2. CASE Login
  BY <1>2, SetupStep DEF Login
<1>3. CASE UNCHANGED <<ws, state, link, connected, pending, asked, gateway>>
  <2>1. TabInv' /\ WantedInv'
    BY <1>3 DEF LiveInv, TabInv, WantedInv, Wanted, Connected
  <2> QED BY <1>3, <2>1, GatewayAlone DEF LiveInv
<1>4. CASE /\ SendMessage(<<"subscribe", Board>>)
           /\ asked' = IF state = "open" THEN asked \cup {Board} ELSE asked
           /\ UNCHANGED <<ws, state, link, connected>>
  <2>1. /\ asked' \in SUBSET Keys /\ (asked' # {} => state = "open")
        /\ \A k \in asked' : k = Board \/ k \in asked
    BY <1>1, <1>4
  <2>2. \A k \in asked' : <<"subscribe", Board>> = <<"subscribe", k>>
                          \/ (k \in asked /\ <<"subscribe", Board>> # <<"unsubscribe", k>>)
    BY <1>1, <2>1
  <2> QED BY <1>1, <1>4, <2>1, <2>2, SendStep
<1>5. CASE /\ SendMessage(<<"unsubscribe", Board>>)
           /\ asked' = asked \ {Board}
           /\ UNCHANGED <<ws, state, link, connected>>
  <2>1. /\ asked' \in SUBSET Keys /\ (asked' # {} => state = "open")
        /\ \A k \in asked' : k \in asked /\ k \in Keys \ {Board}
    BY <1>1, <1>5
  <2>2. \A k \in asked' : <<"unsubscribe", Board>> = <<"subscribe", k>>
                          \/ (k \in asked /\ <<"unsubscribe", Board>> # <<"unsubscribe", k>>)
    BY <1>1, <2>1
  <2> QED BY <1>1, <1>5, <2>1, <2>2, SendStep
<1>6. CASE OpenBoard
  BY <1>3, <1>4, <1>6 DEF OpenBoard
<1>7. CASE ReloadBoard
  BY <1>4, <1>7 DEF ReloadBoard
<1>8. CASE LeaveBoard
  BY <1>3, <1>5, <1>8 DEF LeaveBoard
<1> QED BY <1>2, <1>6, <1>7, <1>8

-----------------------------------------------------------------------------
(* The theorems.                                                           *)

LEMMA LiveInvInit == Init => LiveInv
<1> SUFFICES ASSUME Init PROVE LiveInv
  OBVIOUS
<1>1. gateway \in [Connections -> Records] /\ \A c \in Connections : gateway[c] = Nothing
  BY NothingFields DEF Init, GatewayInit
<1>2. \A c \in Connections : GatewayInv(gateway[c])
  BY <1>1, NothingFields, FreshRight
<1>3. ws = None /\ state = "closed" /\ connected = FALSE /\ pending = <<>> /\ asked = {}
  BY DEF Init, ClientInit
<1>4. TabInv
  <2>1. ws \in Connections \cup {None} /\ pending \in Seq(Commands) /\ asked \in SUBSET Keys
    BY <1>3
  <2>2. state \in {"connecting", "open", "closed"} /\ connected \in BOOLEAN
    BY <1>3
  <2>3. state # "connecting" /\ state # "open" /\ asked = {}
    BY <1>3
  <2> QED BY <1>3, <2>1, <2>2, <2>3 DEF TabInv
<1>5. WantedInv
  BY <1>3 DEF WantedInv, Connected
<1> QED BY <1>1, <1>2, <1>4, <1>5 DEF LiveInv

LEMMA LiveInvNext == LiveInv /\ [Next]_vars => LiveInv'
<1> SUFFICES ASSUME LiveInv, [Next]_vars PROVE LiveInv'
  OBVIOUS
<1>1. ASSUME NEW c \in Connections, Handle(c) \/ Ping(c) PROVE LiveInv'
  BY <1>1, HandleStep
<1>2. CASE Restart
  BY <1>2, ExitStep DEF Restart, client
<1>3. CASE Opens
  BY <1>3, OpenStep DEF Opens
<1>4. CASE Refused
  BY <1>4, ClosingStep DEF Refused
<1>5. CASE Cut
  BY <1>5, CutStep
<1>6. CASE Lost
  BY <1>6, ClosingStep DEF Lost
<1>7. CASE Timer
  BY <1>7, SetupStep DEF Timer, TimerFires
<1>8. CASE Beat
  BY <1>8, TickStep DEF Beat
<1>9. CASE Early
  BY <1>9, SetupStep, TickStep DEF Early, TimerFires
<1>10. CASE User
  BY <1>10, UserStep DEF User
<1>11. CASE UNCHANGED vars
  <2>1. UNCHANGED <<ws, state, link, connected, pending, asked, gateway>>
    BY <1>11 DEF vars, client
  <2>2. TabInv' /\ WantedInv'
    BY <2>1 DEF LiveInv, TabInv, WantedInv, Wanted, Connected
  <2> QED BY <2>1, <2>2, GatewayAlone DEF LiveInv
<1> QED BY <1>1, <1>2, <1>3, <1>4, <1>5, <1>6, <1>7, <1>8, <1>9, <1>10, <1>11 DEF Next

LEMMA LiveInvAlways == Spec => []LiveInv
BY LiveInvInit, LiveInvNext, PTL DEF Spec

\* A gateway that is done has read every message, so the manager knows what the tab asked for, and
\* has the answers to every start.
LEMMA LiveInvDelivers == LiveInv => AskedIsDelivered
<1> SUFFICES ASSUME LiveInv, Connected, Settled, NEW k \in asked PROVE gateway[ws].consumers[k] > 0
  BY DEF AskedIsDelivered
<1>1. ws \in Connections /\ k \in Keys
  BY DEF Connected, LiveInv, TabInv
<1>2. PICK g \in Records : g = gateway[ws] /\ GatewayInv(g)
  BY <1>1 DEF LiveInv
<1>3. g.inbox = <<>> /\ g.waiting = <<>> /\ g.rpcs = <<>>
  BY <1>1, <1>2 DEF Settled
<1>4. Wanted(g, k)
  BY <1>2 DEF LiveInv, WantedInv
<1>5. k \in g.manager
  BY <1>3, <1>4 DEF Wanted
<1>6. ~ Starts(g, k)
  BY <1>3, NoTask DEF Starts
<1> QED BY <1>1, <1>2, <1>5, <1>6 DEF GatewayInv, ManagerInv

LEMMA LiveInvSurplus == LiveInv => SurplusOnlyIfOvertaken
<1> SUFFICES ASSUME LiveInv, NEW c \in Connections, NEW k \in Keys, gateway[c].socket,
                    gateway[c].consumers[k] > (IF k \in gateway[c].manager THEN 1 ELSE 0),
                    k \notin gateway[c].overtaken
             PROVE  FALSE
  BY DEF SurplusOnlyIfOvertaken
<1>1. PICK g \in Records : g = gateway[c] /\ GatewayInv(g)
  BY DEF LiveInv
<1>2. g.consumers[k] \in Nat
  BY Fields
<1>3. CASE Contains(g.waiting, <<"stop", k>>)
  <2>1. g.waiting # <<>>
    BY <1>3, NoTask
  <2>2. g.consumers[k] = 0
    BY <1>1, <2>1 DEF GatewayInv, ChannelInv
  <2> QED BY <1>1, <2>2
<1>4. CASE ~ Contains(g.waiting, <<"stop", k>>)
  <2>1. g.consumers[k] <= 1 /\ (k \notin g.manager => g.consumers[k] = 0)
    BY <1>1, <1>4 DEF GatewayInv, SurplusInv
  <2> QED BY <1>1, <1>2, <2>1
<1> QED BY <1>3, <1>4

\* What the tab has asked for on the connection it has is delivered once the gateway is done, for
\* every number of connections, keys, faults and clicks, and however the handlers of the
\* gateway interleave.
THEOREM AskedDelivered == Spec => []AskedIsDelivered
BY LiveInvAlways, LiveInvDelivers, PTL

\* A consumer too many is left only by a stop that overtook a start of its key.
THEOREM SurplusOvertaken == Spec => []SurplusOnlyIfOvertaken
BY LiveInvAlways, LiveInvSurplus, PTL

=============================================================================
