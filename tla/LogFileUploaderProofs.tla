------------------------- MODULE LogFileUploaderProofs -------------------------
(***************************************************************************)
(* For any number of upload threads, service instances and files: the      *)
(* types; and a started service that is idle will be woken.  With manual   *)
(* uploads one thread uploads at a time, for the service that is up, and   *)
(* sends each file once; a start request overlooks no file; a file reaches *)
(* the uploaded directory only after the server took it, if all answers    *)
(* come from the server's own script; and onDestroy only meets a service   *)
(* that has been started.                                                  *)
(***************************************************************************)
EXTENDS LogFileUploader, FiniteSetTheorems, TLAPS

-------------------------------------------------------------------------------
(* Automatic uploads: whatever threads and messages overlap, a service     *)
(* that has been started will be woken.                                    *)

Ending(i) == inbox[i][1] \in {"complete", "destroy"}

(* Every instance is one more of the calls of startService: those that are *)
(* in the inbox can be numbered with what is left of them.                 *)
Numbered(messages, from, to) ==
  \E number \in [DOMAIN messages -> 0 .. MaxStarts] :
    /\ \A i \in DOMAIN messages : messages[i][1] = "start" => number[i] \in from .. to
    /\ \A i, j \in DOMAIN messages :
         messages[i][1] = "start" /\ messages[j][1] = "start" /\ i < j => number[i] < number[j]

InstanceInv ==
  /\ starts \in 0 .. MaxStarts /\ instances \in 0 .. starts
  /\ current \in 0 .. instances /\ (started => current # NoInstance)
  /\ Numbered(inbox, instances + 1, starts)

AwakeTypes ==
  /\ DOMAIN listening = Instances
  /\ DOMAIN timer = Instances /\ \A s \in Instances : timer[s] \in {Cancelled} \cup Nat
  /\ DOMAIN pc = Callers /\ DOMAIN owner = Threads /\ up \in BOOLEAN
  /\ \E T : inbox \in Seq(T)

(* The main thread is in onStart, or in another handler of an instance.    *)
Starting == pc[MainThread] \in Listing \cup {"decide"}
MainInv ==
  /\ Running(MainThread) => current # NoInstance
  /\ pc[MainThread] \in {"ifWaiting", "newTimer"} => started

(* Once stopService has been called, onDestroy comes after every start     *)
(* that was asked for before.                                              *)
EndsInv ==
  ~up =>
    /\ started \/ Starting => \E i \in DOMAIN inbox : inbox[i][1] = "destroy"
    /\ \A i \in DOMAIN inbox : inbox[i][1] = "start" =>
         \E j \in DOMAIN inbox : i < j /\ inbox[j][1] = "destroy"

(* A thread that has registered the receiver has no more to do, the others *)
(* leave something behind that wakes the service.                          *)
Busy(s) == \E t \in Threads : owner[t] = s /\ pc[t] \notin {"none", "registered"}

WakeInv ==
  started =>
    \/ Busy(current) \/ timer[current] > 0 \/ listening[current]
    \/ (\E i \in DOMAIN inbox : Ending(i)) \/ pc[MainThread] = "newTimer"

InboxInv == InstanceInv /\ EndsInv
AwakeInv == AwakeTypes /\ InboxInv /\ MainInv /\ WakeInv

LEMMA ThreadsCall ==
  MainThread \in Callers /\ MainThread \notin Threads /\ Threads \subseteq Callers
BY DEF MainThread, Threads, Callers

LEMMA StartedInstance == InstanceInv /\ started => current \in Instances
BY UploaderAssumption DEF InstanceInv, NoInstance, Instances

LEMMA Popped ==
  ASSUME NEW S, NEW s \in Seq(S), s # <<>>
  PROVE  /\ Tail(s) \in Seq(S) /\ Head(s) = s[1] /\ Len(s) \in Nat
         /\ DOMAIN s = 1 .. Len(s) /\ DOMAIN Tail(s) = 1 .. Len(s) - 1
         /\ \A i \in 1 .. Len(s) - 1 : Tail(s)[i] = s[i + 1]
OBVIOUS

LEMMA Pushed ==
  ASSUME NEW S, NEW s \in Seq(S), NEW m \in S
  PROVE  /\ Append(s, m) \in Seq(S) /\ Len(s) \in Nat
         /\ DOMAIN s = 1 .. Len(s) /\ DOMAIN Append(s, m) = 1 .. Len(s) + 1
         /\ \A i \in 1 .. Len(s) : Append(s, m)[i] = s[i]
         /\ Append(s, m)[Len(s) + 1] = m
OBVIOUS

(* A message at the end of the inbox; one less at its head.                *)
LEMMA PushPlaces ==
  ASSUME NEW S, NEW s \in Seq(S), NEW m \in S, NEW r, r = Append(s, m)
  PROVE  /\ \A i \in DOMAIN r : i \in Nat /\
              ((i \in DOMAIN s /\ r[i] = s[i] /\ i < Len(s) + 1) \/ (i = Len(s) + 1 /\ r[i] = m))
         /\ \A i \in DOMAIN s : i \in DOMAIN r /\ r[i] = s[i]
         /\ Len(s) + 1 \in DOMAIN r /\ r[Len(s) + 1] = m
OBVIOUS

LEMMA PopPlaces ==
  ASSUME NEW S, NEW s \in Seq(S), s # <<>>, NEW r, r = Tail(s)
  PROVE  /\ \A i \in DOMAIN r : i \in Nat /\ i + 1 # 1 /\ i + 1 \in DOMAIN s /\ r[i] = s[i + 1]
         /\ \A i \in DOMAIN s : i = 1 \/ (i - 1 \in DOMAIN r /\ r[i - 1] = s[i])
         /\ 1 \in DOMAIN s /\ DOMAIN s \subseteq Nat
OBVIOUS

LEMMA NumberedPush ==
  ASSUME NEW S, NEW s \in Seq(S), NEW m \in S, NEW from \in Nat, NEW to \in 0 .. MaxStarts,
         Numbered(s, from, to),
         NEW to1 \in 0 .. MaxStarts,
         \/ m[1] # "start" /\ to1 = to
         \/ to1 = to + 1 /\ from <= to1
  PROVE  Numbered(Append(s, m), from, to1)
<1>1. PICK number \in [DOMAIN s -> 0 .. MaxStarts] :
        /\ \A i \in DOMAIN s : s[i][1] = "start" => number[i] \in from .. to
        /\ \A i, j \in DOMAIN s :
             s[i][1] = "start" /\ s[j][1] = "start" /\ i < j => number[i] < number[j]
  BY DEF Numbered
<1> DEFINE a == Append(s, m)
           n == [i \in DOMAIN a |-> IF i \in DOMAIN s THEN number[i] ELSE to1]
<1>2. /\ DOMAIN s = 1 .. Len(s) /\ DOMAIN a = 1 .. Len(s) + 1 /\ Len(s) \in Nat
      /\ (\A i \in DOMAIN s : a[i] = s[i]) /\ a[Len(s) + 1] = m
  BY Pushed
<1> HIDE DEF a
<1>3. n \in [DOMAIN a -> 0 .. MaxStarts]
  BY <1>1
<1>4. \A i \in DOMAIN s : n[i] = number[i] /\ i \in DOMAIN a
  BY <1>2
<1>5. \A i \in DOMAIN a : i \in DOMAIN s \/ (i = Len(s) + 1 /\ n[i] = to1 /\ a[i] = m)
  <2>1. \A i \in DOMAIN a : i \in DOMAIN s \/ i = Len(s) + 1
    BY <1>2
  <2>2. Len(s) + 1 \notin DOMAIN s /\ Len(s) + 1 \in DOMAIN a
    BY <1>2
  <2>3. n[Len(s) + 1] = to1 /\ a[Len(s) + 1] = m
    BY <1>2, <2>2
  <2> HIDE DEF n
  <2>. QED  BY <2>1, <2>3
<1> HIDE DEF n
<1>6. ASSUME NEW i \in DOMAIN a, a[i][1] = "start" PROVE n[i] \in from .. to1
  BY <1>1, <1>2, <1>4, <1>5, <1>6
<1>7. ASSUME NEW i \in DOMAIN a, NEW j \in DOMAIN a, a[i][1] = "start", a[j][1] = "start", i < j
      PROVE  n[i] < n[j]
  <2>1. i \in DOMAIN s /\ n[i] = number[i] /\ number[i] \in from .. to /\ s[i][1] = "start"
    BY <1>1, <1>2, <1>4, <1>7
  <2>2. CASE j \in DOMAIN s
    BY <1>1, <1>2, <1>4, <1>7, <2>1, <2>2
  <2>3. CASE j \notin DOMAIN s
    BY <1>5, <1>7, <2>1, <2>3
  <2>. QED  BY <2>2, <2>3
<1>8. Numbered(a, from, to1)
  BY <1>3, <1>6, <1>7 DEF Numbered
<1>. QED  BY <1>8 DEF a

LEMMA NumberedPop ==
  ASSUME NEW S, NEW s \in Seq(S), s # <<>>, NEW from \in Nat, NEW to \in Nat,
         Numbered(s, from, to)
  PROVE  /\ Numbered(Tail(s), from, to)
         /\ s[1][1] = "start" => Numbered(Tail(s), from + 1, to) /\ from <= to
<1>1. PICK number \in [DOMAIN s -> 0 .. MaxStarts] :
        /\ \A i \in DOMAIN s : s[i][1] = "start" => number[i] \in from .. to
        /\ \A i, j \in DOMAIN s :
             s[i][1] = "start" /\ s[j][1] = "start" /\ i < j => number[i] < number[j]
  BY DEF Numbered
<1> DEFINE a == Tail(s)
           n == [i \in DOMAIN a |-> number[i + 1]]
<1>2. /\ DOMAIN s = 1 .. Len(s) /\ DOMAIN a = 1 .. Len(s) - 1 /\ Len(s) \in Nat
      /\ \A i \in DOMAIN a : a[i] = s[i + 1] /\ i + 1 \in DOMAIN s
      /\ 1 \in DOMAIN s /\ \A i \in DOMAIN a : 1 < i + 1
  BY Popped
<1> HIDE DEF a
<1>3. n \in [DOMAIN a -> 0 .. MaxStarts] /\ \A i \in DOMAIN a : n[i] = number[i + 1]
  BY <1>1, <1>2
<1> HIDE DEF n
<1>4. \A i, j \in DOMAIN a : i < j => i + 1 < j + 1
  BY <1>2
<1>5. \A i, j \in DOMAIN a : a[i][1] = "start" /\ a[j][1] = "start" /\ i < j => n[i] < n[j]
  BY <1>1, <1>2, <1>3, <1>4
<1>6. \A i \in DOMAIN a : a[i][1] = "start" => n[i] \in from .. to
  BY <1>1, <1>2, <1>3
<1>7. s[1][1] = "start" =>
        from <= to /\ \A i \in DOMAIN a : a[i][1] = "start" => n[i] \in from + 1 .. to
  <2>1. s[1][1] = "start" => number[1] \in from .. to
    BY <1>1, <1>2
  <2>2. s[1][1] = "start" => \A i \in DOMAIN a : a[i][1] = "start" => number[1] < n[i]
    BY <1>1, <1>2, <1>3
  <2>. QED  BY <1>6, <2>1, <2>2
<1>8. Numbered(a, from, to) /\ (s[1][1] = "start" => Numbered(a, from + 1, to))
  BY <1>3, <1>5, <1>6, <1>7 DEF Numbered
<1>. QED  BY <1>7, <1>8 DEF a

LEMMA Joined ==
  ASSUME NEW S, NEW s \in Seq(S), NEW R, NEW r \in Seq(R), NEW a, a = s \o r
  PROVE  /\ a \in Seq(S \cup R) /\ Len(s) \in Nat /\ DOMAIN s = 1 .. Len(s)
         /\ DOMAIN a \subseteq Nat
         /\ \A i \in DOMAIN s : i \in DOMAIN a /\ a[i] = s[i]
         /\ \A i \in DOMAIN a : \/ i \in DOMAIN s
                                \/ i > Len(s) /\ i - Len(s) \in DOMAIN r /\ a[i] = r[i - Len(s)]
<1>1. s \in Seq(S \cup R) /\ r \in Seq(S \cup R)
  OBVIOUS
<1>2. /\ a \in Seq(S \cup R) /\ Len(s) \in Nat /\ Len(r) \in Nat
      /\ DOMAIN s = 1 .. Len(s) /\ DOMAIN r = 1 .. Len(r) /\ DOMAIN a = 1 .. Len(s) + Len(r)
      /\ \A i \in 1 .. Len(s) + Len(r) : a[i] = IF i <= Len(s) THEN s[i] ELSE r[i - Len(s)]
  BY <1>1
<1>3. ASSUME NEW i \in 1 .. Len(s)
      PROVE  i \in 1 .. Len(s) + Len(r) /\ a[i] = s[i]
  BY <1>2
<1>4. ASSUME NEW i \in 1 .. Len(s) + Len(r), i \notin 1 .. Len(s)
      PROVE  i > Len(s) /\ i - Len(s) \in 1 .. Len(r) /\ a[i] = r[i - Len(s)]
  BY <1>2, <1>4
<1>. QED  BY <1>2, <1>3, <1>4

LEMMA NumberedJoin ==
  ASSUME NEW S, NEW s \in Seq(S), NEW R, NEW r \in Seq(R),
         NEW from \in Nat, NEW to \in Nat, Numbered(s, from, to),
         \A i \in DOMAIN r : r[i][1] # "start"
  PROVE  Numbered(s \o r, from, to)
<1>1. PICK number \in [DOMAIN s -> 0 .. MaxStarts] :
        /\ \A i \in DOMAIN s : s[i][1] = "start" => number[i] \in from .. to
        /\ \A i, j \in DOMAIN s :
             s[i][1] = "start" /\ s[j][1] = "start" /\ i < j => number[i] < number[j]
  BY DEF Numbered
<1>2. PICK a : a = s \o r
  OBVIOUS
<1>3. /\ \A i \in DOMAIN s : i \in DOMAIN a /\ a[i] = s[i]
      /\ \A i \in DOMAIN a : a[i][1] = "start" => i \in DOMAIN s
  <2>1. /\ \A i \in DOMAIN s : i \in DOMAIN a /\ a[i] = s[i]
        /\ \A i \in DOMAIN a : \/ i \in DOMAIN s
                               \/ i - Len(s) \in DOMAIN r /\ a[i] = r[i - Len(s)]
    BY <1>2, Joined
  <2>. QED  BY <2>1
<1> DEFINE n == [i \in DOMAIN a |-> IF i \in DOMAIN s THEN number[i] ELSE 0]
<1>4. n \in [DOMAIN a -> 0 .. MaxStarts] /\ \A i \in DOMAIN s : n[i] = number[i]
  BY <1>1, <1>3, UploaderAssumption
<1> HIDE DEF n
<1>5. \A i \in DOMAIN a : a[i][1] = "start" => n[i] \in from .. to
  BY <1>1, <1>3, <1>4
<1>6. \A i, j \in DOMAIN a : a[i][1] = "start" /\ a[j][1] = "start" /\ i < j => n[i] < n[j]
  BY <1>1, <1>3, <1>4
<1>7. Numbered(a, from, to)
  BY <1>4, <1>5, <1>6 DEF Numbered
<1>. QED  BY <1>2, <1>7

LEMMA InstanceTypes ==
  InstanceInv => /\ MaxStarts \in Nat /\ starts \in 0 .. MaxStarts /\ instances \in 0 .. starts
                 /\ starts \in Nat /\ instances \in Nat /\ instances + 1 \in Nat
BY UploaderAssumption DEF InstanceInv

(* Messages other than start requests are sent.                            *)
LEMMA SentKept ==
  ASSUME InboxInv, NEW T, inbox \in Seq(T), NEW R, NEW r \in Seq(R),
         \A i \in DOMAIN r : r[i][1] # "start",
         inbox' = inbox \o r, Starting' => Starting,
         UNCHANGED <<up, started, current, instances, starts>>
  PROVE  InboxInv' /\ (\E U : inbox' \in Seq(U))
         /\ ((\E i \in DOMAIN inbox : Ending(i)) => \E i \in DOMAIN inbox' : Ending(i)')
<1>1. /\ inbox' \in Seq(T \cup R)
      /\ \A i \in DOMAIN inbox : i \in DOMAIN inbox' /\ inbox'[i] = inbox[i]
      /\ \A i \in DOMAIN inbox' : \/ i \in DOMAIN inbox
                                  \/ \E j \in DOMAIN r : inbox'[i] = r[j]
  <2>1. PICK s, a : s = inbox /\ a = inbox'
    OBVIOUS
  <2>2. s \in Seq(T) /\ a = s \o r
    BY <2>1
  <2>3. a \in Seq(T \cup R) /\ \A i \in DOMAIN s : i \in DOMAIN a /\ a[i] = s[i]
    BY <2>2, Joined
  <2>4. \A i \in DOMAIN a : \/ i \in DOMAIN s
                            \/ i > Len(s) /\ i - Len(s) \in DOMAIN r /\ a[i] = r[i - Len(s)]
    BY <2>2, Joined
  <2>5. \A i \in DOMAIN a : i \in DOMAIN s \/ \E j \in DOMAIN r : a[i] = r[j]
    BY <2>4
  <2>. QED  BY <2>1, <2>3, <2>5
<1>2. Numbered(inbox', instances + 1, starts)
  BY InstanceTypes, NumberedJoin DEF InboxInv, InstanceInv
<1>3. \A i \in DOMAIN inbox' : inbox'[i][1] = "start" => i \in DOMAIN inbox
  BY <1>1
<1>4. EndsInv'
  BY <1>1, <1>3 DEF InboxInv, EndsInv
<1>. QED  BY <1>1, <1>2, <1>4 DEF InboxInv, InstanceInv, Ending

(* startService, perhaps with other messages after it.                     *)
LEMMA StartSentKept ==
  ASSUME InboxInv, NEW T, inbox \in Seq(T), starts < MaxStarts, starts' = starts + 1, up' = TRUE,
         NEW R, NEW r \in Seq(R), \A i \in DOMAIN r : r[i][1] # "start",
         inbox' = Append(inbox, <<"start">>) \o r, UNCHANGED <<started, current, instances>>
  PROVE  InboxInv' /\ (\E U : inbox' \in Seq(U))
         /\ ((\E i \in DOMAIN inbox : Ending(i)) => \E i \in DOMAIN inbox' : Ending(i)')
<1>1. PICK U : inbox \in Seq(U) /\ <<"start">> \in U
  <2>1. inbox \in Seq(T \cup {<<"start">>})
    OBVIOUS
  <2>. QED  BY <2>1
<1>2. PICK s : s = Append(inbox, <<"start">>)
  OBVIOUS
<1>3. s \in Seq(U) /\ \A i \in DOMAIN inbox : i \in DOMAIN s /\ s[i] = inbox[i]
  BY <1>1, <1>2, Pushed
<1>4. Numbered(s, instances + 1, starts + 1)
  BY <1>1, <1>2, InstanceTypes, NumberedPush DEF InboxInv, InstanceInv
<1>5. PICK a : a = s \o r
  OBVIOUS
<1>6. a \in Seq(U \cup R) /\ \A i \in DOMAIN s : i \in DOMAIN a /\ a[i] = s[i]
  BY <1>3, <1>5, Joined
<1>7. InstanceInv'
  <2>1. instances + 1 \in Nat /\ starts + 1 \in Nat
    BY InstanceTypes DEF InboxInv
  <2>2. Numbered(a, instances + 1, starts + 1)
    BY <1>3, <1>4, <1>5, <2>1, NumberedJoin
  <2>3. Numbered(inbox', instances' + 1, starts')
    BY <1>2, <1>5, <2>2
  <2>. QED  BY <2>3, InstanceTypes DEF InboxInv, InstanceInv
<1>8. EndsInv'
  BY DEF EndsInv
<1>. QED  BY <1>2, <1>3, <1>5, <1>6, <1>7, <1>8 DEF InboxInv, Ending

(* A message has been handled that neither starts nor ends anything.       *)
LEMMA HandledKept ==
  ASSUME InboxInv, NEW T, inbox \in Seq(T), inbox # <<>>, ~Ending(1) \/ ~started,
         inbox[1][1] # "destroy", inbox' = Tail(inbox), Starting' => Starting,
         UNCHANGED <<up, started, current, instances, starts>>
  PROVE  InboxInv' /\ (\E U : inbox' \in Seq(U))
         /\ (started /\ (\E i \in DOMAIN inbox : Ending(i))
               => \E i \in DOMAIN inbox' : Ending(i)')
<1>1. /\ \A i \in DOMAIN inbox' : i \in Nat /\ i + 1 \in DOMAIN inbox /\ inbox'[i] = inbox[i + 1]
      /\ \A i \in DOMAIN inbox : i = 1 \/ (i - 1 \in DOMAIN inbox' /\ inbox'[i - 1] = inbox[i])
      /\ DOMAIN inbox \subseteq Nat
  BY PopPlaces
<1>2. inbox' \in Seq(T)
  BY Popped
<1>3. InstanceInv'
  <2>1. Numbered(inbox', instances + 1, starts)
    BY InstanceTypes, NumberedPop DEF InboxInv, InstanceInv
  <2>. QED  BY <2>1 DEF InboxInv, InstanceInv
<1>4. ASSUME ~up, NEW i \in DOMAIN inbox', inbox'[i][1] = "start"
      PROVE  \E j \in DOMAIN inbox' : i < j /\ inbox'[j][1] = "destroy"
  <2>1. i + 1 \in DOMAIN inbox /\ inbox[i + 1][1] = "start" /\ i \in Nat
    BY <1>1, <1>4
  <2>2. PICK j \in DOMAIN inbox : i + 1 < j /\ inbox[j][1] = "destroy"
    BY <1>4, <2>1 DEF InboxInv, EndsInv
  <2>3. j \in Nat /\ j # 1 /\ i < j - 1
    BY <1>1, <2>1, <2>2
  <2>. QED  BY <1>1, <2>2, <2>3
<1>5. ~up /\ (started \/ Starting) => \E i \in DOMAIN inbox' : inbox'[i][1] = "destroy"
  BY <1>1 DEF InboxInv, EndsInv
<1>6. EndsInv'
  BY <1>4, <1>5 DEF EndsInv
<1>. QED  BY <1>1, <1>2, <1>3, <1>6 DEF InboxInv, Ending

(* onStart, which makes an instance if there is none.                      *)
LEMMA StartHandledKept ==
  ASSUME InboxInv, NEW T, inbox \in Seq(T), inbox # <<>>, inbox[1][1] = "start",
         inbox' = Tail(inbox), UNCHANGED <<up, starts>>, started' = started,
         current = NoInstance => current' = instances + 1 /\ instances' = instances + 1,
         current # NoInstance => UNCHANGED <<current, instances>>
  PROVE  InboxInv' /\ (\E U : inbox' \in Seq(U))
         /\ ((\E i \in DOMAIN inbox : Ending(i)) => \E i \in DOMAIN inbox' : Ending(i)')
<1>1. /\ \A i \in DOMAIN inbox' : i \in Nat /\ i + 1 \in DOMAIN inbox /\ inbox'[i] = inbox[i + 1]
      /\ \A i \in DOMAIN inbox : i = 1 \/ (i - 1 \in DOMAIN inbox' /\ inbox'[i - 1] = inbox[i])
      /\ DOMAIN inbox \subseteq Nat /\ 1 \in DOMAIN inbox
  BY PopPlaces
<1>2. inbox' \in Seq(T)
  BY Popped
<1>3. InstanceInv'
  <2>1. /\ Numbered(inbox', instances + 1, starts)
        /\ Numbered(inbox', instances + 1 + 1, starts) /\ instances + 1 <= starts
    BY InstanceTypes, NumberedPop DEF InboxInv, InstanceInv
  <2>2. /\ current' \in 0 .. instances' /\ instances' \in 0 .. starts /\ current' # NoInstance
        /\ Numbered(inbox', instances' + 1, starts)
    BY <2>1, InstanceTypes DEF InboxInv, InstanceInv, NoInstance
  <2>. QED  BY <2>2, InstanceTypes DEF InboxInv, InstanceInv
<1>4. ASSUME ~up, NEW i \in DOMAIN inbox', inbox'[i][1] = "start"
      PROVE  \E j \in DOMAIN inbox' : i < j /\ inbox'[j][1] = "destroy"
  <2>1. i + 1 \in DOMAIN inbox /\ inbox[i + 1][1] = "start" /\ i \in Nat
    BY <1>1, <1>4
  <2>2. PICK j \in DOMAIN inbox : i + 1 < j /\ inbox[j][1] = "destroy"
    BY <1>4, <2>1 DEF InboxInv, EndsInv
  <2>3. j \in Nat /\ j # 1 /\ i < j - 1
    BY <1>1, <2>1, <2>2
  <2>. QED  BY <1>1, <2>2, <2>3
<1>5. ~up => \E i \in DOMAIN inbox' : inbox'[i][1] = "destroy"
  BY <1>1 DEF InboxInv, EndsInv
<1>6. EndsInv'
  BY <1>4, <1>5 DEF EndsInv
<1>. QED  BY <1>1, <1>2, <1>3, <1>6 DEF InboxInv, Ending

LEMMA DestroyHandledKept ==
  ASSUME InboxInv, NEW T, inbox \in Seq(T), inbox # <<>>, inbox[1][1] = "destroy",
         inbox' = Tail(inbox), UNCHANGED <<up, instances, starts>>,
         started' = FALSE, current' = NoInstance, ~Starting'
  PROVE  InboxInv' /\ (\E U : inbox' \in Seq(U))
<1>1. /\ \A i \in DOMAIN inbox' : i \in Nat /\ i + 1 \in DOMAIN inbox /\ inbox'[i] = inbox[i + 1]
      /\ \A i \in DOMAIN inbox : i = 1 \/ (i - 1 \in DOMAIN inbox' /\ inbox'[i - 1] = inbox[i])
      /\ DOMAIN inbox \subseteq Nat
  BY PopPlaces
<1>2. inbox' \in Seq(T)
  BY Popped
<1>3. InstanceInv'
  <2>1. Numbered(inbox', instances + 1, starts)
    BY InstanceTypes, NumberedPop DEF InboxInv, InstanceInv
  <2>. QED  BY <2>1, InstanceTypes DEF InboxInv, InstanceInv, NoInstance
<1>4. ASSUME ~up, NEW i \in DOMAIN inbox', inbox'[i][1] = "start"
      PROVE  \E j \in DOMAIN inbox' : i < j /\ inbox'[j][1] = "destroy"
  <2>1. i + 1 \in DOMAIN inbox /\ inbox[i + 1][1] = "start" /\ i \in Nat
    BY <1>1, <1>4
  <2>2. PICK j \in DOMAIN inbox : i + 1 < j /\ inbox[j][1] = "destroy"
    BY <1>4, <2>1 DEF InboxInv, EndsInv
  <2>3. j \in Nat /\ j # 1 /\ i < j - 1
    BY <1>1, <2>1, <2>2
  <2>. QED  BY <1>1, <2>2, <2>3
<1>5. EndsInv'
  BY <1>4 DEF EndsInv
<1>. QED  BY <1>2, <1>3, <1>5 DEF InboxInv

(* stopService leads to onDestroy, now or after an earlier call of it.     *)
LEMMA StoppedKept ==
  ASSUME InboxInv, NEW T, NEW r \in Seq(T), Numbered(r, instances + 1, starts), stopService(r),
         ~up => /\ \E i \in DOMAIN r : r[i][1] = "destroy"
                /\ \A i \in DOMAIN r : r[i][1] = "start" =>
                     \E j \in DOMAIN r : i < j /\ r[j][1] = "destroy",
         UNCHANGED <<started, current, instances, starts>>
  PROVE  InboxInv' /\ (\E U : inbox' \in Seq(U)) /\ \E i \in DOMAIN inbox' : Ending(i)'
<1>1. PICK U : r \in Seq(U) /\ <<"destroy">> \in U
  <2>1. r \in Seq(T \cup {<<"destroy">>})
    OBVIOUS
  <2>. QED  BY <2>1
<1>5. CASE up
  <2>1. up' = FALSE /\ inbox' = Append(r, <<"destroy">>)
    BY <1>1, <1>5 DEF stopService
  <2>2. /\ inbox' \in Seq(U)
        /\ \A i \in DOMAIN inbox' : (i \in DOMAIN r /\ inbox'[i] = r[i] /\ i < Len(r) + 1)
                                    \/ (i = Len(r) + 1 /\ inbox'[i] = <<"destroy">>)
        /\ Len(r) + 1 \in DOMAIN inbox' /\ inbox'[Len(r) + 1] = <<"destroy">>
    BY <1>1, <2>1, PushPlaces, Pushed
  <2>3. Numbered(inbox', instances + 1, starts)
    <3>1. <<"destroy">>[1] # "start"
      OBVIOUS
    <3>2. instances + 1 \in Nat /\ starts \in 0 .. MaxStarts
      BY InstanceTypes DEF InboxInv
    <3>. QED  BY <1>1, <2>1, <3>1, <3>2, NumberedPush
  <2>4. EndsInv'
    <3>1. \A i \in DOMAIN inbox' : inbox'[i][1] = "start" => i < Len(r) + 1
      BY <2>2
    <3>2. inbox'[Len(r) + 1][1] = "destroy"
      BY <2>2
    <3>. QED  BY <2>2, <3>1, <3>2 DEF EndsInv
  <2>5. \E i \in DOMAIN inbox' : Ending(i)'
    BY <2>2 DEF Ending
  <2>. QED  BY <2>2, <2>3, <2>4, <2>5 DEF InboxInv, InstanceInv
<1>6. CASE ~up
  <2>1. up' = FALSE /\ inbox' = r
    <3>1. r \o <<>> = r
      BY <1>1
    <3>. QED  BY <1>6, <3>1 DEF stopService
  <2>4. EndsInv'
    BY <1>6, <2>1 DEF EndsInv
  <2>. QED  BY <1>1, <1>6, <2>1, <2>4 DEF InboxInv, InstanceInv, Ending
<1>. QED  BY <1>5, <1>6

LEMMA DieAwake ==
  ASSUME AwakeInv, Die
  PROVE  AwakeInv'
<1>1. inbox' = <<>> /\ started' = FALSE /\ current' = NoInstance
      /\ UNCHANGED <<instances, starts>>
  BY DEF Die, environment
<1>2. InstanceInv'
  <2>1. Numbered(<<>>, instances + 1, starts)
    <3>1. [i \in {} |-> 0] \in [DOMAIN <<>> -> 0 .. MaxStarts] /\ DOMAIN <<>> = {}
      OBVIOUS
    <3>. QED  BY <3>1 DEF Numbered
  <2>. QED  BY <1>1, <2>1, InstanceTypes DEF AwakeInv, InboxInv, InstanceInv, NoInstance
<1>3. EndsInv' /\ WakeInv'
  <2>1. DOMAIN <<>> = {}
    OBVIOUS
  <2>2. ~Starting'
    BY ThreadsCall DEF Die, Starting, Listing
  <2>. QED  BY <1>1, <2>1, <2>2 DEF EndsInv, WakeInv
<1>4. AwakeTypes' /\ MainInv'
  <2>1. \E T : inbox' \in Seq(T)
    <3>1. <<>> \in Seq({})
      OBVIOUS
    <3>. QED  BY <1>1, <3>1
  <2>. QED  BY <2>1, ThreadsCall DEF Die, AwakeTypes, Cancelled, MainInv, Running
<1>. QED  BY <1>2, <1>3, <1>4 DEF AwakeInv, InboxInv

(* A new thread belongs to the instance that starts it, and takes no place *)
(* of another one.                                                         *)
LEMMA ThreadStarts ==
  ASSUME AwakeTypes, NEW s, NEW m, uploadFiles(s, m)
  PROVE  /\ DOMAIN pc' = Callers /\ DOMAIN owner' = Threads /\ pc'[MainThread] = m
         /\ Busy(s)' /\ \A x : Busy(x) => Busy(x)'
<1> DEFINE t == CHOOSE u \in Threads : ~Running(u)
<1>1. /\ t \in Threads /\ pc[t] = "none"
      /\ pc' = [pc EXCEPT ![t] = "update", ![MainThread] = m] /\ owner' = [owner EXCEPT ![t] = s]
  BY DEF uploadFiles, Running
<1> HIDE DEF t
<1>2. /\ DOMAIN pc' = Callers /\ DOMAIN owner' = Threads
      /\ pc'[t] = "update" /\ owner'[t] = s /\ pc'[MainThread] = m
      /\ \A u \in Threads : u # t => pc'[u] = pc[u] /\ owner'[u] = owner[u]
  BY <1>1, ThreadsCall DEF AwakeTypes
<1>3. \A x : Busy(x) => Busy(x)'
  BY <1>1, <1>2 DEF Busy
<1>4. Busy(s)'
  BY <1>1, <1>2 DEF Busy
<1>. QED  BY <1>2, <1>3, <1>4

(* networkChanged and the timer's task start a thread in place of what     *)
(* they take away.                                                         *)
LEMMA ChangedAwake ==
  ASSUME AwakeTypes, NEW s, networkChanged(s)
  PROVE  /\ DOMAIN pc' = Callers /\ DOMAIN owner' = Threads /\ DOMAIN listening' = Instances
         /\ pc'[MainThread] = "none"
         /\ Busy(s)' /\ \A x : Busy(x) => Busy(x)'
         /\ \A x \in Instances : x # s => listening'[x] = listening[x]
<1>1. uploadFiles(s, "none")
  BY DEF networkChanged
<1>2. /\ DOMAIN pc' = Callers /\ DOMAIN owner' = Threads /\ pc'[MainThread] = "none"
      /\ Busy(s)' /\ \A x : Busy(x) => Busy(x)'
  BY <1>1, ThreadStarts
<1>3. /\ DOMAIN listening' = Instances
      /\ \A x \in Instances : x # s => listening'[x] = listening[x]
  BY DEF networkChanged, unregisterConnectReceiver, AwakeTypes
<1>. QED  BY <1>2, <1>3

(* The types, and that what wakes the service is not lost by a step that   *)
(* leaves its instance what it was.                                        *)
KeptAwake ==
  /\ DOMAIN pc' = Callers /\ DOMAIN owner' = Threads
  /\ DOMAIN listening' = Instances /\ DOMAIN timer' = Instances
  /\ \A s \in Instances : timer'[s] \in {Cancelled} \cup Nat
  /\ UNCHANGED <<started, current>>
  /\ pc'[MainThread] # "none" => current # NoInstance
  /\ pc'[MainThread] \in {"ifWaiting", "newTimer"} => started
  /\ pc[MainThread] = "newTimer" => pc'[MainThread] = "newTimer"
  /\ Busy(current) => Busy(current)'
  /\ started /\ timer[current] > 0 =>
       timer'[current] > 0 \/ Busy(current)' \/ pc'[MainThread] = "newTimer"
  /\ started /\ listening[current] => listening'[current] \/ Busy(current)'

LEMMA StillAwake ==
  ASSUME AwakeInv, KeptAwake, InboxInv', up' \in BOOLEAN, \E U : inbox' \in Seq(U),
         started /\ (\E i \in DOMAIN inbox : Ending(i)) => \E i \in DOMAIN inbox' : Ending(i)'
  PROVE  AwakeInv'
<1>1. AwakeTypes' /\ MainInv'
  BY DEF KeptAwake, AwakeTypes, MainInv, Running
<1>2. UNCHANGED <<started, current>> /\ (Busy(current) => Busy(current)')
  BY DEF KeptAwake
<1>3. ASSUME started
      PROVE  \/ Busy(current)' \/ timer'[current] > 0 \/ listening'[current]
             \/ (\E i \in DOMAIN inbox' : Ending(i)') \/ pc'[MainThread] = "newTimer"
  BY <1>3, <1>2 DEF AwakeInv, WakeInv, KeptAwake
<1>4. WakeInv'
  BY <1>2, <1>3 DEF WakeInv
<1>. QED  BY <1>1, <1>4 DEF AwakeInv

LEMMA SameAwake ==
  ASSUME AwakeInv, UNCHANGED <<fields, threads, started, current>>
  PROVE  KeptAwake
BY DEF KeptAwake, AwakeInv, AwakeTypes, MainInv, Running, fields, threads, Busy

LEMMA SetToSeqType ==
  ASSUME NEW S, IsFiniteSet(S)
  PROVE  SetToSeq(S) \in Seq(S)
<1> DEFINE n == Cardinality(S)
<1>1. n \in Nat
  BY FS_CardinalityType
<1>2. PICK f : f \in Bijection(1 .. n, S)
  BY FS_NatBijection, FS_CardinalityType DEF ExistsBijection
<1>3. f \in [1 .. n -> S] /\ IsInjective(f)
  BY <1>2 DEF Bijection, Injection, IsInjective
<1>4. SetToSeq(S) \in [1 .. n -> S]
  BY <1>3 DEF SetToSeq
<1>. QED  BY <1>1, <1>4

LEMMA NetMessagesType ==
  ASSUME NEW n
  PROVE  /\ NetMessages(Instances, n) \in Seq({<<"net", s, n # "none">> : s \in Instances})
         /\ \A i \in DOMAIN NetMessages(Instances, n) :
              NetMessages(Instances, n)[i][1] # "start"
<1> DEFINE M == {<<"net", s, n # "none">> : s \in {r \in Instances : listening[r]}}
           A == {<<"net", s, n # "none">> : s \in Instances}
<1>1. IsFiniteSet(A)
  <2>1. IsFiniteSet(Instances)
    BY FS_Interval, UploaderAssumption DEF Instances
  <2> DEFINE f == [s \in Instances |-> <<"net", s, n # "none">>]
  <2>2. f \in Surjection(Instances, A)
    BY DEF Surjection
  <2>. QED  BY <2>1, <2>2, FS_Surjection
<1>2. M \subseteq A
  OBVIOUS
<1>3. NetMessages(Instances, n) \in Seq(M)
  BY <1>1, <1>2, FS_Subset, SetToSeqType DEF NetMessages
<1>4. \A m \in A : m[1] = "net"
  OBVIOUS
<1>5. PICK q : q = NetMessages(Instances, n)
  OBVIOUS
<1> HIDE DEF M, A
<1>6. q \in Seq(A) /\ \A i \in DOMAIN q : q[i] \in A
  BY <1>2, <1>3, <1>5
<1>7. \A i \in DOMAIN q : q[i][1] # "start"
  BY <1>4, <1>6
<1>. QED  BY <1>5, <1>6, <1>7 DEF A

LEMMA ChangedKept ==
  ASSUME AwakeInv, NEW s, networkChanged(s) \/ UNCHANGED <<listening, pc, owner>>, MainIdle,
         UNCHANGED <<started, current, timer>>
  PROVE  KeptAwake
<1>1. CASE networkChanged(s)
  <2>1. /\ DOMAIN pc' = Callers /\ DOMAIN owner' = Threads /\ DOMAIN listening' = Instances
        /\ Busy(s)' /\ (\A x : Busy(x) => Busy(x)') /\ pc'[MainThread] = "none"
        /\ \A x \in Instances : x # s => listening'[x] = listening[x]
    BY <1>1, ChangedAwake DEF AwakeInv
  <2>2. started => current \in Instances
    BY StartedInstance DEF AwakeInv, InboxInv
  <2>3. PICK c : c = current /\ c = current'
    OBVIOUS
  <2>4. Busy(current)' <=> Busy(c)'
    BY <2>3 DEF Busy
  <2>5. Busy(current) => Busy(current)'
    BY <2>1, <2>3, <2>4
  <2>6. started /\ listening[current] => listening'[current] \/ Busy(current)'
    BY <2>1, <2>2, <2>3, <2>4
  <2>. QED  BY <2>1, <2>5, <2>6 DEF KeptAwake, AwakeInv, AwakeTypes, MainIdle, Running
<1>2. CASE UNCHANGED <<listening, pc, owner>>
  BY <1>2 DEF KeptAwake, AwakeInv, AwakeTypes, MainInv, Running, Busy
<1>. QED  BY <1>1, <1>2

LEMMA SameInbox ==
  ASSUME AwakeInv, Starting' => Starting,
         UNCHANGED <<inbox, up, started, current, instances, starts>>
  PROVE  /\ InboxInv' /\ up' \in BOOLEAN /\ (\E U : inbox' \in Seq(U))
         /\ ((\E i \in DOMAIN inbox : Ending(i)) => \E i \in DOMAIN inbox' : Ending(i)')
BY DEF AwakeInv, AwakeTypes, InboxInv, InstanceInv, EndsInv, Numbered, Ending

LEMMA WorldAwake ==
  ASSUME AwakeInv, World
  PROVE  AwakeInv'
<1>1. PICK T : inbox \in Seq(T)
  BY DEF AwakeInv, AwakeTypes
<1>2. ASSUME UNCHANGED <<fields, threads, started, current>>, InboxInv', up' \in BOOLEAN,
             \E U : inbox' \in Seq(U),
             (\E i \in DOMAIN inbox : Ending(i)) => \E i \in DOMAIN inbox' : Ending(i)'
      PROVE  AwakeInv'
  BY <1>2, SameAwake, StillAwake
<1>3. InboxInv /\ up \in BOOLEAN /\ (UNCHANGED threads => (Starting' => Starting))
  BY DEF AwakeInv, AwakeTypes, Starting, threads
<1>4. /\ <<>> \in Seq({}) /\ DOMAIN <<>> = {}
      /\ \A s : s \in Seq(T) => s \o <<>> = s
      /\ \A m : Append(inbox, m) = inbox \o <<m>> /\ <<m>> \in Seq({m})
  BY <1>1
<1>5. ASSUME NEW k, k # "start"
      PROVE  <<<<k>>>> \in Seq({<<k>>}) /\ \A i \in DOMAIN <<<<k>>>> : <<<<k>>>>[i][1] # "start"
  BY <1>5
<1>6. CASE StartService
  <2>1. Append(inbox, <<"start">>) \o <<>> = Append(inbox, <<"start">>)
    <3>1. inbox \in Seq(T \cup {<<"start">>})
      BY <1>1
    <3>2. Append(inbox, <<"start">>) \in Seq(T \cup {<<"start">>})
      BY <3>1
    <3>. QED  BY <3>2
  <2>2. /\ starts < MaxStarts /\ starts' = starts + 1 /\ up' = TRUE
        /\ inbox' = Append(inbox, <<"start">>) \o <<>>
        /\ UNCHANGED <<fields, threads, started, current, instances>>
    BY <1>6, <2>1 DEF StartService, statics
  <2>3. /\ InboxInv' /\ (\E U : inbox' \in Seq(U))
        /\ ((\E i \in DOMAIN inbox : Ending(i)) => \E i \in DOMAIN inbox' : Ending(i)')
    BY <1>1, <1>3, <1>4, <2>2, StartSentKept
  <2>. QED  BY <1>2, <2>2, <2>3
<1>7. ASSUME NEW n \in Networks, NetChange(n)
      PROVE  AwakeInv'
  <2>1. /\ inbox' = inbox \o NetMessages(Instances, n)
        /\ UNCHANGED <<fields, threads, up, started, current, instances, starts>>
    BY <1>7 DEF NetChange, Change, statics
  <2>2. /\ InboxInv' /\ (\E U : inbox' \in Seq(U))
        /\ ((\E i \in DOMAIN inbox : Ending(i)) => \E i \in DOMAIN inbox' : Ending(i)')
    BY <1>1, <1>3, <2>1, NetMessagesType, SentKept
  <2>. QED  BY <1>2, <1>3, <2>1, <2>2
<1>8. ASSUME NEW b \in Wifis, SetWifiOnly(b)
      PROVE  AwakeInv'
  <2>1. /\ inbox' = inbox \o <<<<"wifiOnlyChanged">>>>
        /\ UNCHANGED <<fields, threads, up, started, current, instances, starts>>
    BY <1>4, <1>8 DEF SetWifiOnly, Change, statics
  <2>2. /\ InboxInv' /\ (\E U : inbox' \in Seq(U))
        /\ ((\E i \in DOMAIN inbox : Ending(i)) => \E i \in DOMAIN inbox' : Ending(i)')
    BY <1>1, <1>3, <1>5, <2>1, SentKept
  <2>. QED  BY <1>2, <1>3, <2>1, <2>2
<1>9. ASSUME NEW b \in Autos, SetAutomatic(b)
      PROVE  AwakeInv'
  <2>1. UNCHANGED <<fields, threads, started, current, instances>> /\ b \in BOOLEAN
    BY <1>9, UploaderAssumption DEF SetAutomatic, statics
  <2>2. CASE b
    <3>1. /\ starts < MaxStarts /\ starts' = starts + 1 /\ up' = TRUE
          /\ inbox' = Append(inbox, <<"start">>) \o <<<<"autoChanged">>>>
      BY <1>4, <1>9, <2>2 DEF SetAutomatic
    <3>2. /\ InboxInv' /\ (\E U : inbox' \in Seq(U))
          /\ ((\E i \in DOMAIN inbox : Ending(i)) => \E i \in DOMAIN inbox' : Ending(i)')
      BY <1>1, <1>3, <1>5, <2>1, <3>1, StartSentKept
    <3>. QED  BY <1>2, <2>1, <3>1, <3>2
  <2>3. CASE ~b
    <3>1. up' = up
      BY <1>3, <1>9, <2>1, <2>3, Zenon DEF SetAutomatic
    <3>2. starts' = starts /\ inbox' = inbox \o <<<<"autoChanged">>>>
      BY <1>1, <1>4, <1>9, <2>3 DEF SetAutomatic
    <3>3. /\ InboxInv' /\ (\E U : inbox' \in Seq(U))
          /\ ((\E i \in DOMAIN inbox : Ending(i)) => \E i \in DOMAIN inbox' : Ending(i)')
      BY <1>1, <1>3, <1>5, <2>1, <3>1, <3>2, SentKept
    <3>. QED  BY <1>2, <1>3, <2>1, <3>1, <3>3
  <2>. QED  BY <2>1, <2>2, <2>3
<1>10. ASSUME NEW f \in Files, AddFile(f) \/ DeleteFile(f)
       PROVE  AwakeInv'
  <2>1. UNCHANGED <<fields, threads, inbox, up, started, current, instances, starts>>
    BY <1>10 DEF AddFile, DeleteFile, Change, statics, android
  <2>2. InboxInv' /\ (\E U : inbox' \in Seq(U))
        /\ ((\E i \in DOMAIN inbox : Ending(i)) => \E i \in DOMAIN inbox' : Ending(i)')
    BY <1>1, <1>3, <2>1 DEF InboxInv, InstanceInv, EndsInv, Numbered, Ending
  <2>. QED  BY <1>2, <1>3, <2>1, <2>2
<1>. QED  BY <1>6, <1>7, <1>8, <1>9, <1>10 DEF World

LEMMA HandledAwake ==
  ASSUME AwakeInv, KeptAwake, inbox # <<>>, inbox[1][1] # "destroy", ~Ending(1) \/ ~started,
         Done, Starting' => Starting, UNCHANGED <<instances, starts>>
  PROVE  AwakeInv'
<1>1. PICK T : inbox \in Seq(T)
  BY DEF AwakeInv, AwakeTypes
<1>2. UNCHANGED <<up, started, current, instances, starts>> /\ inbox' = Tail(inbox)
  BY DEF KeptAwake, Done
<1>3. /\ InboxInv' /\ (\E U : inbox' \in Seq(U))
      /\ (started /\ (\E i \in DOMAIN inbox : Ending(i)) => \E i \in DOMAIN inbox' : Ending(i)')
  BY <1>1, <1>2, HandledKept DEF AwakeInv
<1>4. up' \in BOOLEAN
  BY <1>2 DEF AwakeInv, AwakeTypes
<1>. QED  BY <1>3, <1>4, StillAwake

(* A caller that goes on to another place than the end or "registered".    *)
LEMMA GoesOn ==
  ASSUME AwakeInv, NEW c \in Callers, NEW to, pc' = [pc EXCEPT ![c] = to],
         to \notin {"none", "registered", "ifWaiting", "newTimer"},
         pc[c] \notin {"none", "newTimer"},
         UNCHANGED <<owner, timer, listening, started, current>>
  PROVE  KeptAwake /\ (c # MainThread \/ pc[c] \in Listing => (Starting' => Starting))
<1>1. DOMAIN pc' = Callers /\ \A d \in Callers : pc'[d] = IF d = c THEN to ELSE pc[d]
  BY DEF AwakeInv, AwakeTypes
<1>2. Busy(current) => Busy(current)'
  BY <1>1, ThreadsCall DEF Busy
<1>3. c # MainThread \/ pc[c] \in Listing => (Starting' => Starting)
  BY <1>1, ThreadsCall DEF Starting
<1>. QED  BY <1>1, <1>2, <1>3, ThreadsCall DEF KeptAwake, AwakeInv, AwakeTypes, MainInv, Running

(* The steps of updateFileList.                                            *)
LEMMA ListingStep ==
  ASSUME NEW c \in Callers, updateFileList(c)
  PROVE  /\ pc[c] \in Listing
         /\ UNCHANGED <<environment, disk, started, crossed, android, fields, owner, sent, ff>>
         /\ \E to \in {"test", "put", "add", IF c = MainThread THEN "decide" ELSE "check"} :
              pc' = [pc EXCEPT ![c] = to]
<1> USE DEF At, Listing, statics
<1>1. CASE ListFiles(c)
  BY <1>1 DEF ListFiles
<1>2. CASE TestFile(c)
  BY <1>2 DEF TestFile
<1>3. CASE PutFile(c)
  BY <1>3 DEF PutFile
<1>4. CASE AddToList(c)
  BY <1>4 DEF AddToList
<1>5. CASE FilesListed(c)
  BY <1>5 DEF FilesListed
<1>. QED  BY <1>1, <1>2, <1>3, <1>4, <1>5 DEF updateFileList

LEMMA ListingAwake ==
  ASSUME AwakeInv, NEW c \in Callers, updateFileList(c)
  PROVE  AwakeInv'
<1>1. PICK to : /\ to \notin {"none", "registered", "ifWaiting", "newTimer"}
                /\ pc' = [pc EXCEPT ![c] = to]
  BY ListingStep
<1>2. /\ UNCHANGED <<inbox, up, started, current, instances, starts, owner, timer, listening>>
      /\ pc[c] \in Listing /\ pc[c] \notin {"none", "newTimer"}
  BY ListingStep DEF environment, android, fields, Listing
<1>3. KeptAwake /\ (Starting' => Starting)
  BY <1>1, <1>2, GoesOn
<1>. QED  BY <1>2, <1>3, SameInbox, StillAwake

LEMMA OnStartAwake ==
  ASSUME AwakeInv, OnStart
  PROVE  AwakeInv'
<1>1. PICK T : inbox \in Seq(T)
  BY DEF AwakeInv, AwakeTypes
<1>2. inbox # <<>> /\ inbox[1][1] = "start" /\ inbox' = Tail(inbox) /\ UNCHANGED <<up, starts>>
  BY <1>1 DEF OnStart, Message, Done, environment
<1>3. /\ UNCHANGED <<started, owner, timer, listening>>
      /\ current = NoInstance => current' = instances + 1 /\ instances' = instances + 1
      /\ current # NoInstance => UNCHANGED <<current, instances>>
  BY DEF OnStart, statics, fields
<1>4. /\ InboxInv' /\ (\E U : inbox' \in Seq(U))
      /\ ((\E i \in DOMAIN inbox : Ending(i)) => \E i \in DOMAIN inbox' : Ending(i)')
  BY <1>1, <1>2, <1>3, StartHandledKept DEF AwakeInv
<1>5. /\ DOMAIN pc' = Callers /\ pc[MainThread] = "none"
      /\ \A t \in Threads : pc'[t] = pc[t]
  BY ThreadsCall DEF OnStart, At, AwakeInv, AwakeTypes
<1>6. AwakeTypes'
  BY <1>2, <1>3, <1>4, <1>5 DEF AwakeInv, AwakeTypes
<1>7. MainInv'
  <2>1. pc'[MainThread] = "update"
    BY ThreadsCall DEF OnStart, At, AwakeInv, AwakeTypes
  <2>. QED  BY <1>3, <2>1, InstanceTypes DEF AwakeInv, InboxInv, MainInv, NoInstance
<1>8. started => UNCHANGED current
  BY <1>3 DEF AwakeInv, InboxInv, InstanceInv
<1>9. WakeInv'
  <2>1. started /\ Busy(current) => Busy(current)'
    BY <1>3, <1>5, <1>8 DEF Busy
  <2>. QED  BY <1>3, <1>4, <1>5, <1>8, <2>1 DEF AwakeInv, WakeInv
<1>. QED  BY <1>4, <1>6, <1>7, <1>9 DEF AwakeInv

LEMMA DecideAwake ==
  ASSUME AwakeInv, Decide
  PROVE  AwakeInv'
<1>1. /\ UNCHANGED <<inbox, up, current, instances, starts, timer, listening>>
      /\ pc[MainThread] = "decide" /\ current # NoInstance /\ Starting
  BY DEF Decide, android, environment, AwakeInv, MainInv, Running, Starting
<1>2. PICK c : c = current /\ c = current'
  BY <1>1
<1>3. CASE ReturnsEarly
  <2>1. pc' = [pc EXCEPT ![MainThread] = "none"] /\ UNCHANGED <<started, owner>>
    BY <1>3 DEF Decide, At
  <2>2. DOMAIN pc' = Callers /\ pc'[MainThread] = "none" /\ \A t \in Threads : pc'[t] = pc[t]
    BY <2>1, ThreadsCall DEF AwakeInv, AwakeTypes
  <2>3. Busy(current) => Busy(current)'
    BY <1>1, <2>1, <2>2 DEF Busy
  <2>4. KeptAwake
    BY <1>1, <2>1, <2>2, <2>3 DEF KeptAwake, AwakeInv, AwakeTypes
  <2>. QED  BY <1>1, <2>1, <2>4, SameInbox, StillAwake
<1>4. CASE ~ReturnsEarly
  <2>1. uploadFiles(c, "none") /\ started' = TRUE
    BY <1>2, <1>4 DEF Decide
  <2>2. /\ DOMAIN pc' = Callers /\ DOMAIN owner' = Threads /\ pc'[MainThread] = "none" /\ Busy(c)'
    BY <2>1, ThreadStarts DEF AwakeInv
  <2>3. AwakeTypes' /\ MainInv'
    BY <1>1, <2>2 DEF AwakeInv, AwakeTypes, MainInv, Running
  <2>4. InboxInv'
    BY <1>1 DEF AwakeInv, InboxInv, InstanceInv, EndsInv, Numbered
  <2>5. WakeInv'
    BY <1>2, <2>2 DEF WakeInv, Busy
  <2>. QED  BY <2>3, <2>4, <2>5 DEF AwakeInv
<1>. QED  BY <1>3, <1>4

LEMMA StoppedAwake ==
  ASSUME AwakeInv, NEW T, NEW r \in Seq(T), Numbered(r, instances + 1, starts), stopService(r),
         ~up => /\ \E i \in DOMAIN r : r[i][1] = "destroy"
                /\ \A i \in DOMAIN r : r[i][1] = "start" =>
                     \E j \in DOMAIN r : i < j /\ r[j][1] = "destroy",
         UNCHANGED <<started, current, instances, starts, owner, listening>>,
         DOMAIN timer' = Instances, \A s \in Instances : timer'[s] \in {Cancelled} \cup Nat,
         DOMAIN pc' = Callers, pc'[MainThread] = "none"
  PROVE  AwakeInv'
<1>2. InboxInv' /\ (\E U : inbox' \in Seq(U)) /\ \E i \in DOMAIN inbox' : Ending(i)'
  BY StoppedKept DEF AwakeInv
<1>3. AwakeTypes' /\ MainInv'
  BY <1>2 DEF AwakeInv, AwakeTypes, stopService, MainInv, Running
<1>. QED  BY <1>2, <1>3 DEF AwakeInv, WakeInv

LEMMA CompleteAwake ==
  ASSUME AwakeInv, OnComplete
  PROVE  AwakeInv'
<1>1. PICK T : inbox \in Seq(T)
  BY DEF AwakeInv, AwakeTypes
<1>2. /\ inbox # <<>> /\ inbox[1][1] = "complete" /\ MainIdle
      /\ UNCHANGED <<environment, fields, threads, statics, current, instances>>
  BY <1>1 DEF OnComplete, Message
<1>3. UNCHANGED <<starts, started, pc, owner, listening, timer>>
  BY <1>2 DEF environment, fields, threads, statics
<1>4. CASE started
  <2>1. PICK r : r = Tail(inbox) /\ stopService(r)
    BY <1>4 DEF OnComplete
  <2>2. /\ \A i \in DOMAIN r : i \in Nat /\ i + 1 \in DOMAIN inbox /\ r[i] = inbox[i + 1]
        /\ \A i \in DOMAIN inbox : i = 1 \/ (i - 1 \in DOMAIN r /\ r[i - 1] = inbox[i])
        /\ DOMAIN inbox \subseteq Nat
    BY <1>1, <1>2, <2>1, PopPlaces
  <2>3. r \in Seq(T) /\ Numbered(r, instances + 1, starts)
    BY <1>1, <1>2, <2>1, Popped, InstanceTypes, NumberedPop DEF AwakeInv, InboxInv, InstanceInv
  <2>4. ASSUME ~up, NEW i \in DOMAIN r, r[i][1] = "start"
        PROVE  \E j \in DOMAIN r : i < j /\ r[j][1] = "destroy"
    <3>1. i + 1 \in DOMAIN inbox /\ inbox[i + 1][1] = "start" /\ i \in Nat
      BY <2>2, <2>4
    <3>2. PICK j \in DOMAIN inbox : i + 1 < j /\ inbox[j][1] = "destroy"
      BY <2>4, <3>1 DEF AwakeInv, InboxInv, EndsInv
    <3>3. j \in Nat /\ j # 1 /\ i < j - 1
      BY <2>2, <3>1, <3>2
    <3>. QED  BY <2>2, <3>2, <3>3
  <2>5. ASSUME ~up
        PROVE  \E i \in DOMAIN r : r[i][1] = "destroy"
    BY <1>2, <1>4, <2>2, <2>5 DEF AwakeInv, InboxInv, EndsInv
  <2>6. /\ DOMAIN timer' = Instances /\ \A s \in Instances : timer'[s] \in {Cancelled} \cup Nat
        /\ DOMAIN pc' = Callers /\ pc'[MainThread] = "none"
    BY <1>2, <1>3 DEF AwakeInv, AwakeTypes, MainIdle, Running
  <2>. QED  BY <1>2, <1>3, <2>1, <2>3, <2>4, <2>5, <2>6, StoppedAwake
<1>5. CASE ~started
  <2>1. Done
    BY <1>5 DEF OnComplete
  <2>2. KeptAwake /\ (Starting' => Starting)
    BY <1>2, <1>3, SameAwake DEF Starting
  <2>. QED  BY <1>2, <1>3, <1>5, <2>1, <2>2, HandledAwake
<1>. QED  BY <1>4, <1>5

(* autoPrefChanged and timerKill: while there is no timer the main thread  *)
(* is about to stop the service.                                           *)
LEMMA AutoPrefAwake ==
  ASSUME AwakeInv, autoPrefChanged \/ KillTimer \/ NewTimer
  PROVE  AwakeInv'
<1>1. PICK T : inbox \in Seq(T)
  BY DEF AwakeInv, AwakeTypes
<1>2. UNCHANGED <<starts, started, current, instances, owner, listening>>
  BY DEF autoPrefChanged, KillTimer, NewTimer, environment, statics, android
<1>3. ASSUME NEW to, pc' = [pc EXCEPT ![MainThread] = to]
      PROVE  /\ DOMAIN pc' = Callers /\ pc'[MainThread] = to
             /\ (Busy(current) => Busy(current)')
  <2>1. /\ DOMAIN pc' = Callers /\ pc'[MainThread] = to /\ \A t \in Threads : pc'[t] = pc[t]
    BY <1>3, ThreadsCall DEF AwakeInv, AwakeTypes
  <2>. QED  BY <1>2, <2>1 DEF Busy
<1>4. CASE autoPrefChanged
  <2>1. /\ inbox # <<>> /\ inbox[1][1] = "autoChanged" /\ MainIdle /\ started /\ Done
        /\ UNCHANGED timer
    BY <1>1, <1>4 DEF autoPrefChanged, Message
  <2>2. PICK to \in {"none", "ifWaiting"} : pc' = [pc EXCEPT ![MainThread] = to]
    BY <1>4 DEF autoPrefChanged, At
  <2>3. /\ DOMAIN pc' = Callers /\ pc'[MainThread] = to /\ (Busy(current) => Busy(current)')
    BY <1>3, <2>2
  <2>4. KeptAwake /\ (Starting' => Starting)
    BY <1>2, <2>1, <2>3 DEF KeptAwake, AwakeInv, AwakeTypes, InboxInv, InstanceInv, MainIdle,
       Running, Starting, Listing
  <2>5. ~Ending(1)
    BY <2>1 DEF Ending
  <2>. QED  BY <1>2, <2>1, <2>4, <2>5, HandledAwake
<1>5. CASE KillTimer
  <2>1. /\ pc[MainThread] = "ifWaiting" /\ UNCHANGED <<inbox, up>>
        /\ \/ pc' = [pc EXCEPT ![MainThread] = "none"] /\ ~waiting[current]
           \/ pc' = [pc EXCEPT ![MainThread] = "newTimer"]
        /\ timer' = [timer EXCEPT ![current] = IF waiting[current] THEN Cancelled ELSE @]
    BY <1>5 DEF KillTimer, At, android
  <2>2. PICK to \in {"none", "newTimer"} :
          pc' = [pc EXCEPT ![MainThread] = to] /\ (to = "newTimer" \/ ~waiting[current])
    BY <2>1
  <2>3. /\ DOMAIN pc' = Callers /\ pc'[MainThread] = to /\ (Busy(current) => Busy(current)')
    BY <1>3, <2>2
  <2>4. DOMAIN timer' = Instances /\ \A s \in Instances : timer'[s] \in {Cancelled} \cup Nat
    BY <2>1 DEF AwakeInv, AwakeTypes
  <2>5. timer'[current] = timer[current] \/ to = "newTimer"
    <3>1. current \in Instances
      BY <2>1, InstanceTypes
      DEF AwakeInv, MainInv, Running, InboxInv, InstanceInv, NoInstance, Instances
    <3>. QED  BY <2>1, <2>2, <3>1 DEF AwakeInv, AwakeTypes
  <2>6. KeptAwake
    BY <1>2, <2>1, <2>3, <2>4, <2>5 DEF KeptAwake, AwakeInv, AwakeTypes, MainInv, Running
  <2>7. ~Starting'
    BY <2>3 DEF Starting, Listing
  <2>. QED  BY <1>2, <2>1, <2>6, <2>7, SameInbox, StillAwake
<1>6. CASE NewTimer
  <2>1. /\ pc[MainThread] = "newTimer" /\ pc' = [pc EXCEPT ![MainThread] = "none"]
        /\ timer' = [timer EXCEPT ![current] = 0] /\ stopService(inbox)
    BY <1>6 DEF NewTimer, At
  <2>2. /\ DOMAIN pc' = Callers /\ pc'[MainThread] = "none"
    BY <1>3, <2>1
  <2>3. DOMAIN timer' = Instances /\ \A s \in Instances : timer'[s] \in {Cancelled} \cup Nat
    BY <2>1 DEF AwakeInv, AwakeTypes
  <2>4. CASE started
    <3>1. Numbered(inbox, instances + 1, starts)
      BY DEF AwakeInv, InboxInv, InstanceInv
    <3>2. ~up => /\ \E i \in DOMAIN inbox : inbox[i][1] = "destroy"
                 /\ \A i \in DOMAIN inbox : inbox[i][1] = "start" =>
                      \E j \in DOMAIN inbox : i < j /\ inbox[j][1] = "destroy"
      BY <2>4 DEF AwakeInv, InboxInv, EndsInv
    <3>. QED  BY <1>1, <1>2, <2>1, <2>2, <2>3, <3>1, <3>2, StoppedAwake
  <2>. QED  BY <2>1, <2>4 DEF AwakeInv, MainInv
<1>. QED  BY <1>4, <1>5, <1>6

LEMMA MainAwake ==
  ASSUME AwakeInv, Main
  PROVE  AwakeInv'
<1>1. PICK T : inbox \in Seq(T)
  BY DEF AwakeInv, AwakeTypes
<1>2. ASSUME NEW k, Message(k)
      PROVE  inbox # <<>> /\ inbox[1][1] = k /\ MainIdle
  BY <1>1, <1>2 DEF Message
<1>3. CASE OnStart \/ updateFileList(MainThread) \/ Decide
  BY <1>3, OnStartAwake, ListingAwake, DecideAwake, ThreadsCall
<1>4. CASE OnDestroy
  <2>1. inbox # <<>> /\ inbox[1][1] = "destroy" /\ inbox' = Tail(inbox) /\ UNCHANGED up
    BY <1>2, <1>4 DEF OnDestroy, Done
  <2>2. /\ UNCHANGED <<instances, starts, pc, owner>> /\ started' = FALSE /\ current' = NoInstance
        /\ timer' = [timer EXCEPT ![current] = Cancelled]
        /\ listening' = [listening EXCEPT ![current] = FALSE]
    BY <1>4 DEF OnDestroy, environment, threads
  <2>5. MainIdle /\ MainIdle'
    BY <1>2, <1>4, <2>2 DEF OnDestroy, MainIdle, Running
  <2>6. ~Starting'
    BY <2>5 DEF Starting, Listing, MainIdle, Running
  <2>3. InboxInv' /\ (\E U : inbox' \in Seq(U))
    BY <1>1, <2>1, <2>2, <2>6, DestroyHandledKept DEF AwakeInv
  <2>4. AwakeTypes'
    BY <2>1, <2>2, <2>3 DEF AwakeInv, AwakeTypes
  <2>. QED  BY <2>2, <2>3, <2>4, <2>5 DEF AwakeInv, WakeInv, MainInv, MainIdle, Running
<1>5. CASE OnDestroyThrows
  BY <1>5, DieAwake DEF OnDestroyThrows
<1>6. CASE OnComplete
  BY <1>6, CompleteAwake
<1>7. CASE OnNetwork
  <2>1. inbox # <<>> /\ inbox[1][1] = "net" /\ Done /\ ~Ending(1) /\ MainIdle
    BY <1>2, <1>7 DEF OnNetwork, Ending
  <2>2. UNCHANGED <<starts, started, current, instances, timer>>
    BY <1>7 DEF OnNetwork, environment, statics
  <2>3. PICK s : \/ networkChanged(s) \/ UNCHANGED <<listening, pc, owner>>
    BY <1>7 DEF OnNetwork, threads
  <2>4. KeptAwake
    BY <2>1, <2>2, <2>3, ChangedKept
  <2>5. ~Starting'
    <3>1. MainIdle'
      BY <2>1, <2>3, ChangedAwake DEF MainIdle, Running, AwakeInv
    <3>. QED  BY <3>1 DEF MainIdle, Running, Starting, Listing
  <2>. QED  BY <2>1, <2>2, <2>4, <2>5, HandledAwake
<1>8. CASE wifiPrefChanged
  <2>1. inbox # <<>> /\ inbox[1][1] = "wifiOnlyChanged" /\ Done /\ ~Ending(1) /\ MainIdle
    BY <1>2, <1>8 DEF wifiPrefChanged, Ending
  <2>2. UNCHANGED <<starts, started, current, instances, timer>>
    BY <1>8 DEF wifiPrefChanged, environment, statics
  <2>3. PICK s : \/ networkChanged(s) \/ UNCHANGED <<listening, pc, owner>>
    BY <1>8 DEF wifiPrefChanged, threads
  <2>4. KeptAwake
    BY <2>1, <2>2, <2>3, ChangedKept
  <2>5. ~Starting'
    <3>1. MainIdle'
      BY <2>1, <2>3, ChangedAwake DEF MainIdle, Running, AwakeInv
    <3>. QED  BY <3>1 DEF MainIdle, Running, Starting, Listing
  <2>. QED  BY <2>1, <2>2, <2>4, <2>5, HandledAwake
<1>9. CASE autoPrefChanged \/ KillTimer \/ NewTimer
  BY <1>9, AutoPrefAwake
<1>10. CASE Unheard
  <2>1. inbox # <<>> /\ inbox[1][1] # "destroy" /\ Done /\ ~started
    BY <1>2, <1>10 DEF Unheard
  <2>2. UNCHANGED <<fields, threads, statics, environment, current, instances>>
    BY <1>10 DEF Unheard
  <2>3. /\ UNCHANGED <<fields, threads, started, starts, current, instances>>
        /\ Starting' => Starting
    BY <2>2 DEF statics, environment, threads, Starting
  <2>. QED  BY <2>1, <2>3, SameAwake, HandledAwake
<1>. QED  BY <1>3, <1>4, <1>5, <1>6, <1>7, <1>8, <1>9, <1>10 DEF Main

LEMMA TimerAwake ==
  ASSUME AwakeInv, NEW s \in Instances, TimerFires(s)
  PROVE  AwakeInv'
<1>1. /\ timer[s] > 0 /\ timer' = [timer EXCEPT ![s] = @ - 1] /\ uploadFiles(s, pc[MainThread])
      /\ UNCHANGED <<inbox, up, started, current, instances, starts, listening>>
  BY DEF TimerFires, android, statics, environment
<1>2. /\ DOMAIN pc' = Callers /\ DOMAIN owner' = Threads /\ Busy(s)' /\ \A x : Busy(x) => Busy(x)'
      /\ pc'[MainThread] = pc[MainThread]
  BY <1>1, ThreadStarts DEF AwakeInv
<1>3. /\ DOMAIN timer' = Instances
      /\ \A x \in Instances :
           timer'[x] \in {Cancelled} \cup Nat /\ (x # s => timer'[x] = timer[x])
  BY <1>1 DEF AwakeInv, AwakeTypes, Cancelled
<1>4. PICK c : c = current /\ c = current'
  BY <1>1
<1>5. Busy(current)' <=> Busy(c)'
  BY <1>4 DEF Busy
<1>6. started => current \in Instances
  BY StartedInstance DEF AwakeInv, InboxInv
<1>7. KeptAwake
  BY <1>1, <1>2, <1>3, <1>4, <1>5, <1>6 DEF KeptAwake, AwakeInv, AwakeTypes, MainInv, Running
<1>8. Starting' => Starting
  BY <1>2 DEF Starting
<1>. QED  BY <1>1, <1>7, <1>8, SameInbox, StillAwake

LEMMA ThreadEnds ==
  ASSUME AwakeInv, NEW t \in Threads, NEW from, Ends(t, from)
  PROVE  /\ DOMAIN pc' = Callers /\ DOMAIN owner' = Threads /\ pc'[MainThread] = pc[MainThread]
         /\ \A x : Busy(x) => Busy(x)' \/ (owner[t] = x /\ from # "registered")
<1>1. /\ DOMAIN pc' = Callers /\ DOMAIN owner' = Threads /\ pc[t] = from
      /\ pc'[MainThread] = pc[MainThread]
      /\ \A u \in Threads : u # t => pc'[u] = pc[u] /\ owner'[u] = owner[u]
  BY ThreadsCall DEF Ends, At, AwakeInv, AwakeTypes
<1>2. \A x : Busy(x) => Busy(x)' \/ (owner[t] = x /\ from # "registered")
  BY <1>1 DEF Busy
<1>. QED  BY <1>1, <1>2

LEMMA EndAwake ==
  ASSUME AwakeInv, NEW t \in Threads,
         TimerStart(t) \/ Register(t) \/ Registered(t) \/ Broadcast(t)
  PROVE  AwakeInv'
<1>1. PICK T : inbox \in Seq(T)
  BY DEF AwakeInv, AwakeTypes
<1>2. UNCHANGED <<up, started, current, instances, starts>>
  BY DEF TimerStart, Register, Registered, Broadcast, android, statics, environment
<1>3. PICK c : c = current /\ c = current'
  BY <1>2
<1>4. Busy(current)' <=> Busy(c)'
  BY <1>3 DEF Busy
<1>5. started => current \in Instances
  BY StartedInstance DEF AwakeInv, InboxInv
<1>6. /\ DOMAIN timer = Instances /\ \A s \in Instances : timer[s] \in {Cancelled} \cup Nat
      /\ DOMAIN listening = Instances /\ DOMAIN pc = Callers /\ DOMAIN owner = Threads
      /\ up' \in BOOLEAN
  BY <1>2 DEF AwakeInv, AwakeTypes
<1>7. CASE TimerStart(t)
  <2>1. /\ Ends(t, "schedule") /\ timer[owner[t]] # Cancelled
        /\ timer' = [timer EXCEPT ![owner[t]] = @ + 1] /\ UNCHANGED <<listening, inbox>>
    BY <1>7 DEF TimerStart, android
  <2>2. /\ DOMAIN pc' = Callers /\ DOMAIN owner' = Threads /\ pc'[MainThread] = pc[MainThread]
        /\ \A x : Busy(x) => Busy(x)' \/ owner[t] = x
    BY <2>1, ThreadEnds
  <2>3. /\ DOMAIN timer' = Instances
        /\ \A x \in Instances : timer'[x] \in {Cancelled} \cup Nat
        /\ \A x \in Instances : IF x = owner[t] THEN timer'[x] > 0 ELSE timer'[x] = timer[x]
    BY <1>6, <2>1 DEF Cancelled
  <2>4. AwakeTypes'
    BY <1>1, <1>6, <2>1, <2>2, <2>3 DEF AwakeTypes
  <2>8. MainInv' /\ (Starting' => Starting)
    BY <1>2, <2>2 DEF AwakeInv, MainInv, Running, Starting
  <2>5. InboxInv' /\ ((\E i \in DOMAIN inbox : Ending(i)) => \E i \in DOMAIN inbox' : Ending(i)')
    BY <1>2, <2>1, <2>8, SameInbox
  <2>6. ASSUME started
        PROVE  \/ Busy(current)' \/ timer'[current] > 0 \/ listening'[current]
               \/ (\E i \in DOMAIN inbox' : Ending(i)') \/ pc'[MainThread] = "newTimer"
    BY <1>3, <1>4, <1>5, <2>1, <2>2, <2>3, <2>5, <2>6 DEF AwakeInv, WakeInv
  <2>7. WakeInv'
    BY <1>2, <2>6 DEF WakeInv
  <2>. QED  BY <2>4, <2>5, <2>7, <2>8 DEF AwakeInv
<1>8. CASE Register(t)
  <2>1. /\ pc[t] = "register" /\ pc' = [pc EXCEPT ![t] = "registered"]
        /\ listening' = [listening EXCEPT ![owner[t]] = TRUE]
        /\ inbox' = Append(inbox, <<"net", owner[t], net # "none">>) /\ UNCHANGED <<timer, owner>>
    BY <1>8 DEF Register, At
  <2>2. PICK m : m = <<"net", owner[t], net # "none">> /\ m[1] # "start"
    <3>1. <<"net", owner[t], net # "none">>[1] = "net"
      OBVIOUS
    <3>. QED  BY <3>1
  <2>3. /\ inbox' = inbox \o <<m>> /\ <<m>> \in Seq({m})
        /\ \A i \in DOMAIN <<m>> : <<m>>[i][1] # "start"
    <3>1. inbox' = Append(inbox, m)
      BY <2>1, <2>2
    <3>2. Append(inbox, m) = inbox \o <<m>> /\ <<m>> \in Seq({m})
      BY <1>1
    <3>3. \A i \in DOMAIN <<m>> : <<m>>[i] = m
      OBVIOUS
    <3>. QED  BY <2>2, <3>1, <3>2, <3>3
  <2>10. pc'[MainThread] = pc[MainThread]
    BY <1>6, <2>1, ThreadsCall
  <2>11. MainInv' /\ (Starting' => Starting)
    BY <1>2, <2>10 DEF AwakeInv, MainInv, Running, Starting
  <2>4. /\ InboxInv' /\ (\E U : inbox' \in Seq(U))
        /\ ((\E i \in DOMAIN inbox : Ending(i)) => \E i \in DOMAIN inbox' : Ending(i)')
    BY <1>1, <1>2, <2>3, <2>11, SentKept DEF AwakeInv
  <2>5. /\ DOMAIN pc' = Callers /\ DOMAIN listening' = Instances
        /\ \A x \in Instances :
             IF x = owner[t] THEN listening'[x] ELSE listening'[x] = listening[x]
        /\ \A u \in Threads : u # t => pc'[u] = pc[u]
    <3>1. /\ DOMAIN pc' = Callers /\ DOMAIN listening' = Instances
          /\ \A u \in Threads : u # t => pc'[u] = pc[u]
      BY <1>6, <2>1, ThreadsCall
    <3>2. \A x \in Instances : x = owner[t] => listening'[x]
      BY <1>6, <2>1, Zenon
    <3>3. \A x \in Instances : x # owner[t] => listening'[x] = listening[x]
      BY <1>6, <2>1
    <3>. QED  BY <3>1, <3>2, <3>3
  <2>6. AwakeTypes'
    BY <1>6, <2>1, <2>4, <2>5 DEF AwakeTypes
  <2>7. \A x : Busy(x) => Busy(x)' \/ owner[t] = x
    BY <2>1, <2>5 DEF Busy
  <2>8. ASSUME started
        PROVE  \/ Busy(current)' \/ timer'[current] > 0 \/ listening'[current]
               \/ (\E i \in DOMAIN inbox' : Ending(i)') \/ pc'[MainThread] = "newTimer"
    <3>1. CASE Busy(current) \/ listening[current]
      BY <1>3, <1>4, <1>5, <2>5, <2>7, <2>8, <3>1
    <3>. QED  BY <2>1, <2>4, <2>8, <2>10, <3>1 DEF AwakeInv, WakeInv
  <2>9. WakeInv'
    BY <1>2, <2>8 DEF WakeInv
  <2>. QED  BY <2>4, <2>6, <2>9, <2>11 DEF AwakeInv
<1>9. CASE Registered(t)
  <2>1. Ends(t, "registered") /\ UNCHANGED <<inbox, timer, listening>>
    BY <1>9 DEF Registered, android
  <2>2. /\ DOMAIN pc' = Callers /\ DOMAIN owner' = Threads /\ pc'[MainThread] = pc[MainThread]
        /\ \A x : Busy(x) => Busy(x)' \/ (owner[t] = x /\ "registered" # "registered")
    BY <2>1, ThreadEnds
  <2>3. KeptAwake
    BY <1>2, <1>3, <1>4, <1>6, <2>1, <2>2 DEF KeptAwake, AwakeInv, MainInv, Running
  <2>4. Starting' => Starting
    BY <2>2 DEF Starting
  <2>. QED  BY <1>2, <2>1, <2>3, <2>4, SameInbox, StillAwake
<1>10. CASE Broadcast(t)
  <2>1. /\ Ends(t, "broadcast") /\ inbox' = Append(inbox, <<"complete">>)
        /\ UNCHANGED <<timer, listening>>
    BY <1>10 DEF Broadcast, fields
  <2>2. PICK m : m = <<"complete">> /\ m[1] = "complete"
    <3>1. <<"complete">>[1] = "complete"
      OBVIOUS
    <3>. QED  BY <3>1
  <2>3. /\ inbox' = inbox \o <<m>> /\ <<m>> \in Seq({m})
        /\ \A i \in DOMAIN <<m>> : <<m>>[i][1] # "start"
    BY <1>1, <2>1, <2>2
  <2>6. DOMAIN pc' = Callers /\ DOMAIN owner' = Threads /\ pc'[MainThread] = pc[MainThread]
    BY <2>1, ThreadEnds
  <2>8. MainInv' /\ (Starting' => Starting)
    BY <1>2, <2>6 DEF AwakeInv, MainInv, Running, Starting
  <2>4. InboxInv' /\ (\E U : inbox' \in Seq(U))
    BY <1>1, <1>2, <2>3, <2>8, SentKept DEF AwakeInv
  <2>5. \E i \in DOMAIN inbox' : Ending(i)'
    <3>1. PICK a : a = inbox' /\ a = Append(inbox, m)
      BY <2>1, <2>2
    <3>2. inbox \in Seq(T \cup {m})
      BY <1>1
    <3>3. Len(inbox) + 1 \in DOMAIN a /\ a[Len(inbox) + 1] = m
      BY <3>1, <3>2, PushPlaces
    <3>. QED  BY <2>2, <3>1, <3>3 DEF Ending
  <2>7. AwakeTypes'
    BY <1>6, <2>1, <2>4, <2>6 DEF AwakeTypes
  <2>. QED  BY <2>4, <2>5, <2>7, <2>8 DEF AwakeInv, WakeInv
<1>. QED  BY <1>7, <1>8, <1>9, <1>10

LEMMA UploadAwake ==
  ASSUME AwakeInv, NEW t \in Threads, Upload(t)
  PROVE  AwakeInv'
<1> USE DEF android, statics, environment, fields
<1>1. CASE NetworkThrows(t) \/ RemoveThrows(t) \/ TimerThrows(t)
  BY <1>1, DieAwake DEF NetworkThrows, RemoveThrows, TimerThrows
<1>2. CASE TimerStart(t) \/ Register(t) \/ Registered(t) \/ Broadcast(t)
  BY <1>2, EndAwake
<1>3. ASSUME NEW from, NEW to, At(t, from, to), from \notin {"none", "newTimer"},
             to \notin {"none", "registered", "ifWaiting", "newTimer"},
             UNCHANGED <<owner, timer, listening, inbox, up, started, current, instances, starts>>
      PROVE  AwakeInv'
  <2>1. pc' = [pc EXCEPT ![t] = to] /\ pc[t] \notin {"none", "newTimer"}
    BY <1>3 DEF At
  <2>2. KeptAwake /\ (Starting' => Starting)
    BY <1>3, <2>1, GoesOn, ThreadsCall
  <2>. QED  BY <1>3, <2>2, SameInbox, StillAwake
<1>4. CASE updateFileList(t)
  BY <1>4, ListingAwake, ThreadsCall
<1>5. CASE Check(t)
  BY <1>3, <1>5 DEF Check
<1>6. CASE canUpload(t)
  BY <1>3, <1>6 DEF canUpload
<1>7. CASE RemoveHead(t)
  BY <1>3, <1>7 DEF RemoveHead
<1>8. CASE NewPost(t)
  BY <1>3, <1>8 DEF NewPost
<1>9. CASE FileExists(t)
  BY <1>3, <1>9 DEF FileExists
<1>10. CASE SetEntity(t)
  BY <1>3, <1>10 DEF SetEntity
<1>11. CASE Execute(t)
  BY <1>3, <1>11 DEF Execute
<1>12. CASE Answer(t)
  BY <1>3, <1>12 DEF Answer
<1>13. CASE Rename(t)
  BY <1>3, <1>13 DEF Rename
<1>14. CASE Requeue(t)
  BY <1>3, <1>14 DEF Requeue
<1>15. CASE GiveUp(t)
  BY <1>3, <1>15 DEF GiveUp
<1>16. CASE Wait(t)
  BY <1>3, <1>16 DEF Wait
<1>17. CASE ClearMap(t)
  BY <1>3, <1>17 DEF ClearMap
<1>18. CASE ClearList(t)
  BY <1>3, <1>18 DEF ClearList
<1>. QED
  BY <1>1, <1>2, <1>4, <1>5, <1>6, <1>7, <1>8, <1>9, <1>10,
     <1>11, <1>12, <1>13, <1>14, <1>15, <1>16, <1>17, <1>18 DEF Upload

LEMMA AwakeStays ==
  ASSUME AwakeInv, [Next]_vars
  PROVE  AwakeInv'
<1>1. CASE UNCHANGED vars
  <2>1. UNCHANGED <<fields, threads, started, current, inbox, up, instances, starts>>
    BY <1>1 DEF vars, statics, android, environment
  <2>2. Starting' => Starting
    BY <2>1 DEF threads, Starting
  <2>. QED  BY <2>1, <2>2, SameAwake, SameInbox, StillAwake
<1>2. ASSUME NEW s \in Instances, TimerFires(s)
      PROVE  AwakeInv'
  BY <1>2, TimerAwake
<1>3. ASSUME NEW t \in Threads, Upload(t)
      PROVE  AwakeInv'
  BY <1>3, UploadAwake
<1>. QED  BY <1>1, <1>2, <1>3, WorldAwake, MainAwake DEF Next

LEMMA AwakeAtFirst == Init => AwakeInv
<1> SUFFICES ASSUME Init PROVE AwakeInv
  OBVIOUS
<1>1. inbox = <<>> /\ up = FALSE /\ started = FALSE /\ current = NoInstance
      /\ instances = 0 /\ starts = 0
  BY DEF Init
<1>2. Numbered(<<>>, 1, 0)
  <2>1. [i \in {} |-> 0] \in [DOMAIN <<>> -> 0 .. MaxStarts] /\ DOMAIN <<>> = {}
    OBVIOUS
  <2>. QED  BY <2>1 DEF Numbered
<1>3. InstanceInv
  BY <1>1, <1>2, UploaderAssumption DEF InstanceInv, NoInstance
<1>4. EndsInv /\ WakeInv
  <2>1. DOMAIN <<>> = {}
    OBVIOUS
  <2>2. ~Starting
    BY ThreadsCall DEF Init, Starting, Listing
  <2>. QED  BY <1>1, <2>1, <2>2 DEF EndsInv, WakeInv
<1>5. AwakeTypes
  <2>1. \E T : inbox \in Seq(T)
    <3>1. <<>> \in Seq({})
      OBVIOUS
    <3>. QED  BY <1>1, <3>1
  <2>2. /\ DOMAIN listening = Instances /\ DOMAIN timer = Instances
        /\ DOMAIN pc = Callers /\ DOMAIN owner = Threads
        /\ \A s \in Instances : timer[s] \in {Cancelled} \cup Nat
    BY DEF Init, Cancelled
  <2>. QED  BY <1>1, <2>1, <2>2 DEF AwakeTypes
<1>6. MainInv
  BY ThreadsCall DEF Init, MainInv, Running
<1>. QED  BY <1>3, <1>4, <1>5, <1>6 DEF AwakeInv, InboxInv

(* A started service with nothing to do at the moment will be woken: a     *)
(* timer is set or the connectivity receiver is registered, whatever upload *)
(* threads, preferences and networks have done before.                     *)
THEOREM StartedIsWoken == Spec => []NeverStranded
<1>1. Init => AwakeInv
  BY AwakeAtFirst
<1>2. AwakeInv /\ [Next]_vars => AwakeInv'
  BY AwakeStays
<1>3. AwakeInv => NeverStranded
  <2>1. DOMAIN <<>> = {}
    OBVIOUS
  <2>. QED  BY <2>1, ThreadsCall DEF AwakeInv, WakeInv, NeverStranded, Busy, Running
<1>. QED  BY <1>1, <1>2, <1>3, PTL DEF Spec

-------------------------------------------------------------------------------
(* The types.                                                              *)

Messages ==
  {<<k>> : k \in {"start", "complete", "destroy", "wifiOnlyChanged", "autoChanged"}}
    \cup {<<"net", s, b>> : s \in Instances, b \in BOOLEAN}

(* Where a caller has a file in its hands.                                 *)
FilePlaces == InFile \cup {"put", "add"}

DiskTypes ==
  /\ net \in Networks /\ autoPref \in Autos /\ wifiPref \in Wifis
  /\ changes \in 0 .. MaxChanges
  /\ recent \subseteq Files /\ uploaded \subseteq Files /\ accepted \subseteq Files

QueueTypes ==
  /\ started \in BOOLEAN /\ fileList \in Seq(Files) /\ fileMap \subseteq Files
  /\ crossed \subseteq Files /\ inbox \in Seq(Messages)

FieldTypes ==
  /\ waiting \in [Instances -> BOOLEAN] /\ automatic \in [Instances -> BOOLEAN]
  /\ wifiOnly \in [Instances -> BOOLEAN] /\ listening \in [Instances -> BOOLEAN]
  /\ connectionReceiverRegistered \in [Instances -> BOOLEAN]
  /\ timer \in [Instances -> {Cancelled} \cup Nat]
  /\ httppost \in [Instances -> Files \cup {NoFile}]

ThreadTypes ==
  /\ pc \in [Callers -> Places \cup MainPlaces] /\ pc[MainThread] \in MainPlaces
  /\ \A t \in Threads : pc[t] \in Places
  /\ file \in [Callers -> Files \cup {NoFile}] /\ rest \in [Callers -> SUBSET Files]
  /\ owner \in [Threads -> Instances \cup {NoInstance}]
  /\ sent \in [Threads -> Files \cup {NoFile}] /\ ff \in [Threads -> Files \cup {NoFile}]
  /\ \A t \in Threads : pc[t] # "none" => owner[t] \in Instances
  /\ \A c \in Callers : pc[c] \in FilePlaces => file[c] \in Files

TypesInv == DiskTypes /\ QueueTypes /\ FieldTypes /\ ThreadTypes /\ AwakeInv

LEMMA DiskTypesKept ==
  ASSUME DiskTypes, ThreadTypes, [Next]_vars
  PROVE  DiskTypes'
<1> USE DEF DiskTypes, environment, disk
<1>1. CASE UNCHANGED vars
  BY <1>1 DEF vars
<1>2. CASE World
  <2>1. CASE StartService
    BY <2>1 DEF StartService
  <2>2. ASSUME NEW n \in Networks, NetChange(n)
        PROVE  DiskTypes'
    BY <2>2, UploaderAssumption DEF NetChange, Change
  <2>3. ASSUME NEW b \in Wifis, SetWifiOnly(b)
        PROVE  DiskTypes'
    BY <2>3, UploaderAssumption DEF SetWifiOnly, Change
  <2>4. ASSUME NEW b \in Autos, SetAutomatic(b)
        PROVE  DiskTypes'
    BY <2>4, UploaderAssumption DEF SetAutomatic, Change
  <2>5. ASSUME NEW f \in Files, AddFile(f) \/ DeleteFile(f)
        PROVE  DiskTypes'
    BY <2>5, UploaderAssumption DEF AddFile, DeleteFile, Change
  <2>. QED  BY <1>2, <2>1, <2>2, <2>3, <2>4, <2>5 DEF World
<1>3. ASSUME NEW c \in Callers, updateFileList(c)
      PROVE  DiskTypes'
  BY <1>3, ListingStep
<1>4. CASE Main
  <2>1. CASE updateFileList(MainThread)
    BY <1>3, <2>1, ThreadsCall
  <2>2. CASE ~updateFileList(MainThread)
    <3>1. UNCHANGED <<environment, disk>>
      BY <1>4, <2>2 DEF Main, OnStart, Decide, OnDestroy, OnDestroyThrows, Die, OnComplete,
         OnNetwork, wifiPrefChanged, autoPrefChanged, KillTimer, NewTimer, Unheard
    <3>. QED  BY <3>1
  <2>. QED  BY <2>1, <2>2
<1>5. ASSUME NEW s \in Instances, TimerFires(s)
      PROVE  DiskTypes'
  BY <1>5 DEF TimerFires
<1>6. ASSUME NEW t \in Threads, Upload(t)
      PROVE  DiskTypes'
  <2>1. CASE updateFileList(t)
    BY <1>3, <2>1, ThreadsCall
  <2>2. CASE Answer(t)
    <3>1. {sent[t]} \ {NoFile} \subseteq Files
      BY DEF ThreadTypes
    <3>2. UNCHANGED <<environment, recent, uploaded>>
          /\ (accepted' = accepted \cup ({sent[t]} \ {NoFile}) \/ UNCHANGED accepted)
      BY <2>2 DEF Answer
    <3>. QED  BY <3>1, <3>2
  <2>3. CASE Rename(t)
    <3>1. /\ UNCHANGED <<environment, accepted>>
          /\ \/ file[t] \in recent /\ recent' = recent \ {file[t]}
                /\ uploaded' = uploaded \cup {file[t]}
             \/ UNCHANGED <<recent, uploaded>>
      BY <2>3 DEF Rename
    <3>. QED  BY <3>1
  <2>4. CASE ~updateFileList(t) /\ ~Answer(t) /\ ~Rename(t)
    <3>1. UNCHANGED <<environment, disk>>
      BY <1>6, <2>4 DEF Upload, Check, canUpload, NetworkThrows, RemoveHead, RemoveThrows,
         NewPost, FileExists, SetEntity, Execute, Requeue, GiveUp, Wait, TimerStart,
         TimerThrows, Register, Registered, ClearMap, ClearList, Broadcast, Die
    <3>. QED  BY <3>1
  <2>. QED  BY <2>1, <2>2, <2>3, <2>4
<1>. QED  BY <1>1, <1>2, <1>4, <1>5, <1>6 DEF Next

LEMMA MessageTypes ==
  /\ \A k \in {"start", "complete", "destroy", "wifiOnlyChanged", "autoChanged"} : <<k>> \in Messages
  /\ \A s \in Instances, b \in BOOLEAN : <<"net", s, b>> \in Messages
  /\ \A m \in Messages : m[1] = "net" => m[2] \in Instances
<1>1. ASSUME NEW k \in {"start", "complete", "destroy", "wifiOnlyChanged", "autoChanged"}
      PROVE  <<k>> \in Messages /\ <<k>>[1] # "net"
  BY DEF Messages
<1>2. ASSUME NEW s \in Instances, NEW b \in BOOLEAN
      PROVE  <<"net", s, b>> \in Messages /\ <<"net", s, b>>[2] \in Instances
  BY DEF Messages
<1>. QED  BY <1>1, <1>2 DEF Messages

LEMMA QueueTypesKept ==
  ASSUME TypesInv, [Next]_vars
  PROVE  QueueTypes'
<1> USE DEF QueueTypes, statics, android
<1>1. /\ inbox \in Seq(Messages) /\ fileList \in Seq(Files)
      /\ <<>> \in Seq(Messages) /\ <<>> \in Seq(Files)
      /\ \A m \in Messages : Append(inbox, m) \in Seq(Messages) /\ <<m>> \in Seq(Messages)
      /\ \A s, r \in Seq(Messages) : s \o r \in Seq(Messages)
      /\ inbox # <<>> => Tail(inbox) \in Seq(Messages)
      /\ fileList # <<>> => Tail(fileList) \in Seq(Files) /\ Head(fileList) \in Files
  BY DEF TypesInv
<1>2. /\ <<"start">> \in Messages /\ <<"wifiOnlyChanged">> \in Messages
      /\ <<"complete">> \in Messages /\ <<"destroy">> \in Messages
      /\ <<"autoChanged">> \in Messages
  BY MessageTypes
<1>3. recent \subseteq Files /\ QueueTypes
  BY DEF TypesInv, DiskTypes
<1>4. ASSUME NEW c \in Callers, updateFileList(c)
      PROVE  QueueTypes'
  <2>1. CASE PutFile(c) \/ AddToList(c)
    <3>1. file[c] \in Files
      BY <2>1 DEF PutFile, AddToList, At, TypesInv, ThreadTypes, FilePlaces
    <3>2. Append(fileList, file[c]) \in Seq(Files)
      BY <1>1, <3>1
    <3>. QED  BY <1>3, <2>1, <3>1, <3>2 DEF PutFile, AddToList
  <2>2. CASE ListFiles(c) \/ TestFile(c) \/ FilesListed(c)
    BY <1>3, <2>2 DEF ListFiles, TestFile, FilesListed
  <2>. QED  BY <1>4, <2>1, <2>2 DEF updateFileList
<1>5. CASE UNCHANGED vars
  BY <1>3, <1>5 DEF vars
<1>6. CASE World
  <2>1. CASE StartService
    BY <1>1, <1>2, <1>3, <2>1 DEF StartService
  <2>2. ASSUME NEW n \in Networks, NetChange(n)
        PROVE  QueueTypes'
    <3>1. NetMessages(Instances, n) \in Seq(Messages)
      <4>1. {<<"net", s, n # "none">> : s \in Instances} \subseteq Messages
        BY MessageTypes
      <4>2. PICK q, S : /\ q = NetMessages(Instances, n)
                        /\ S = {<<"net", s, n # "none">> : s \in Instances} /\ q \in Seq(S)
        BY NetMessagesType
      <4>3. q \in Seq(Messages)
        BY <4>1, <4>2
      <4>. QED  BY <4>2, <4>3
    <3>. QED  BY <1>1, <1>3, <2>2, <3>1 DEF NetChange
  <2>3. ASSUME NEW b \in Wifis, SetWifiOnly(b)
        PROVE  QueueTypes'
    BY <1>1, <1>2, <1>3, <2>3 DEF SetWifiOnly
  <2>4. ASSUME NEW b \in Autos, SetAutomatic(b)
        PROVE  QueueTypes'
    <3>1. (IF b THEN <<<<"start">>>> ELSE <<>>) \in Seq(Messages)
          /\ <<<<"autoChanged">>>> \in Seq(Messages)
      BY <1>1, <1>2
    <3>. QED  BY <1>1, <1>3, <2>4, <3>1 DEF SetAutomatic
  <2>5. ASSUME NEW f \in Files, AddFile(f) \/ DeleteFile(f)
        PROVE  QueueTypes'
    BY <1>3, <2>5 DEF AddFile, DeleteFile
  <2>. QED  BY <1>6, <2>1, <2>2, <2>3, <2>4, <2>5 DEF World
<1>7. CASE Main
  <2>1. CASE OnStart
    BY <1>1, <1>3, <2>1 DEF OnStart, Message, Done
  <2>2. CASE OnDestroyThrows
    BY <1>1, <2>2 DEF OnDestroyThrows, Die
  <2>3. ASSUME NEW r \in Seq(Messages), stopService(r), UNCHANGED <<fileList, fileMap, crossed>>,
               started' \in BOOLEAN
        PROVE  QueueTypes'
    <3>1. (IF up THEN <<<<"destroy">>>> ELSE <<>>) \in Seq(Messages)
      BY <1>1, <1>2
    <3>. QED  BY <1>1, <1>3, <2>3, <3>1 DEF stopService
  <2>4. CASE OnDestroy \/ OnComplete \/ OnNetwork \/ wifiPrefChanged \/ autoPrefChanged \/ Unheard
    <3>1. inbox # <<>> /\ UNCHANGED <<fileList, fileMap, crossed>> /\ started' \in BOOLEAN
      BY <1>3, <2>4 DEF OnDestroy, OnComplete, OnNetwork, wifiPrefChanged, autoPrefChanged,
         Unheard, Message
    <3>2. stopService(Tail(inbox)) \/ Done
      BY <2>4 DEF OnDestroy, OnComplete, OnNetwork, wifiPrefChanged, autoPrefChanged, Unheard
    <3>3. CASE Done
      BY <1>1, <1>3, <3>1, <3>3 DEF Done
    <3>. QED  BY <1>1, <2>3, <3>1, <3>2, <3>3
  <2>5. CASE NewTimer
    BY <1>1, <1>3, <2>3, <2>5 DEF NewTimer
  <2>6. CASE Decide \/ KillTimer
    BY <1>3, <2>6 DEF Decide, KillTimer
  <2>. QED  BY <1>4, <1>7, <2>1, <2>2, <2>4, <2>5, <2>6, ThreadsCall DEF Main
<1>8. ASSUME NEW s \in Instances, TimerFires(s)
      PROVE  QueueTypes'
  BY <1>3, <1>8 DEF TimerFires
<1>9. ASSUME NEW t \in Threads, Upload(t)
      PROVE  QueueTypes'
  <2>1. CASE updateFileList(t)
    BY <1>4, <2>1, ThreadsCall
  <2>2. CASE RemoveHead(t)
    BY <1>1, <1>3, <2>2 DEF RemoveHead
  <2>3. CASE NetworkThrows(t) \/ RemoveThrows(t) \/ TimerThrows(t)
    BY <1>1, <2>3 DEF NetworkThrows, RemoveThrows, TimerThrows, Die
  <2>4. CASE Requeue(t)
    <3>1. file[t] \in Files
      BY <2>4, ThreadsCall DEF Requeue, At, TypesInv, ThreadTypes, FilePlaces, InFile
    <3>2. Append(fileList, file[t]) \in Seq(Files)
      BY <1>1, <3>1
    <3>. QED  BY <1>3, <2>4, <3>2 DEF Requeue
  <2>5. CASE Register(t)
    <3>1. owner[t] \in Instances
      BY <2>5 DEF Register, At, TypesInv, ThreadTypes
    <3>2. Append(inbox, <<"net", owner[t], net # "none">>) \in Seq(Messages)
      <4>1. (net # "none") \in BOOLEAN
        OBVIOUS
      <4>. QED  BY <1>1, <3>1, <4>1, MessageTypes
    <3>. QED  BY <1>3, <2>5, <3>2 DEF Register
  <2>6. CASE Broadcast(t)
    BY <1>1, <1>2, <1>3, <2>6 DEF Broadcast
  <2>7. CASE ClearMap(t) \/ ClearList(t)
    <3>1. {file[c] : c \in {d \in Callers : pc[d] = "add"}} \subseteq Files
      BY DEF TypesInv, ThreadTypes, FilePlaces
    <3>. QED  BY <1>1, <1>3, <2>7, <3>1 DEF ClearMap, ClearList
  <2>8. CASE \/ Check(t) \/ canUpload(t) \/ NewPost(t) \/ FileExists(t) \/ SetEntity(t)
             \/ Execute(t) \/ Answer(t) \/ Rename(t) \/ GiveUp(t) \/ Wait(t) \/ TimerStart(t)
             \/ Registered(t)
    <3>1. UNCHANGED <<statics, inbox>>
      BY <2>8 DEF Check, canUpload, NewPost, FileExists, SetEntity, Execute, Answer, Rename,
         GiveUp, Wait, TimerStart, Registered
    <3>. QED  BY <1>3, <3>1
  <2>. QED  BY <1>9, <2>1, <2>2, <2>3, <2>4, <2>5, <2>6, <2>7, <2>8 DEF Upload
<1>. QED  BY <1>5, <1>6, <1>7, <1>8, <1>9 DEF Next

LEMMA FieldSet ==
  ASSUME NEW f \in [Instances -> BOOLEAN], NEW s, NEW v \in BOOLEAN
  PROVE  [f EXCEPT ![s] = v] \in [Instances -> BOOLEAN]
OBVIOUS

LEMMA NetworkFieldTypes ==
  ASSUME FieldTypes, NEW s, unregisterConnectReceiver(s)
  PROVE  /\ connectionReceiverRegistered' \in [Instances -> BOOLEAN]
         /\ listening' \in [Instances -> BOOLEAN]
<1>1. connectionReceiverRegistered' \in [Instances -> BOOLEAN]
  BY FieldSet DEF FieldTypes, unregisterConnectReceiver
<1>2. listening' \in [Instances -> BOOLEAN]
  <2>1. (listening[s] /\ ~connectionReceiverRegistered[s]) \in BOOLEAN
    BY Zenon
  <2>2. [listening EXCEPT ![s] = listening[s] /\ ~connectionReceiverRegistered[s]]
          \in [Instances -> BOOLEAN]
    BY <2>1, FieldSet DEF FieldTypes
  <2>. QED  BY <2>2 DEF unregisterConnectReceiver
<1>. QED  BY <1>1, <1>2

LEMMA FieldTypesKept ==
  ASSUME FieldTypes, DiskTypes, ThreadTypes, [Next]_vars
  PROVE  FieldTypes'
<1> USE DEF fields
<1>1. CASE UNCHANGED vars \/ World
  <2>1. UNCHANGED fields
    BY <1>1 DEF vars, World, StartService, NetChange, SetWifiOnly, SetAutomatic, AddFile,
       DeleteFile
  <2>. QED  BY <2>1 DEF FieldTypes
<1>2. wifiPref \in BOOLEAN /\ autoPref \in BOOLEAN
  BY UploaderAssumption DEF DiskTypes
<1>3. ASSUME Die
      PROVE  FieldTypes'
  BY <1>3 DEF Die, FieldTypes
<1>4. CASE Main
  <2>1. CASE Decide
    <3>1. /\ UNCHANGED <<waiting, connectionReceiverRegistered, timer, listening, httppost>>
          /\ \/ UNCHANGED <<wifiOnly, automatic>>
             \/ \E s : /\ wifiOnly' = [wifiOnly EXCEPT ![s] = wifiPref]
                       /\ automatic' = [automatic EXCEPT ![s] = autoPref]
      BY <2>1 DEF Decide
    <3>. QED  BY <1>2, <3>1, FieldSet DEF FieldTypes
  <2>2. CASE OnDestroy
    <3>1. /\ UNCHANGED <<automatic, wifiOnly, httppost>>
          /\ waiting' = [waiting EXCEPT ![current] = FALSE]
          /\ timer' = [timer EXCEPT ![current] = Cancelled]
          /\ connectionReceiverRegistered'
               = [connectionReceiverRegistered EXCEPT ![current] = FALSE]
          /\ listening' = [listening EXCEPT ![current] = FALSE]
      BY <2>2 DEF OnDestroy
    <3>. QED  BY <3>1, FieldSet DEF FieldTypes
  <2>3. CASE OnDestroyThrows
    BY <1>3, <2>3 DEF OnDestroyThrows
  <2>4. CASE OnStart \/ updateFileList(MainThread) \/ OnComplete \/ Unheard
    <3>1. UNCHANGED fields
      BY <2>4, ListingStep, ThreadsCall DEF OnStart, OnComplete, Unheard
    <3>. QED  BY <3>1 DEF FieldTypes
  <2>5. CASE OnNetwork
    <3>1. /\ UNCHANGED <<waiting, automatic, wifiOnly, timer, httppost>>
          /\ \/ UNCHANGED <<connectionReceiverRegistered, listening>>
             \/ \E s : unregisterConnectReceiver(s)
      BY <2>5 DEF OnNetwork, networkChanged
    <3>. QED  BY <3>1, NetworkFieldTypes DEF FieldTypes
  <2>6. CASE wifiPrefChanged
    <3>1. /\ UNCHANGED <<waiting, automatic, timer, httppost>>
          /\ wifiOnly' = [wifiOnly EXCEPT ![current] = wifiPref]
          /\ \/ UNCHANGED <<connectionReceiverRegistered, listening>>
             \/ unregisterConnectReceiver(current)
      BY <2>6 DEF wifiPrefChanged, networkChanged
    <3>. QED  BY <1>2, <3>1, NetworkFieldTypes, FieldSet DEF FieldTypes
  <2>7. CASE autoPrefChanged
    BY <1>2, <2>7, FieldSet DEF autoPrefChanged, FieldTypes
  <2>8. CASE KillTimer \/ NewTimer
    <3>1. /\ UNCHANGED <<waiting, automatic, wifiOnly, connectionReceiverRegistered, listening,
                         httppost>>
          /\ \E v \in {Cancelled, 0, timer[current]} : timer' = [timer EXCEPT ![current] = v]
      BY <2>8 DEF KillTimer, NewTimer
    <3>2. PICK v \in {Cancelled, 0, timer[current]} : timer' = [timer EXCEPT ![current] = v]
      BY <3>1
    <3>3. timer' \in [Instances -> {Cancelled} \cup Nat]
      <4>1. CASE current \in Instances
        BY <3>2, <4>1 DEF FieldTypes
      <4>2. CASE current \notin Instances
        BY <3>2, <4>2 DEF FieldTypes
      <4>. QED  BY <4>1, <4>2
    <3>. QED  BY <3>1, <3>3 DEF FieldTypes
  <2>. QED  BY <1>4, <2>1, <2>2, <2>3, <2>4, <2>5, <2>6, <2>7, <2>8 DEF Main
<1>5. ASSUME NEW s \in Instances, TimerFires(s)
      PROVE  FieldTypes'
  BY <1>5 DEF TimerFires, FieldTypes, Cancelled
<1>6. ASSUME NEW t \in Threads, Upload(t)
      PROVE  FieldTypes'
  <2>1. CASE NetworkThrows(t) \/ RemoveThrows(t) \/ TimerThrows(t)
    BY <1>3, <2>1 DEF NetworkThrows, RemoveThrows, TimerThrows
  <2>2. CASE Wait(t)
    BY <2>2, FieldSet DEF Wait, FieldTypes
  <2>3. CASE TimerStart(t)
    <3>1. owner[t] \in Instances
      BY <2>3 DEF TimerStart, Ends, At, ThreadTypes
    <3>2. timer[owner[t]] \in Nat
      BY <2>3, <3>1 DEF TimerStart, FieldTypes
    <3>3. /\ timer' = [timer EXCEPT ![owner[t]] = timer[owner[t]] + 1]
          /\ UNCHANGED <<waiting, automatic, wifiOnly, connectionReceiverRegistered, listening,
                         httppost>>
      BY <2>3 DEF TimerStart
    <3>. QED  BY <3>1, <3>2, <3>3 DEF FieldTypes
  <2>4. CASE Register(t)
    BY <2>4, FieldSet DEF Register, FieldTypes
  <2>5. CASE Registered(t)
    BY <2>5, FieldSet DEF Registered, FieldTypes
  <2>6. CASE \/ Check(t) \/ canUpload(t) \/ RemoveHead(t) \/ FileExists(t) \/ Execute(t)
             \/ Answer(t) \/ Rename(t) \/ Requeue(t) \/ GiveUp(t) \/ ClearMap(t)
             \/ ClearList(t) \/ Broadcast(t)
    <3>1. UNCHANGED fields
      BY <2>6 DEF Check, canUpload, RemoveHead, FileExists, Execute, Answer, Rename, Requeue,
         GiveUp, ClearMap, ClearList, Broadcast
    <3>. QED  BY <3>1 DEF FieldTypes
  <2>7. CASE NewPost(t) \/ SetEntity(t)
    <3>1. file[t] \in Files \cup {NoFile}
      BY ThreadsCall DEF ThreadTypes
    <3>. QED  BY <2>7, <3>1 DEF NewPost, SetEntity, FieldTypes
  <2>8. CASE updateFileList(t)
    BY <2>8, ListingStep, ThreadsCall DEF FieldTypes
  <2>. QED  BY <1>6, <2>1, <2>2, <2>3, <2>4, <2>5, <2>6, <2>7, <2>8 DEF Upload
<1>. QED  BY <1>1, <1>4, <1>5, <1>6 DEF Next

(* A caller moves; it may get a file, or other files to look at.           *)
LEMMA MovesTyped ==
  ASSUME ThreadTypes, NEW c \in Callers, NEW to, pc' = [pc EXCEPT ![c] = to],
         IF c = MainThread THEN to \in MainPlaces ELSE to \in Places /\ pc[c] # "none",
         file' \in [Callers -> Files \cup {NoFile}], rest' \in [Callers -> SUBSET Files],
         \A d \in Callers \ {c} : file'[d] = file[d],
         sent' \in [Threads -> Files \cup {NoFile}], ff' \in [Threads -> Files \cup {NoFile}],
         UNCHANGED owner, to \in FilePlaces => file'[c] \in Files
  PROVE  ThreadTypes'
<1>1. /\ pc' \in [Callers -> Places \cup MainPlaces]
      /\ \A d \in Callers : pc'[d] = IF d = c THEN to ELSE pc[d]
  BY DEF ThreadTypes
<1>2. \A t \in Threads : pc'[t] \in Places /\ (pc'[t] # "none" => owner'[t] \in Instances)
  BY <1>1, ThreadsCall DEF ThreadTypes
<1>3. pc'[MainThread] \in MainPlaces
  BY <1>1, ThreadsCall DEF ThreadTypes
<1>4. \A d \in Callers : pc'[d] \in FilePlaces => file'[d] \in Files
  BY <1>1 DEF ThreadTypes
<1>. QED  BY <1>1, <1>2, <1>3, <1>4 DEF ThreadTypes

LEMMA ListingTyped ==
  ASSUME ThreadTypes, DiskTypes, NEW c \in Callers, updateFileList(c)
  PROVE  ThreadTypes'
<1> USE DEF threads, At
<1>1. /\ sent' \in [Threads -> Files \cup {NoFile}] /\ ff' \in [Threads -> Files \cup {NoFile}]
      /\ UNCHANGED owner /\ pc[c] # "none"
  BY ListingStep DEF ThreadTypes, Listing
<1>2. ASSUME NEW to \in {"test", "put", "add", IF c = MainThread THEN "decide" ELSE "check"}
      PROVE  IF c = MainThread THEN to \in MainPlaces ELSE to \in Places
  BY <1>2 DEF MainPlaces, Places, Listing, InLoop
<1>3. /\ file \in [Callers -> Files \cup {NoFile}] /\ rest \in [Callers -> SUBSET Files]
      /\ recent \subseteq Files
      /\ "test" \notin FilePlaces /\ "check" \notin FilePlaces /\ "decide" \notin FilePlaces
  BY DEF ThreadTypes, DiskTypes, FilePlaces, InFile
<1>4. CASE ListFiles(c)
  <2>1. /\ pc' = [pc EXCEPT ![c] = "test"] /\ UNCHANGED file
        /\ rest' \in [Callers -> SUBSET Files]
    BY <1>3, <1>4 DEF ListFiles
  <2>. QED  BY <1>1, <1>2, <1>3, <2>1, MovesTyped
<1>5. CASE TestFile(c)
  <2>1. PICK f \in rest[c] :
          /\ pc' = [pc EXCEPT ![c] = IF Known(f) THEN "test" ELSE "put"]
          /\ rest' = [rest EXCEPT ![c] = @ \ {f}]
          /\ file' = [file EXCEPT ![c] = IF Known(f) THEN NoFile ELSE f]
    BY <1>5 DEF TestFile
  <2>2. /\ f \in Files /\ rest' \in [Callers -> SUBSET Files]
        /\ file' \in [Callers -> Files \cup {NoFile}]
        /\ \A d \in Callers \ {c} : file'[d] = file[d]
    BY <1>3, <2>1
  <2>3. CASE Known(f)
    BY <1>1, <1>2, <1>3, <2>1, <2>2, <2>3, MovesTyped
  <2>4. CASE ~Known(f)
    <3>1. pc' = [pc EXCEPT ![c] = "put"] /\ file'[c] \in Files
      BY <1>3, <2>1, <2>2, <2>4
    <3>. QED  BY <1>1, <1>2, <2>2, <3>1, MovesTyped
  <2>. QED  BY <2>3, <2>4
<1>6. CASE PutFile(c)
  <2>1. /\ pc' = [pc EXCEPT ![c] = "add"] /\ UNCHANGED <<file, rest>> /\ file[c] \in Files
    BY <1>6 DEF PutFile, ThreadTypes, FilePlaces
  <2>. QED  BY <1>1, <1>2, <1>3, <2>1, MovesTyped
<1>7. CASE AddToList(c)
  <2>1. /\ pc' = [pc EXCEPT ![c] = "test"] /\ UNCHANGED rest
        /\ file' \in [Callers -> Files \cup {NoFile}]
        /\ \A d \in Callers \ {c} : file'[d] = file[d]
    BY <1>3, <1>7 DEF AddToList
  <2>. QED  BY <1>1, <1>2, <1>3, <2>1, MovesTyped
<1>8. CASE FilesListed(c)
  <2>1. PICK to : to = IF c = MainThread THEN "decide" ELSE "check"
    OBVIOUS
  <2>2. pc' = [pc EXCEPT ![c] = to] /\ UNCHANGED <<file, rest>> /\ to \notin FilePlaces
    BY <1>3, <1>8, <2>1 DEF FilesListed
  <2>. QED  BY <1>1, <1>2, <1>3, <2>1, <2>2, MovesTyped
<1>. QED  BY <1>4, <1>5, <1>6, <1>7, <1>8 DEF updateFileList

LEMMA StartTyped ==
  ASSUME ThreadTypes, NEW s \in Instances, NEW m \in MainPlaces, uploadFiles(s, m),
         m \notin FilePlaces \/ m = pc[MainThread]
  PROVE  ThreadTypes'
<1> DEFINE t == CHOOSE u \in Threads : ~Running(u)
<1>1. /\ t \in Threads /\ UNCHANGED <<file, rest, sent, ff>>
      /\ pc' = [pc EXCEPT ![t] = "update", ![MainThread] = m] /\ owner' = [owner EXCEPT ![t] = s]
  BY DEF uploadFiles
<1> HIDE DEF t
<1>2. /\ "update" \in Places /\ "update" \notin FilePlaces
  BY DEF Places, Listing, FilePlaces, InFile
<1>3. /\ pc' \in [Callers -> Places \cup MainPlaces] /\ pc'[MainThread] = m
      /\ \A u \in Threads : pc'[u] = IF u = t THEN "update" ELSE pc[u]
  BY <1>1, <1>2, ThreadsCall DEF ThreadTypes
<1>4. \A u \in Threads : pc'[u] \in Places /\ (pc'[u] # "none" => owner'[u] \in Instances)
  BY <1>1, <1>2, <1>3 DEF ThreadTypes
<1>5. \A d \in Callers : pc'[d] \in FilePlaces => file'[d] \in Files
  BY <1>1, <1>2, <1>3 DEF ThreadTypes, Callers
<1>. QED  BY <1>1, <1>3, <1>4, <1>5 DEF ThreadTypes

LEMMA ThreadTypesKept ==
  ASSUME TypesInv, [Next]_vars
  PROVE  ThreadTypes'
<1> USE DEF threads, At
<1>1. /\ ThreadTypes /\ DiskTypes /\ FieldTypes /\ NoInstance \notin Instances
      /\ file \in [Callers -> Files \cup {NoFile}] /\ rest \in [Callers -> SUBSET Files]
      /\ sent \in [Threads -> Files \cup {NoFile}] /\ ff \in [Threads -> Files \cup {NoFile}]
  BY DEF TypesInv, NoInstance, Instances, ThreadTypes
<1>2. CASE UNCHANGED threads
  BY <1>1, <1>2 DEF ThreadTypes
<1>3. ASSUME NEW s \in Instances, uploadFiles(s, "none")
      PROVE  ThreadTypes'
  BY <1>1, <1>3, StartTyped DEF MainPlaces, FilePlaces, InFile
<1>4. ASSUME Die
      PROVE  ThreadTypes'
  <2>1. /\ "none" \in Places /\ "none" \in MainPlaces /\ "none" \notin FilePlaces
    BY DEF Places, MainPlaces, FilePlaces, InFile
  <2>. QED  BY <1>1, <1>4, <2>1, ThreadsCall DEF Die, ThreadTypes
<1>5. CASE World \/ UNCHANGED vars
  <2>1. UNCHANGED threads
    BY <1>5 DEF vars, World, StartService, NetChange, SetWifiOnly, SetAutomatic, AddFile,
       DeleteFile
  <2>. QED  BY <1>2, <2>1
<1>6. CASE Main
  <2>1. ASSUME NEW to \in MainPlaces \ FilePlaces, pc' = [pc EXCEPT ![MainThread] = to],
               UNCHANGED <<file, rest, owner, sent, ff>>
        PROVE  ThreadTypes'
    BY <1>1, <2>1, ThreadsCall, MovesTyped
  <2>2. {"none", "update", "ifWaiting", "newTimer"} \subseteq MainPlaces \ FilePlaces
    BY DEF MainPlaces, FilePlaces, InFile, Listing
  <2>3. CASE OnStart
    BY <2>1, <2>2, <2>3 DEF OnStart
  <2>4. CASE updateFileList(MainThread)
    BY <1>1, <2>4, ListingTyped, ThreadsCall
  <2>5. CASE Decide
    <3>1. current \in Instances
      BY <2>5, InstanceTypes, UploaderAssumption
      DEF Decide, TypesInv, AwakeInv, MainInv, Running, InboxInv, InstanceInv, NoInstance,
          Instances
    <3>2. CASE ReturnsEarly
      BY <2>1, <2>2, <2>5, <3>2 DEF Decide
    <3>3. CASE ~ReturnsEarly
      BY <1>3, <2>5, <3>1, <3>3 DEF Decide
    <3>. QED  BY <3>2, <3>3
  <2>6. CASE OnDestroyThrows
    BY <1>4, <2>6 DEF OnDestroyThrows
  <2>7. CASE OnDestroy \/ OnComplete \/ Unheard
    <3>1. UNCHANGED threads
      BY <2>7 DEF OnDestroy, OnComplete, Unheard
    <3>. QED  BY <1>2, <3>1
  <2>8. CASE OnNetwork
    <3>1. UNCHANGED threads \/ uploadFiles(Head(inbox)[2], "none")
      BY <2>8 DEF OnNetwork, networkChanged
    <3>2. Head(inbox)[2] \in Instances
      <4>1. Head(inbox) \in Messages /\ Head(inbox)[1] = "net"
        BY <2>8 DEF OnNetwork, Message, TypesInv, QueueTypes
      <4>. QED  BY <4>1, MessageTypes
    <3>. QED  BY <1>2, <1>3, <3>1, <3>2
  <2>9. CASE wifiPrefChanged
    <3>1. UNCHANGED threads \/ uploadFiles(current, "none")
      BY <2>9 DEF wifiPrefChanged, networkChanged
    <3>2. current \in Instances
      BY <2>9, StartedInstance DEF wifiPrefChanged, TypesInv, AwakeInv, InboxInv
    <3>. QED  BY <1>2, <1>3, <3>1, <3>2
  <2>10. CASE autoPrefChanged \/ KillTimer \/ NewTimer
    BY <2>1, <2>2, <2>10 DEF autoPrefChanged, KillTimer, NewTimer
  <2>. QED  BY <1>6, <2>3, <2>4, <2>5, <2>6, <2>7, <2>8, <2>9, <2>10 DEF Main
<1>7. ASSUME NEW s \in Instances, TimerFires(s)
      PROVE  ThreadTypes'
  <2>1. uploadFiles(s, pc[MainThread]) /\ pc[MainThread] \in MainPlaces
    BY <1>1, <1>7 DEF TimerFires, ThreadTypes
  <2>. QED  BY <1>1, <2>1, StartTyped
<1>8. ASSUME NEW t \in Threads, Upload(t)
      PROVE  ThreadTypes'
  <2>1. t \in Callers /\ t # MainThread
    BY ThreadsCall
  <2>2. ASSUME NEW from, Ends(t, from)
        PROVE  ThreadTypes'
    <3>1. "none" \in Places /\ "none" \notin FilePlaces
      BY DEF Places, FilePlaces, InFile
    <3>2. /\ pc' \in [Callers -> Places \cup MainPlaces]
          /\ \A d \in Callers : pc'[d] = IF d = t THEN "none" ELSE pc[d]
          /\ \A d \in Callers \ {t} : file'[d] = file[d]
          /\ \A u \in Threads \ {t} : owner'[u] = owner[u]
          /\ file' \in [Callers -> Files \cup {NoFile}] /\ UNCHANGED rest
          /\ sent' \in [Threads -> Files \cup {NoFile}] /\ ff' \in [Threads -> Files \cup {NoFile}]
          /\ owner' \in [Threads -> Instances \cup {NoInstance}]
      BY <1>1, <2>1, <2>2, <3>1 DEF Ends, ThreadTypes
    <3>. QED  BY <1>1, <2>1, <3>1, <3>2, ThreadsCall DEF ThreadTypes
  <2>3. CASE NetworkThrows(t) \/ RemoveThrows(t) \/ TimerThrows(t)
    BY <1>4, <2>3 DEF NetworkThrows, RemoveThrows, TimerThrows
  <2>4. CASE TimerStart(t) \/ Registered(t) \/ Broadcast(t)
    BY <2>2, <2>4 DEF TimerStart, Registered, Broadcast
  <2>5. CASE updateFileList(t)
    BY <1>1, <2>1, <2>5, ListingTyped
  <2>6. ASSUME NEW from, NEW to \in Places, At(t, from, to), from # "none",
               UNCHANGED <<owner, file, rest>>,
               sent' \in [Threads -> Files \cup {NoFile}], ff' \in [Threads -> Files \cup {NoFile}],
               to \in FilePlaces => from \in FilePlaces
        PROVE  ThreadTypes'
    <3>1. to \in FilePlaces => file'[t] \in Files
      BY <1>1, <2>1, <2>6 DEF ThreadTypes
    <3>. QED  BY <1>1, <2>1, <2>6, <3>1, MovesTyped
  <2>7. /\ {"check", "active", "state", "type", "remove", "offline", "failing", "waitTimer",
            "schedule", "waitNet", "register", "registered", "clearMap", "clearList",
            "broadcast"} \subseteq Places \ FilePlaces
        /\ InFile \subseteq Places \cap FilePlaces
    BY DEF Places, FilePlaces, InFile, InLoop
  <2>8. CASE Check(t) \/ canUpload(t) \/ GiveUp(t) \/ Wait(t) \/ Register(t)
    BY <1>1, <2>6, <2>7, <2>8 DEF Check, canUpload, GiveUp, Wait, Register
  <2>9. CASE ClearMap(t) \/ ClearList(t)
    BY <1>1, <2>6, <2>7, <2>9 DEF ClearMap, ClearList
  <2>10. CASE RemoveHead(t)
    <3>1. Head(fileList) \in Files
      BY <2>10 DEF RemoveHead, TypesInv, QueueTypes
    <3>2. /\ pc' = [pc EXCEPT ![t] = "upload"] /\ pc[t] # "none"
          /\ file' = [file EXCEPT ![t] = Head(fileList)] /\ UNCHANGED <<owner, rest, sent, ff>>
      BY <2>10 DEF RemoveHead
    <3>3. /\ file' \in [Callers -> Files \cup {NoFile}] /\ file'[t] \in Files
          /\ \A d \in Callers \ {t} : file'[d] = file[d]
      BY <1>1, <2>1, <3>1, <3>2
    <3>4. "upload" \in Places
      BY <2>7 DEF InFile
    <3>. QED  BY <1>1, <2>1, <3>2, <3>3, <3>4, MovesTyped
  <2>11. CASE NewPost(t) \/ FileExists(t) \/ SetEntity(t) \/ Answer(t) \/ Rename(t)
    BY <1>1, <2>6, <2>7, <2>11 DEF NewPost, FileExists, SetEntity, Answer, Rename, InFile
  <2>12. CASE Execute(t)
    <3>1. httppost[owner[t]] \in Files \cup {NoFile}
      BY <1>1, <2>12 DEF Execute, FieldTypes, ThreadTypes
    <3>2. sent' \in [Threads -> Files \cup {NoFile}]
      BY <1>1, <2>12, <3>1 DEF Execute
    <3>. QED  BY <1>1, <2>6, <2>7, <2>12, <3>2 DEF Execute, InFile
  <2>13. CASE Requeue(t)
    <3>1. ff' \in [Threads -> Files \cup {NoFile}]
      BY <1>1, <2>1, <2>13 DEF Requeue
    <3>. QED  BY <1>1, <2>6, <2>7, <2>13, <3>1 DEF Requeue, InFile
  <2>. QED
    BY <1>8, <2>3, <2>4, <2>5, <2>8, <2>9, <2>10, <2>11, <2>12, <2>13 DEF Upload
<1>. QED  BY <1>5, <1>6, <1>7, <1>8 DEF Next

LEMMA TypesAtFirst == Init => TypesInv
<1> SUFFICES ASSUME Init PROVE TypesInv
  OBVIOUS
<1>1. DiskTypes
  BY UploaderAssumption DEF Init, DiskTypes
<1>2. QueueTypes
  <2>1. <<>> \in Seq(Messages) /\ <<>> \in Seq(Files)
    OBVIOUS
  <2>. QED  BY <2>1 DEF Init, QueueTypes
<1>3. FieldTypes
  BY DEF Init, FieldTypes
<1>4. ThreadTypes
  BY ThreadsCall DEF Init, ThreadTypes, Places, MainPlaces, FilePlaces, InFile
<1>. QED  BY <1>1, <1>2, <1>3, <1>4, AwakeAtFirst DEF TypesInv

LEMMA TypesStay ==
  ASSUME TypesInv, [Next]_vars
  PROVE  TypesInv'
BY DiskTypesKept, QueueTypesKept, FieldTypesKept, ThreadTypesKept, AwakeStays DEF TypesInv

(* The types, for any number of upload threads: a thread that runs belongs *)
(* to an instance of the service, the queue holds files only, and the      *)
(* instances are counted by the calls of startService.                     *)
THEOREM TypeCorrect == Spec => []TypeOK
<1>1. Init => TypesInv
  BY TypesAtFirst
<1>2. TypesInv /\ [Next]_vars => TypesInv'
  BY TypesStay
<1>3. TypesInv => TypeOK
  BY UploaderAssumption
  DEF TypesInv, DiskTypes, QueueTypes, FieldTypes, ThreadTypes, AwakeInv, AwakeTypes, InboxInv,
      InstanceInv, TypeOK, Instances, NoInstance
<1>. QED  BY <1>1, <1>2, <1>3, PTL DEF Spec

-------------------------------------------------------------------------------
(* Manual uploads: the user never turns the automatic ones on, so that     *)
(* nothing waits for a timer or for the network.                           *)
Manual == Autos = {FALSE}

(* Every page comes from the server's own script.                          *)
OwnAnswers == \A f \in Files : "otherPage" \notin Answers[f]

WaitPlaces == {"waitTimer", "schedule", "waitNet", "register", "registered"}

ManualFields ==
  \A s \in Instances : automatic[s] = FALSE /\ listening[s] = FALSE /\ timer[s] \in {0, Cancelled}

ManualPlaces ==
  /\ \A t \in Threads : pc[t] \notin WaitPlaces
  /\ pc[MainThread] \notin {"ifWaiting", "newTimer"}

ManualTypes ==
  /\ autoPref = FALSE /\ ManualFields /\ ManualPlaces
  /\ \A i \in DOMAIN inbox : inbox[i][1] \notin {"net", "autoChanged"}

(* A service that has started has one upload thread, or one message that   *)
(* leads to its end; one that has not has neither.                         *)
RunInv ==
  /\ ~started => ~(\E t \in Threads : Running(t)) /\ ~(\E i \in DOMAIN inbox : Ending(i))
  /\ \A t \in Threads : Running(t) =>
       /\ owner[t] = current
       /\ \A u \in Threads : Running(u) => u = t
       /\ \A i \in DOMAIN inbox : ~Ending(i)
  /\ \A i, j \in DOMAIN inbox : Ending(i) /\ Ending(j) => i = j

(* One caller at a time is in the loop of updateFileList.                  *)
Inside(c) == pc[c] \in {"test", "put", "add"}
ListingInv == \A c, d \in Callers : Inside(c) /\ Inside(d) => c = d

(* What is in the map and not yet in the list; a list without repetitions, *)
(* but for the files of x.                                                 *)
Adding == {file[c] : c \in {d \in Callers : pc[d] = "add"}}
Once(l, x) == \A i, j \in DOMAIN l : l[i] = l[j] /\ l[i] \notin x => i = j

(* Unless a thread has just cleared the map, the queue is as QueuedOnce    *)
(* says; unless one is at work, no file is in the map alone.               *)
FilledInv ==
  /\ Once(fileList, crossed) /\ ToSet(fileList) \subseteq fileMap \cup crossed
  /\ ToSet(fileList) \cap Adding \subseteq crossed
  /\ \A t \in Threads : pc[t] \in InFile =>
       /\ file[t] \in fileMap \cup crossed
       /\ file[t] \in ToSet(fileList) \cup Adding => file[t] \in crossed

QueueInv ==
  /\ \A c \in Callers : pc[c] = "put" => file[c] \notin fileMap
  /\ Adding \subseteq fileMap \cup crossed
  /\ (\A t \in Threads : pc[t] # "clearList") => FilledInv
  /\ (\A t \in Threads : pc[t] \in {"none", "clearList", "broadcast"}) =>
       fileMap \ crossed \subseteq ToSet(fileList) \cup Adding

ManualInv == TypesInv /\ ManualTypes /\ RunInv /\ ListingInv /\ QueueInv

LEMMA NoNetMessages ==
  ASSUME TypesInv, ManualTypes, NEW n
  PROVE  inbox \o NetMessages(Instances, n) = inbox
<1>1. {<<"net", s, n # "none">> : s \in {r \in Instances : listening[r]}} = {}
  BY DEF ManualTypes, ManualFields
<1>2. SetToSeq({}) = <<>>
  <2>1. Cardinality({}) = 0
    BY FS_EmptySet
  <2>2. <<>> \in [1 .. 0 -> {}] /\ IsInjective(<<>>)
    BY DEF IsInjective
  <2>3. \A f \in [1 .. 0 -> {}] : f = <<>>
    OBVIOUS
  <2>. QED  BY <2>1, <2>2, <2>3 DEF SetToSeq
<1>3. NetMessages(Instances, n) = <<>>
  BY <1>1, <1>2 DEF NetMessages
<1>4. inbox \o <<>> = inbox
  BY DEF TypesInv, QueueTypes
<1>. QED  BY <1>3, <1>4

(* A thread that runs is alone, and its service has been started.          *)
LEMMA Alone ==
  ASSUME TypesInv, RunInv, NEW t \in Threads, pc[t] # "none"
  PROVE  /\ started /\ owner[t] = current /\ current \in Instances
         /\ \A u \in Threads : u # t => pc[u] = "none"
<1>1. started /\ owner[t] = current /\ \A u \in Threads : u # t => pc[u] = "none"
  BY DEF RunInv, Running
<1>. QED  BY <1>1, StartedInstance DEF TypesInv, AwakeInv, InboxInv

(* The steps of the main thread that remain.                               *)
WifiOnlyHandled ==
  /\ Message("wifiOnlyChanged") /\ Done
  /\ UNCHANGED <<autoPref, starts, disk, statics, current, instances, automatic, listening,
                 timer, httppost, threads>>

LEMMA ManualMain ==
  ASSUME TypesInv, ManualTypes, Main
  PROVE  \/ OnStart \/ updateFileList(MainThread) \/ Decide \/ OnDestroy \/ Die \/ OnComplete
         \/ WifiOnlyHandled
<1>1. ~Message("net") /\ ~Message("autoChanged")
  BY Popped DEF Message, TypesInv, QueueTypes, ManualTypes
<1>2. ~(OnNetwork \/ autoPrefChanged \/ KillTimer \/ NewTimer)
  BY <1>1 DEF OnNetwork, autoPrefChanged, KillTimer, NewTimer, At, ManualTypes, ManualPlaces
<1>3. CASE wifiPrefChanged
  <2>1. automatic[current] = FALSE
    BY <1>3, StartedInstance
    DEF wifiPrefChanged, ManualTypes, ManualFields, TypesInv, AwakeInv, InboxInv
  <2>. QED  BY <1>3, <2>1 DEF wifiPrefChanged, WifiOnlyHandled, environment
<1>4. CASE Unheard
  BY <1>1, <1>4 DEF Unheard, WifiOnlyHandled, environment, fields
<1>. QED  BY <1>2, <1>3, <1>4 DEF Main, OnDestroyThrows

(* The steps of an upload thread that remain.                              *)
ManualUpload(t) ==
  \/ updateFileList(t) \/ Check(t) \/ canUpload(t) \/ RemoveHead(t) \/ NewPost(t)
  \/ FileExists(t) \/ SetEntity(t) \/ Execute(t) \/ Answer(t) \/ Rename(t) \/ Requeue(t)
  \/ GiveUp(t) \/ ClearMap(t) \/ ClearList(t) \/ Broadcast(t)

LEMMA ManualThread ==
  ASSUME TypesInv, ManualTypes, NEW t \in Threads, Upload(t)
  PROVE  Die \/ ManualUpload(t)
<1>1. ~(TimerStart(t) \/ TimerThrows(t) \/ Wait(t) \/ Register(t) \/ Registered(t))
  BY DEF TimerStart, TimerThrows, Wait, Register, Registered, At, Ends, ManualTypes,
     ManualPlaces, WaitPlaces
<1>. QED  BY <1>1 DEF Upload, NetworkThrows, RemoveThrows, ManualUpload

LEMMA NoTimer ==
  ASSUME ManualTypes, NEW s \in Instances
  PROVE  ~TimerFires(s)
BY DEF TimerFires, ManualTypes, ManualFields, Cancelled

(* No new message but those that stopService, the broadcasts and the user  *)
(* send.                                                                   *)
LEMMA ManualInbox ==
  ASSUME TypesInv, ManualTypes, Manual, World \/ Main \/ \E t \in Threads : Upload(t)
  PROVE  /\ \/ inbox' = inbox \/ inbox' = <<>>
            \/ inbox # <<>> /\ inbox' = Tail(inbox)
            \/ \E k \in {"start", "wifiOnlyChanged", "complete"} : inbox' = Append(inbox, <<k>>)
            \/ inbox # <<>> /\ inbox' = Append(Tail(inbox), <<"destroy">>)
         /\ autoPref' = FALSE
<1>1. inbox \in Seq(Messages) /\ (inbox # <<>> => Tail(inbox) \in Seq(Messages))
  BY DEF TypesInv, QueueTypes
<1>2. <<"destroy">> \in Messages
  BY MessageTypes
<1>3. CASE World
  <2>1. ~(\E b \in Autos : SetAutomatic(b))
    BY DEF SetAutomatic, Manual, ManualTypes
  <2>. QED  BY <1>3, <2>1, NoNetMessages DEF World, StartService, NetChange, SetWifiOnly, AddFile,
            DeleteFile, Change, android, ManualTypes
<1>4. CASE Die
  BY <1>4 DEF Die, environment, ManualTypes
<1>5. CASE Main
  <2>1. CASE OnComplete
    <3>1. inbox # <<>> /\ UNCHANGED autoPref
      BY <2>1 DEF OnComplete, Message, environment
    <3>2. \/ inbox' = Tail(inbox) \/ inbox' = Tail(inbox) \o <<>>
          \/ inbox' = Tail(inbox) \o <<<<"destroy">>>>
      BY <2>1 DEF OnComplete, Done, stopService
    <3>3. /\ Tail(inbox) \o <<>> = Tail(inbox)
          /\ Tail(inbox) \o <<<<"destroy">>>> = Append(Tail(inbox), <<"destroy">>)
      BY <1>1, <1>2, <3>1
    <3>. QED  BY <3>1, <3>2, <3>3 DEF ManualTypes
  <2>2. CASE updateFileList(MainThread)
    BY <2>2, ListingStep, ThreadsCall DEF environment, android, ManualTypes
  <2>3. CASE OnStart \/ Decide \/ OnDestroy \/ WifiOnlyHandled
    BY <2>3 DEF OnStart, Decide, OnDestroy, WifiOnlyHandled, Message, Done, environment, android,
       ManualTypes
  <2>. QED  BY <1>4, <1>5, <2>1, <2>2, <2>3, ManualMain
<1>6. ASSUME NEW t \in Threads, Upload(t)
      PROVE  (inbox' = inbox \/ inbox' = <<>> \/ inbox' = Append(inbox, <<"complete">>))
             /\ autoPref' = FALSE
  <2>1. CASE updateFileList(t)
    BY <2>1, ListingStep, ThreadsCall DEF environment, android, ManualTypes
  <2>2. CASE ManualUpload(t) /\ ~updateFileList(t)
    BY <2>2 DEF ManualUpload, Check, canUpload, RemoveHead, NewPost, FileExists, SetEntity,
       Execute, Answer, Rename, Requeue, GiveUp, ClearMap, ClearList, Broadcast, environment,
       android, ManualTypes
  <2>. QED  BY <1>4, <1>6, <2>1, <2>2, ManualThread DEF Die
<1>. QED  BY <1>3, <1>5, <1>6

LEMMA ManualTypesKept ==
  ASSUME TypesInv, ManualTypes, Manual, RunInv, [Next]_vars
  PROVE  ManualTypes'
<1> USE DEF statics, fields, threads, android, environment
<1>1. CASE UNCHANGED vars
  BY <1>1 DEF vars, ManualTypes, ManualFields, ManualPlaces
<1>2. ASSUME Next
      PROVE  \A i \in DOMAIN inbox' : inbox'[i][1] \notin {"net", "autoChanged"}
  <2>1. World \/ Main \/ \E t \in Threads : Upload(t)
    BY <1>2, NoTimer DEF Next
  <2>2. inbox \in Seq(Messages) /\ \A k \in {"start", "wifiOnlyChanged", "complete", "destroy"} :
          <<k>> \in Messages /\ <<k>>[1] = k
    BY MessageTypes DEF TypesInv, QueueTypes
  <2>3. CASE inbox' = inbox \/ inbox' = <<>>
    BY <2>3 DEF ManualTypes
  <2>4. ASSUME inbox # <<>>
        PROVE  Tail(inbox) \in Seq(Messages)
               /\ \A i \in DOMAIN Tail(inbox) : Tail(inbox)[i][1] \notin {"net", "autoChanged"}
    BY <2>2, <2>4, PopPlaces, Popped DEF ManualTypes
  <2>5. ASSUME NEW k \in {"start", "wifiOnlyChanged", "complete"}, inbox' = Append(inbox, <<k>>)
        PROVE  \A i \in DOMAIN inbox' : inbox'[i][1] \notin {"net", "autoChanged"}
    BY <2>2, <2>5, PushPlaces DEF ManualTypes
  <2>6. CASE inbox # <<>> /\ inbox' = Append(Tail(inbox), <<"destroy">>)
    BY <2>2, <2>4, <2>6, PushPlaces
  <2>. QED  BY <2>1, <2>3, <2>4, <2>5, <2>6, ManualInbox
<1>3. ASSUME Next
      PROVE  autoPref' = FALSE
  BY <1>3, NoTimer, ManualInbox DEF Next
<1>4. ManualFields /\ ManualPlaces /\ FieldTypes /\ ThreadTypes
  BY DEF ManualTypes, TypesInv
<1>10. ASSUME Next, ManualFields', ManualPlaces'
       PROVE  ManualTypes'
  BY <1>2, <1>3, <1>10 DEF ManualTypes
<1>11. World \/ Main \/ (\E t \in Threads : Upload(t)) => Next
  BY DEF Next
<1>5. CASE World
  <2>1. UNCHANGED <<fields, threads>>
    BY <1>5 DEF World, StartService, NetChange, SetWifiOnly, SetAutomatic, AddFile, DeleteFile
  <2>. QED  BY <1>4, <1>5, <1>10, <1>11, <2>1 DEF ManualFields, ManualPlaces
<1>6. Die => ManualFields' /\ ManualPlaces'
  BY <1>4, ThreadsCall DEF Die, WaitPlaces, ManualFields, ManualPlaces
<1>7. ASSUME NEW c \in Callers, updateFileList(c)
      PROVE  ManualFields' /\ ManualPlaces'
  <2>1. PICK to : /\ to \in {"test", "put", "add", "decide", "check"}
                  /\ pc' = [pc EXCEPT ![c] = to]
    BY <1>7, ListingStep
  <2>2. UNCHANGED <<automatic, listening, timer>>
    BY <1>7, ListingStep
  <2>. QED  BY <1>4, <2>1, <2>2, ThreadsCall DEF ThreadTypes, WaitPlaces, ManualFields, ManualPlaces
<1>8. CASE Main
  <2> SUFFICES ManualFields' /\ ManualPlaces'
    BY <1>8, <1>10, <1>11
  <2>1. CASE OnStart
    BY <1>4, <2>1, ThreadsCall DEF OnStart, At, ThreadTypes, WaitPlaces, ManualFields, ManualPlaces
  <2>2. CASE Decide
    <3>1. CASE ReturnsEarly
      BY <1>4, <2>2, <3>1, ThreadsCall
      DEF Decide, At, ThreadTypes, WaitPlaces, ManualFields, ManualPlaces
    <3>2. CASE ~ReturnsEarly
      <4>1. /\ automatic' = [automatic EXCEPT ![current] = autoPref] /\ autoPref = FALSE
            /\ UNCHANGED <<listening, timer>> /\ uploadFiles(current, "none")
        BY <2>2, <3>2 DEF Decide, ManualTypes
      <4>2. ManualFields'
        BY <1>4, <4>1 DEF FieldTypes, ManualFields
      <4>3. ManualPlaces'
        BY <1>4, <4>1, ThreadsCall DEF uploadFiles, ThreadTypes, WaitPlaces, ManualPlaces
      <4>. QED  BY <4>2, <4>3
    <3>. QED  BY <3>1, <3>2
  <2>3. CASE OnDestroy
    BY <1>4, <2>3 DEF OnDestroy, FieldTypes, ManualFields, ManualPlaces
  <2>4. CASE OnComplete \/ WifiOnlyHandled
    BY <1>4, <2>4 DEF OnComplete, WifiOnlyHandled, ManualFields, ManualPlaces
  <2>. QED  BY <1>6, <1>7, <1>8, <2>1, <2>2, <2>3, <2>4, ManualMain, ThreadsCall
<1>9. ASSUME NEW t \in Threads, Upload(t)
      PROVE  ManualTypes'
  <2>1. CASE updateFileList(t)
    BY <1>7, <1>9, <1>10, <1>11, <2>1, ThreadsCall
  <2>2. CASE ManualUpload(t) /\ ~updateFileList(t)
    <3>1. UNCHANGED <<automatic, listening, timer>>
      BY <2>2 DEF ManualUpload, Check, canUpload, RemoveHead, NewPost, FileExists, SetEntity,
         Execute, Answer, Rename, Requeue, GiveUp, ClearMap, ClearList, Broadcast
    <3>2. \E from, to : At(t, from, to) /\ to \notin WaitPlaces
      <4>1. CASE GiveUp(t)
        <5>1. automatic[owner[t]] = FALSE
          <6>1. pc[t] # "none"
            BY <4>1 DEF GiveUp, At
          <6>. QED  BY <6>1, Alone DEF ManualTypes, ManualFields
        <5>. QED  BY <4>1, <5>1 DEF GiveUp, WaitPlaces
      <4>. QED  BY <2>2, <4>1 DEF ManualUpload, Check, canUpload, RemoveHead, NewPost, FileExists,
                SetEntity, Execute, Answer, Rename, Requeue, ClearMap, ClearList, Broadcast, Ends,
                WaitPlaces
    <3>3. ManualFields' /\ ManualPlaces'
      BY <1>4, <3>1, <3>2, ThreadsCall DEF At, ThreadTypes, ManualFields, ManualPlaces
    <3>. QED  BY <1>9, <1>10, <1>11, <3>3
  <2>. QED  BY <1>6, <1>9, <1>10, <1>11, <2>1, <2>2, ManualThread
<1>. QED  BY <1>1, <1>5, <1>8, <1>9, NoTimer DEF Next

(* No message that leads to the end of the service is new.                 *)
EndsKept ==
  /\ \A i \in DOMAIN inbox' : Ending(i)' => \E j \in DOMAIN inbox : Ending(j)
  /\ \A i, j \in DOMAIN inbox' : Ending(i)' /\ Ending(j)' => i = j

LEMMA EndsPushed ==
  ASSUME TypesInv, RunInv, NEW m \in Messages, m[1] \notin {"complete", "destroy"},
         inbox' = Append(inbox, m)
  PROVE  EndsKept
<1>1. \A i \in DOMAIN inbox' : Ending(i)' => i \in DOMAIN inbox /\ Ending(i)
  BY PushPlaces DEF TypesInv, QueueTypes, Ending
<1>. QED  BY <1>1 DEF EndsKept, RunInv

LEMMA EndsPopped ==
  ASSUME TypesInv, RunInv, inbox # <<>>, inbox' = Tail(inbox)
  PROVE  EndsKept /\ (Ending(1) => \A i \in DOMAIN inbox' : ~Ending(i)')
<1>1. /\ \A i \in DOMAIN inbox' : i \in Nat /\ i + 1 # 1 /\ i + 1 \in DOMAIN inbox
                                  /\ inbox'[i] = inbox[i + 1]
      /\ 1 \in DOMAIN inbox
  BY PopPlaces DEF TypesInv, QueueTypes
<1>2. \A i \in DOMAIN inbox' : Ending(i)' => i + 1 \in DOMAIN inbox /\ Ending(i + 1)
  BY <1>1 DEF Ending
<1>3. \A i, j \in DOMAIN inbox' : Ending(i)' /\ Ending(j)' => i = j
  BY <1>1, <1>2 DEF RunInv
<1>4. Ending(1) => \A i \in DOMAIN inbox' : ~Ending(i)'
  BY <1>1, <1>2 DEF RunInv
<1>. QED  BY <1>2, <1>3, <1>4 DEF EndsKept

LEMMA RunSame ==
  ASSUME RunInv, EndsKept, started' = started, started => current' = current,
         \A t \in Threads : pc'[t] # "none" => pc[t] # "none" /\ owner'[t] = owner[t]
  PROVE  RunInv'
<1>1. \A t \in Threads : Running(t)' => Running(t) /\ owner'[t] = owner[t]
  BY DEF Running
<1>. QED  BY <1>1 DEF RunInv, EndsKept

LEMMA RunKept ==
  ASSUME TypesInv, ManualTypes, Manual, RunInv, [Next]_vars
  PROVE  RunInv'
<1> USE DEF statics, fields, threads, android, environment
<1>1. /\ UNCHANGED inbox => EndsKept
      /\ inbox \in Seq(Messages) /\ ThreadTypes
  BY DEF EndsKept, RunInv, Ending, TypesInv, QueueTypes
<1>2. \A k \in {"start", "wifiOnlyChanged", "complete", "destroy"} :
        <<k>> \in Messages /\ <<k>>[1] = k
  BY MessageTypes
<1>3. CASE UNCHANGED vars
  BY <1>1, <1>3, RunSame DEF vars
<1>4. CASE World
  <2>1. UNCHANGED <<threads, started, current>>
    BY <1>4 DEF World, StartService, NetChange, SetWifiOnly, SetAutomatic, AddFile, DeleteFile
  <2>2. UNCHANGED inbox \/ \E k \in {"start", "wifiOnlyChanged"} : inbox' = Append(inbox, <<k>>)
    <3>1. ~(\E b \in Autos : SetAutomatic(b))
      BY DEF SetAutomatic, Manual, ManualTypes
    <3>. QED  BY <1>4, <3>1, NoNetMessages
              DEF World, StartService, NetChange, SetWifiOnly, AddFile, DeleteFile
  <2>3. EndsKept
    BY <1>1, <1>2, <2>2, EndsPushed
  <2>. QED  BY <2>1, <2>3, RunSame
<1>5. ASSUME Die
      PROVE  RunInv'
  BY <1>5, ThreadsCall DEF Die, RunInv, Running
<1>6. ASSUME NEW c \in Callers, NEW to, pc' = [pc EXCEPT ![c] = to],
             c = MainThread \/ pc[c] # "none",
             UNCHANGED <<inbox, started, current, owner>>
      PROVE  RunInv'
  <2>1. \A t \in Threads : pc'[t] # "none" => pc[t] # "none"
    BY <1>1, <1>6, ThreadsCall DEF ThreadTypes
  <2>. QED  BY <1>1, <1>6, <2>1, RunSame
<1>7. ASSUME NEW c \in Callers, updateFileList(c)
      PROVE  RunInv'
  <2>1. PICK to : pc' = [pc EXCEPT ![c] = to]
    BY <1>7, ListingStep
  <2>2. pc[c] # "none" /\ UNCHANGED <<inbox, started, current, owner>>
    BY <1>7, ListingStep DEF Listing
  <2>. QED  BY <1>6, <2>1, <2>2
<1>8. CASE Main
  <2>1. CASE OnStart
    <3>1. EndsKept
      BY <2>1, EndsPopped DEF OnStart, Message, Done
    <3>2. UNCHANGED <<started, owner>> /\ pc' = [pc EXCEPT ![MainThread] = "update"]
      BY <2>1 DEF OnStart, At
    <3>3. \A t \in Threads : pc'[t] = pc[t]
      BY <1>1, <3>2, ThreadsCall DEF ThreadTypes
    <3>4. started => current' = current
      BY <2>1, StartedInstance
      DEF OnStart, TypesInv, AwakeInv, InboxInv, NoInstance, Instances
    <3>. QED  BY <3>1, <3>2, <3>3, <3>4, RunSame
  <2>2. CASE Decide
    <3>1. CASE ReturnsEarly
      BY <1>6, <2>2, <3>1, ThreadsCall DEF Decide, At
    <3>2. CASE ~ReturnsEarly
      <4>1. /\ ~started /\ started' = TRUE /\ UNCHANGED <<inbox, current>>
            /\ uploadFiles(current, "none")
        BY <2>2, <3>2 DEF Decide, ReturnsEarly
      <4>2. /\ \A u \in Threads : pc[u] = "none" /\ \A i \in DOMAIN inbox : ~Ending(i)
        BY <4>1 DEF RunInv, Running
      <4>3. PICK t \in Threads :
              /\ pc' = [pc EXCEPT ![t] = "update", ![MainThread] = "none"]
              /\ owner' = [owner EXCEPT ![t] = current]
        BY <4>1 DEF uploadFiles
      <4>4. /\ \A u \in Threads : u # t => pc'[u] = "none"
            /\ owner'[t] = current
        BY <1>1, <4>2, <4>3, ThreadsCall DEF ThreadTypes
      <4>5. \A u \in Threads : Running(u)' => u = t
        BY <4>4 DEF Running
      <4>6. \A i \in DOMAIN inbox' : ~Ending(i)'
        BY <4>1, <4>2 DEF Ending
      <4>. QED  BY <4>1, <4>4, <4>5, <4>6 DEF RunInv
    <3>. QED  BY <3>1, <3>2
  <2>3. CASE OnDestroy
    <3>1. /\ inbox # <<>> /\ inbox' = Tail(inbox) /\ inbox[1][1] = "destroy" /\ 1 \in DOMAIN inbox
          /\ started' = FALSE /\ UNCHANGED threads
      BY <1>1, <2>3, Popped, PopPlaces DEF OnDestroy, Message, Done
    <3>2. Ending(1) /\ \A t \in Threads : ~Running(t)
      BY <3>1 DEF RunInv, Ending
    <3>3. \A i \in DOMAIN inbox' : ~Ending(i)'
      BY <3>1, <3>2, EndsPopped
    <3>. QED  BY <3>1, <3>2, <3>3 DEF RunInv, Running
  <2>4. CASE OnComplete
    <3>1. /\ inbox # <<>> /\ inbox[1][1] = "complete" /\ 1 \in DOMAIN inbox
          /\ UNCHANGED <<started, current, threads>> /\ Tail(inbox) \in Seq(Messages)
      BY <1>1, <2>4, Popped, PopPlaces DEF OnComplete, Message
    <3>2. Ending(1) /\ started /\ (\A t \in Threads : ~Running(t))
      BY <3>1 DEF RunInv, Ending
    <3>3. up
      <4>1. ASSUME ~up PROVE FALSE
        <5>1. PICK i \in DOMAIN inbox : inbox[i][1] = "destroy"
          BY <3>2, <4>1 DEF TypesInv, AwakeInv, InboxInv, EndsInv
        <5>2. i = 1
          BY <3>1, <3>2, <5>1 DEF RunInv, Ending
        <5>. QED  BY <3>1, <5>1, <5>2
      <4>. QED  BY <4>1
    <3>4. inbox' = Append(Tail(inbox), <<"destroy">>)
      <4>1. inbox' = Tail(inbox) \o <<<<"destroy">>>>
        BY <2>4, <3>2, <3>3 DEF OnComplete, stopService
      <4>. QED  BY <1>2, <3>1, <4>1
    <3>5. PICK r : r = Tail(inbox)
      OBVIOUS
    <3>6. \A i \in DOMAIN r : r[i][1] \notin {"complete", "destroy"}
      <4>1. \A i \in DOMAIN r :
              i \in Nat /\ i + 1 # 1 /\ i + 1 \in DOMAIN inbox /\ r[i] = inbox[i + 1]
        BY <1>1, <3>1, <3>5, PopPlaces
      <4>. QED  BY <3>1, <3>2, <4>1 DEF RunInv, Ending
    <3>7. \A i \in DOMAIN inbox' :
            (i \in DOMAIN r /\ inbox'[i] = r[i]) \/ i = Len(r) + 1
      BY <1>2, <3>1, <3>4, <3>5, PushPlaces
    <3>8. \A i \in DOMAIN inbox' : Ending(i)' => i = Len(r) + 1
      BY <3>6, <3>7 DEF Ending
    <3>. QED  BY <3>1, <3>2, <3>8 DEF RunInv, Running
  <2>5. CASE WifiOnlyHandled
    <3>1. EndsKept
      BY <2>5, EndsPopped DEF WifiOnlyHandled, Message, Done
    <3>. QED  BY <2>5, <3>1, RunSame DEF WifiOnlyHandled
  <2>. QED  BY <1>5, <1>7, <1>8, <2>1, <2>2, <2>3, <2>4, <2>5, ManualMain, ThreadsCall
<1>9. ASSUME NEW t \in Threads, Upload(t)
      PROVE  RunInv'
  <2>1. CASE updateFileList(t)
    BY <1>7, <2>1, ThreadsCall
  <2>2. CASE Broadcast(t)
    <3>1. /\ inbox' = Append(inbox, <<"complete">>) /\ Running(t)
          /\ pc' = [pc EXCEPT ![t] = "none"] /\ UNCHANGED <<started, current>>
      BY <2>2 DEF Broadcast, Ends, At, Running
    <3>2. \A u \in Threads : ~Running(u)'
      BY <1>1, <3>1, ThreadsCall DEF RunInv, Running, ThreadTypes
    <3>3. started /\ \A i \in DOMAIN inbox : ~Ending(i)
      BY <3>1 DEF RunInv
    <3>4. \A i, j \in DOMAIN inbox' : Ending(i)' /\ Ending(j)' => i = j
      BY <1>1, <1>2, <3>1, <3>3, PushPlaces DEF Ending
    <3>. QED  BY <3>1, <3>2, <3>3, <3>4 DEF RunInv
  <2>3. CASE ManualUpload(t) /\ ~updateFileList(t) /\ ~Broadcast(t)
    <3>1. UNCHANGED <<inbox, started, current, owner>>
      BY <2>3 DEF ManualUpload, Check, canUpload, RemoveHead, NewPost, FileExists, SetEntity,
         Execute, Answer, Rename, Requeue, GiveUp, ClearMap, ClearList
    <3>2. pc[t] # "none" /\ \E to : pc' = [pc EXCEPT ![t] = to]
      BY <2>3 DEF ManualUpload, Check, canUpload, RemoveHead, NewPost, FileExists, SetEntity,
         Execute, Answer, Rename, Requeue, GiveUp, ClearMap, ClearList, At
    <3>. QED  BY <1>6, <3>1, <3>2, ThreadsCall
  <2>. QED  BY <1>5, <1>9, <2>1, <2>2, <2>3, ManualThread
<1>. QED  BY <1>3, <1>4, <1>8, <1>9, NoTimer DEF Next

(* In ListFiles and in the listing steps that stay inside, the monitor is  *)
(* that of the instance which all callers have.                            *)
LEMMA ListingKept ==
  ASSUME TypesInv, ManualTypes, Manual, RunInv, ListingInv, [Next]_vars
  PROVE  ListingInv'
<1> USE DEF threads
<1>1. ThreadTypes
  BY DEF TypesInv
<1>2. ASSUME \A c \in Callers : Inside(c)' => Inside(c)
      PROVE  ListingInv'
  BY <1>2 DEF ListingInv
<1>3. CASE UNCHANGED threads
  BY <1>2, <1>3 DEF Inside
<1>4. ASSUME NEW c \in Callers, NEW to, pc' = [pc EXCEPT ![c] = to],
             to \notin {"test", "put", "add"} \/ Inside(c)
      PROVE  ListingInv'
  BY <1>1, <1>2, <1>4 DEF Inside, ThreadTypes
<1>5. CASE Die
  BY <1>2, <1>5 DEF Die, Inside
<1>6. ASSUME NEW c \in Callers, updateFileList(c)
      PROVE  ListingInv'
  <2>1. PICK to : pc' = [pc EXCEPT ![c] = to]
    BY <1>6, ListingStep
  <2>2. CASE ListFiles(c)
    <3>1. Enters(c, InstanceOf(c)) /\ pc[c] = "update"
      BY <2>2 DEF ListFiles, At
    <3>2. ASSUME NEW d \in Callers \ {c}, Inside(d)
          PROVE  FALSE
      <4>1. ~Holds(d, InstanceOf(c))
        BY <3>1 DEF Enters
      <4>2. InstanceOf(d) # InstanceOf(c)
        BY <3>2, <4>1 DEF Holds, Inside
      <4>3. \A e \in {c, d} : InstanceOf(e) = current
        <5>1. ASSUME NEW e \in {c, d}, e # MainThread PROVE owner[e] = current
          BY <3>1, <3>2, <5>1, Alone DEF Inside, Callers
        <5>. QED  BY <5>1 DEF InstanceOf
      <4>. QED  BY <4>2, <4>3
    <3>. QED  BY <1>1, <2>1, <3>2 DEF ListingInv, Inside, ThreadTypes
  <2>3. CASE ~ListFiles(c)
    <3>1. Inside(c)
      BY <1>6, <2>3 DEF updateFileList, TestFile, PutFile, AddToList, FilesListed, At, Inside
    <3>. QED  BY <1>4, <2>1, <3>1
  <2>. QED  BY <2>2, <2>3
<1>7. CASE World
  BY <1>3, <1>7 DEF World, StartService, NetChange, SetWifiOnly, SetAutomatic, AddFile, DeleteFile
<1>8. CASE Main
  <2>1. CASE OnStart
    BY <1>4, <2>1, ThreadsCall DEF OnStart, At
  <2>2. CASE Decide
    <3>1. CASE ReturnsEarly
      BY <1>4, <2>2, <3>1, ThreadsCall DEF Decide, At
    <3>2. CASE ~ReturnsEarly
      <4>1. uploadFiles(current, "none")
        BY <2>2, <3>2 DEF Decide
      <4>. QED  BY <1>1, <1>2, <4>1, ThreadsCall DEF uploadFiles, Inside, ThreadTypes
    <3>. QED  BY <3>1, <3>2
  <2>3. CASE OnDestroy \/ OnComplete \/ WifiOnlyHandled
    BY <1>3, <2>3 DEF OnDestroy, OnComplete, WifiOnlyHandled
  <2>. QED  BY <1>5, <1>6, <1>8, <2>1, <2>2, <2>3, ManualMain, ThreadsCall
<1>9. ASSUME NEW t \in Threads, Upload(t)
      PROVE  ListingInv'
  <2>1. CASE updateFileList(t)
    BY <1>6, <2>1, ThreadsCall
  <2>2. CASE ManualUpload(t) /\ ~updateFileList(t)
    <3>1. \E to : pc' = [pc EXCEPT ![t] = to] /\ to \notin {"test", "put", "add"}
      <4>1. CASE canUpload(t)
        BY <4>1 DEF canUpload, At
      <4>2. CASE GiveUp(t)
        BY <4>2 DEF GiveUp, At
      <4>3. CASE Check(t) \/ FileExists(t) \/ Execute(t) \/ Requeue(t)
        BY <4>3 DEF Check, FileExists, Execute, Requeue, At
      <4>4. CASE RemoveHead(t) \/ NewPost(t) \/ SetEntity(t) \/ Answer(t) \/ Rename(t)
        BY <4>4 DEF RemoveHead, NewPost, SetEntity, Answer, Rename, At
      <4>5. CASE ClearMap(t) \/ ClearList(t) \/ Broadcast(t)
        BY <4>5 DEF ClearMap, ClearList, Broadcast, Ends, At
      <4>. QED  BY <2>2, <4>1, <4>2, <4>3, <4>4, <4>5 DEF ManualUpload
    <3>. QED  BY <1>4, <3>1, ThreadsCall
  <2>. QED  BY <1>5, <1>9, <2>1, <2>2, ManualThread
<1>. QED  BY <1>3, <1>7, <1>8, <1>9, NoTimer DEF Next, vars

LEMMA PushedSet ==
  ASSUME NEW S, NEW l \in Seq(S), NEW f \in S, NEW x, Once(l, x), f \in ToSet(l) => f \in x
  PROVE  Once(Append(l, f), x) /\ ToSet(Append(l, f)) = ToSet(l) \cup {f}
<1>1. PICK r : r = Append(l, f)
  OBVIOUS
<1>2. /\ \A i \in DOMAIN r : (i \in DOMAIN l /\ r[i] = l[i]) \/ (i = Len(l) + 1 /\ r[i] = f)
      /\ \A i \in DOMAIN l : i \in DOMAIN r /\ r[i] = l[i]
      /\ Len(l) + 1 \in DOMAIN r /\ r[Len(l) + 1] = f
  BY <1>1, PushPlaces
<1>3. ToSet(r) = ToSet(l) \cup {f}
  BY <1>2 DEF ToSet
<1>4. \A i \in DOMAIN l : l[i] = f => f \in x
  BY DEF ToSet
<1>. QED  BY <1>1, <1>2, <1>3, <1>4 DEF Once

LEMMA PoppedSet ==
  ASSUME NEW S, NEW l \in Seq(S), NEW x, l # <<>>, Once(l, x)
  PROVE  /\ Once(Tail(l), x) /\ ToSet(Tail(l)) \subseteq ToSet(l) /\ Head(l) \in ToSet(l)
         /\ Head(l) \in ToSet(Tail(l)) => Head(l) \in x
<1>1. PICK r : r = Tail(l)
  OBVIOUS
<1>2. /\ \A i \in DOMAIN r : i \in Nat /\ i + 1 # 1 /\ i + 1 \in DOMAIN l /\ r[i] = l[i + 1]
      /\ 1 \in DOMAIN l /\ Head(l) = l[1]
  BY <1>1, PopPlaces, Popped
<1>3. ToSet(r) \subseteq ToSet(l) /\ Head(l) \in ToSet(l)
  BY <1>2 DEF ToSet
<1>4. ASSUME NEW i \in DOMAIN r, NEW j \in DOMAIN r, r[i] = r[j], r[i] \notin x PROVE i = j
  <2>1. l[i + 1] = l[j + 1] /\ l[i + 1] \notin x
    BY <1>2, <1>4
  <2>2. i + 1 = j + 1
    BY <1>2, <2>1 DEF Once
  <2>. QED  BY <1>2, <2>2
<1>5. ASSUME NEW i \in DOMAIN r, r[i] = Head(l) PROVE Head(l) \in x
  BY <1>2, <1>5 DEF Once
<1>. QED  BY <1>1, <1>3, <1>4, <1>5 DEF Once, ToSet

(* A step that leaves the list and the map alone.                          *)
Rest == {"none", "clearList", "broadcast"}

LEMMA QueueQuiet ==
  ASSUME QueueInv, UNCHANGED <<fileList, fileMap, crossed>>, Adding' = Adding,
         \A c \in Callers : pc'[c] = "put" => file'[c] \notin fileMap,
         \A t \in Threads : pc[t] = "clearList" => pc'[t] = "clearList",
         \A t \in Threads : pc'[t] \in InFile => pc[t] \in InFile /\ file'[t] = file[t],
         (\A t \in Threads : pc'[t] \in Rest) => \A t \in Threads : pc[t] \in Rest
  PROVE  QueueInv'
<1>1. FilledInv => FilledInv'
  BY DEF FilledInv
<1>. QED  BY <1>1 DEF QueueInv, Rest

(* And moves one caller.                                                   *)
LEMMA QueueMoves ==
  ASSUME ThreadTypes, QueueInv, UNCHANGED <<fileList, fileMap, crossed>>,
         NEW c \in Callers, NEW to, pc' = [pc EXCEPT ![c] = to],
         {pc[c], to} \cap {"add", "clearList"} = {},
         \A d \in Callers \ {c} : file'[d] = file[d],
         to = "put" => file'[c] \notin fileMap,
         to \in InFile => pc[c] \in InFile /\ file'[c] = file[c],
         c \in Threads /\ to \in Rest => pc[c] \in Rest
  PROVE  QueueInv'
<1>1. \A d \in Callers : pc'[d] = IF d = c THEN to ELSE pc[d]
  BY DEF ThreadTypes
<1>2. Adding' = Adding
  BY <1>1 DEF Adding
<1>3. \A d \in Callers : pc'[d] = "put" => file'[d] \notin fileMap
  BY <1>1 DEF QueueInv
<1>4. \A t \in Threads : pc[t] = "clearList" => pc'[t] = "clearList"
  BY <1>1, ThreadsCall
<1>5. \A t \in Threads : pc'[t] \in InFile => pc[t] \in InFile /\ file'[t] = file[t]
  BY <1>1, ThreadsCall
<1>6. (\A t \in Threads : pc'[t] \in Rest) => \A t \in Threads : pc[t] \in Rest
  BY <1>1, ThreadsCall
<1>. QED  BY <1>2, <1>3, <1>4, <1>5, <1>6, QueueQuiet

(* The steps of updateFileList: one caller at a time adds a file.          *)
LEMMA PutKept ==
  ASSUME TypesInv, ListingInv, QueueInv, NEW c \in Callers, PutFile(c)
  PROVE  QueueInv'
<1> DEFINE a == file[c]
<1>1. /\ pc[c] = "put" /\ pc' = [pc EXCEPT ![c] = "add"] /\ fileMap' = fileMap \cup {a}
      /\ UNCHANGED <<fileList, crossed, file>> /\ a \notin fileMap
  BY DEF PutFile, At, QueueInv
<1>2. \A d \in Callers : pc'[d] = IF d = c THEN "add" ELSE pc[d]
  BY <1>1 DEF TypesInv, ThreadTypes
<1>3. \A d \in Callers : d # c => pc[d] \notin {"put", "add"}
  BY <1>1 DEF ListingInv, Inside
<1>4. Adding = {} /\ Adding' = {a}
  BY <1>1, <1>2, <1>3 DEF Adding
<1>5. FilledInv => FilledInv'
  <2> SUFFICES ASSUME FilledInv PROVE FilledInv'
    OBVIOUS
  <2>1. \A t \in Threads : pc'[t] \in InFile => pc[t] \in InFile
    BY <1>2, ThreadsCall DEF InFile
  <2>. QED  BY <1>1, <1>4, <2>1 DEF FilledInv
<1>6. \A t \in Threads : pc'[t] # "clearList" => pc[t] # "clearList"
  BY <1>1, <1>2, ThreadsCall
<1>7. \A t \in Threads : pc'[t] \in {"none", "clearList", "broadcast"} =>
        pc[t] \in {"none", "clearList", "broadcast"}
  BY <1>2, ThreadsCall
<1>. QED  BY <1>1, <1>2, <1>3, <1>4, <1>5, <1>6, <1>7 DEF QueueInv

LEMMA AddKept ==
  ASSUME TypesInv, ListingInv, QueueInv, NEW c \in Callers, AddToList(c)
  PROVE  QueueInv'
<1> DEFINE a == file[c]
<1>1. /\ pc[c] = "add" /\ pc' = [pc EXCEPT ![c] = "test"] /\ fileList' = Append(fileList, a)
      /\ UNCHANGED <<fileMap, crossed>> /\ file' = [file EXCEPT ![c] = NoFile]
  BY DEF AddToList, At
<1>2. \A d \in Callers : /\ pc'[d] = IF d = c THEN "test" ELSE pc[d]
                         /\ d # c => file'[d] = file[d]
  BY <1>1 DEF TypesInv, ThreadTypes
<1>3. \A d \in Callers : d # c => pc[d] \notin {"put", "add"}
  BY <1>1 DEF ListingInv, Inside
<1>4. Adding = {a} /\ Adding' = {}
  BY <1>1, <1>2, <1>3 DEF Adding
<1>5. a \in Files /\ fileList \in Seq(Files)
  BY <1>1 DEF TypesInv, ThreadTypes, QueueTypes, FilePlaces
<1>6. ToSet(fileList') = ToSet(fileList) \cup {a}
  <2>1. Once(fileList, Files)
    BY <1>5 DEF Once
  <2>. QED  BY <1>1, <1>5, <2>1, PushedSet
<1>7. FilledInv => FilledInv'
  <2> SUFFICES ASSUME FilledInv PROVE FilledInv'
    OBVIOUS
  <2>1. \A t \in Threads : pc'[t] \in InFile => pc[t] \in InFile /\ file'[t] = file[t]
    BY <1>2, ThreadsCall DEF InFile
  <2>2. a \in fileMap \cup crossed /\ (a \in ToSet(fileList) => a \in crossed)
    BY <1>4 DEF FilledInv, QueueInv
  <2>3. Once(fileList', crossed)
    BY <1>1, <1>5, <2>2, PushedSet DEF FilledInv
  <2>. QED  BY <1>1, <1>4, <1>6, <2>1, <2>2, <2>3 DEF FilledInv
<1>8. \A t \in Threads : pc'[t] # "clearList" => pc[t] # "clearList"
  BY <1>1, <1>2, ThreadsCall
<1>9. \A t \in Threads : pc'[t] \in {"none", "clearList", "broadcast"} =>
        pc[t] \in {"none", "clearList", "broadcast"}
  BY <1>2, ThreadsCall
<1>. QED  BY <1>1, <1>2, <1>3, <1>4, <1>6, <1>7, <1>8, <1>9 DEF QueueInv

LEMMA ListingQueue ==
  ASSUME TypesInv, ListingInv, QueueInv, NEW c \in Callers, updateFileList(c)
  PROVE  QueueInv'
<1> USE DEF statics, At
<1>1. ThreadTypes
  BY DEF TypesInv
<1>2. CASE ListFiles(c)
  BY <1>1, <1>2, QueueMoves DEF ListFiles, InFile, Rest
<1>3. CASE TestFile(c)
  <2>1. PICK f \in rest[c] :
          /\ pc[c] = "test" /\ UNCHANGED <<fileList, fileMap, crossed>>
          /\ pc' = [pc EXCEPT ![c] = IF Known(f) THEN "test" ELSE "put"]
          /\ file' = [file EXCEPT ![c] = IF Known(f) THEN NoFile ELSE f]
    BY <1>3 DEF TestFile
  <2>2. PICK to \in {"test", "put"} :
          pc' = [pc EXCEPT ![c] = to] /\ (to = "put" => f \notin fileMap /\ file'[c] = f)
    BY <1>1, <2>1 DEF Known, ThreadTypes
  <2>3. \A d \in Callers \ {c} : file'[d] = file[d]
    BY <1>1, <2>1 DEF ThreadTypes
  <2>4. {pc[c], to} \cap {"add", "clearList"} = {} /\ to \notin InFile /\ to \notin Rest
    BY <2>1, <2>2 DEF InFile, Rest
  <2>. QED  BY <1>1, <2>1, <2>2, <2>3, <2>4, QueueMoves
<1>4. CASE FilesListed(c)
  BY <1>1, <1>4, QueueMoves DEF FilesListed, InFile, Rest
<1>. QED  BY <1>2, <1>3, <1>4, PutKept, AddKept DEF updateFileList

(* The steps of a thread that change the list or the map: no other thread  *)
(* runs, but the main thread may be adding a file.                         *)
LEMMA ThreadQueue ==
  ASSUME TypesInv, RunInv, ListingInv, QueueInv, NEW t \in Threads,
         RemoveHead(t) \/ Requeue(t) \/ ClearMap(t) \/ ClearList(t)
  PROVE  QueueInv'
<1>1. /\ pc[t] \in {"remove", "requeue", "clearMap", "clearList"}
      /\ \A u \in Threads : u # t => pc[u] = "none"
  BY Alone DEF RemoveHead, Requeue, ClearMap, ClearList, At
<1>2. PICK to \in {"upload", "failing", "check", "clearList", "broadcast"} :
        pc' = [pc EXCEPT ![t] = to]
  BY DEF RemoveHead, Requeue, ClearMap, ClearList, At
<1>3. /\ \A d \in Callers : pc'[d] = IF d = t THEN to ELSE pc[d]
      /\ \A d \in Callers : d # t => file'[d] = file[d]
  BY <1>2, ThreadsCall DEF TypesInv, ThreadTypes, RemoveHead, Requeue, ClearMap, ClearList
<1>4. Adding' = Adding
  BY <1>1, <1>3, ThreadsCall DEF Adding
<1>5. fileList \in Seq(Files)
  BY DEF TypesInv, QueueTypes
<1>6. \A u \in Threads : u # t => pc'[u] = "none"
  BY <1>1, <1>3, ThreadsCall
<1>7. pc[t] # "clearList" => FilledInv
  BY <1>1 DEF QueueInv
<1>8. \A d \in Callers : pc'[d] = "put" => file'[d] \notin fileMap
  BY <1>3, ThreadsCall DEF QueueInv
<1>9. pc'[t] = to
  BY <1>3, ThreadsCall
<1>10. CASE RemoveHead(t)
  <2>1. /\ pc[t] = "remove" /\ to = "upload" /\ fileList # <<>>
        /\ UNCHANGED <<fileMap, crossed>> /\ file'[t] = Head(fileList)
    BY <1>9, <1>10, ThreadsCall DEF RemoveHead, At, TypesInv, ThreadTypes
  <2>2. fileList' = Tail(fileList)
    BY <1>1, <1>10 DEF RemoveHead
  <2>3. PICK h : h = Head(fileList)
    OBVIOUS
  <2>4. /\ Once(fileList', crossed) /\ ToSet(fileList') \subseteq ToSet(fileList)
        /\ h \in ToSet(fileList) /\ (h \in ToSet(fileList') => h \in crossed)
    BY <1>5, <1>7, <2>1, <2>2, <2>3, PoppedSet DEF FilledInv
  <2>5. FilledInv'
    <3>1. \A u \in Threads : pc'[u] \in InFile => u = t
      BY <1>6 DEF InFile
    <3>. QED  BY <1>4, <1>7, <2>1, <2>3, <2>4, <3>1 DEF FilledInv
  <2>. QED  BY <1>4, <1>8, <1>9, <2>1, <2>5 DEF QueueInv
<1>11. CASE Requeue(t)
  <2>1. /\ pc[t] = "requeue" /\ to \in {"failing", "check"}
        /\ fileList' = Append(fileList, file[t]) /\ UNCHANGED <<fileMap, crossed>>
    BY <1>9, <1>11, ThreadsCall DEF Requeue, At, TypesInv, ThreadTypes
  <2>2. PICK f : f = file[t] /\ f \in Files /\ f \in fileMap \cup crossed
                 /\ (f \in ToSet(fileList) \cup Adding => f \in crossed)
    BY <1>7, <2>1, ThreadsCall DEF FilledInv, InFile, TypesInv, ThreadTypes, FilePlaces
  <2>3. Once(fileList', crossed) /\ ToSet(fileList') = ToSet(fileList) \cup {f}
    BY <1>5, <1>7, <2>1, <2>2, PushedSet DEF FilledInv
  <2>4. FilledInv'
    <3>1. \A u \in Threads : pc'[u] \notin InFile
      BY <1>6, <1>9, <2>1 DEF InFile
    <3>. QED  BY <1>4, <1>7, <2>1, <2>2, <2>3, <3>1 DEF FilledInv
  <2>. QED  BY <1>4, <1>8, <1>9, <2>1, <2>4 DEF QueueInv
<1>12. CASE ClearMap(t)
  <2>1. to = "clearList" /\ fileMap' = {} /\ crossed' = crossed \cup Adding
    BY <1>9, <1>12, ThreadsCall DEF ClearMap, At, Adding, TypesInv, ThreadTypes
  <2>. QED  BY <1>4, <1>9, <2>1 DEF QueueInv
<1>13. CASE ClearList(t)
  <2>1. /\ pc[t] = "clearList" /\ to = "broadcast" /\ fileList' = <<>> /\ UNCHANGED fileMap
        /\ crossed' = crossed \cup (fileMap \cap ToSet(fileList))
    BY <1>9, <1>13, ThreadsCall DEF ClearList, At, TypesInv, ThreadTypes
  <2>2. fileMap \ crossed \subseteq ToSet(fileList) \cup Adding
    BY <1>1, <2>1 DEF QueueInv
  <2>3. FilledInv'
    <3>1. \A u \in Threads : pc'[u] \notin InFile
      BY <1>6, <1>9, <2>1 DEF InFile
    <3>2. ToSet(<<>>) = {} /\ Once(<<>>, crossed')
      BY DEF ToSet, Once
    <3>. QED  BY <2>1, <3>1, <3>2 DEF FilledInv
  <2>. QED  BY <1>4, <1>8, <2>1, <2>2, <2>3 DEF QueueInv
<1>. QED  BY <1>10, <1>11, <1>12, <1>13

LEMMA QueueKept ==
  ASSUME TypesInv, ManualTypes, Manual, RunInv, ListingInv, QueueInv, [Next]_vars
  PROVE  QueueInv'
<1> USE DEF statics, threads
<1>1. ThreadTypes
  BY DEF TypesInv
<1>2. ASSUME UNCHANGED <<fileList, fileMap, crossed, threads>>
      PROVE  QueueInv'
  BY <1>2 DEF QueueInv, FilledInv, Adding
<1>3. CASE UNCHANGED vars
  BY <1>2, <1>3 DEF vars
<1>4. CASE World
  BY <1>2, <1>4 DEF World, StartService, NetChange, SetWifiOnly, SetAutomatic, AddFile, DeleteFile
<1>5. ASSUME Die
      PROVE  QueueInv'
  <2>1. \A c \in Callers : pc'[c] = "none"
    BY <1>5 DEF Die
  <2>2. ToSet(<<>>) = {} /\ Once(<<>>, crossed')
    BY DEF ToSet, Once
  <2>3. Adding' = {}
    BY <2>1 DEF Adding
  <2>4. FilledInv'
    BY <1>5, <2>1, <2>2, ThreadsCall DEF Die, FilledInv, InFile
  <2>. QED  BY <1>5, <2>1, <2>3, <2>4 DEF Die, QueueInv
<1>6. CASE Main
  <2>1. CASE OnStart
    BY <1>1, <2>1, QueueMoves, ThreadsCall DEF OnStart, At, InFile, Rest
  <2>2. CASE Decide
    <3>1. CASE ReturnsEarly
      BY <1>1, <2>2, <3>1, QueueMoves, ThreadsCall DEF Decide, At, InFile, Rest
    <3>2. CASE ~ReturnsEarly
      <4>1. /\ uploadFiles(current, "none") /\ UNCHANGED <<fileList, fileMap, crossed, file>>
            /\ pc[MainThread] = "decide"
        BY <2>2, <3>2 DEF Decide, uploadFiles
      <4>2. PICK t \in Threads :
              pc[t] = "none" /\ pc' = [pc EXCEPT ![t] = "update", ![MainThread] = "none"]
        BY <4>1 DEF uploadFiles, Running
      <4>3. \A d \in Callers :
              pc'[d] = IF d = MainThread THEN "none" ELSE IF d = t THEN "update" ELSE pc[d]
        BY <1>1, <4>2 DEF ThreadTypes
      <4>4. Adding' = Adding
        <5>1. ASSUME NEW d \in Callers
              PROVE  (pc'[d] = "add") <=> (pc[d] = "add")
          <6>1. CASE d = MainThread
            BY <4>1, <4>3, <6>1
          <6>2. CASE d = t
            <7>1. pc'[t] = "update"
              BY <4>3, ThreadsCall
            <7>2. pc[t] = "none"
              BY <4>2
            <7>. QED  BY <6>2, <7>1, <7>2
          <6>. QED  BY <4>3, <6>1, <6>2
        <5>2. file' = file
          BY <4>1
        <5>. QED  BY <5>1, <5>2 DEF Adding
      <4>5. \A c \in Callers : pc'[c] = "put" => file'[c] \notin fileMap
        BY <4>1, <4>3 DEF QueueInv
      <4>6. \A u \in Threads : pc[u] = "clearList" => pc'[u] = "clearList"
        BY <4>2, <4>3, ThreadsCall
      <4>7. \A u \in Threads : pc'[u] \in InFile => pc[u] \in InFile /\ file'[u] = file[u]
        BY <4>1, <4>3, ThreadsCall DEF InFile
      <4>8. pc'[t] \notin Rest
        BY <4>3, ThreadsCall DEF Rest
      <4>. QED  BY <4>1, <4>4, <4>5, <4>6, <4>7, <4>8, QueueQuiet
    <3>. QED  BY <3>1, <3>2
  <2>3. CASE OnDestroy \/ OnComplete \/ WifiOnlyHandled
    BY <1>2, <2>3 DEF OnDestroy, OnComplete, WifiOnlyHandled
  <2>. QED  BY <1>5, <1>6, <2>1, <2>2, <2>3, ListingQueue, ManualMain, ThreadsCall
<1>7. ASSUME NEW t \in Threads, Upload(t)
      PROVE  QueueInv'
  <2>1. CASE RemoveHead(t) \/ Requeue(t) \/ ClearMap(t) \/ ClearList(t)
    BY <2>1, ThreadQueue
  <2>2. ASSUME NEW from, NEW to, At(t, from, to), UNCHANGED <<fileList, fileMap, crossed, file>>,
               {from, to} \cap {"put", "add", "clearList"} = {}, to \in InFile => from \in InFile,
               to \notin Rest
        PROVE  QueueInv'
    BY <1>1, <2>2, QueueMoves, ThreadsCall DEF At
  <2>3. CASE Check(t) \/ GiveUp(t)
    BY <2>2, <2>3 DEF Check, GiveUp, InFile, Rest
  <2>4. CASE canUpload(t)
    BY <2>2, <2>4 DEF canUpload, InFile, Rest
  <2>5. CASE NewPost(t) \/ FileExists(t) \/ SetEntity(t) \/ Execute(t) \/ Rename(t)
    BY <2>2, <2>5 DEF NewPost, FileExists, SetEntity, Execute, Rename, InFile, Rest
  <2>6. CASE Answer(t)
    BY <2>2, <2>6 DEF Answer, InFile, Rest
  <2>7. CASE Broadcast(t)
    BY <1>1, <2>7, QueueMoves, ThreadsCall DEF Broadcast, Ends, At, InFile, Rest, ThreadTypes
  <2>. QED  BY <1>5, <1>7, <2>1, <2>3, <2>4, <2>5, <2>6, <2>7, ListingQueue, ManualThread,
            ThreadsCall DEF ManualUpload
<1>. QED  BY <1>3, <1>4, <1>6, <1>7, NoTimer DEF Next

LEMMA ManualInductive ==
  ASSUME Manual
  PROVE  /\ Init => ManualInv
         /\ ManualInv /\ [Next]_vars => ManualInv'
<1>1. ASSUME Init PROVE ManualInv
  <2>1. TypesInv
    BY <1>1, TypesAtFirst
  <2>2. \A c \in Callers : pc[c] = "none"
    BY <1>1 DEF Init
  <2>3. ManualTypes
    BY <1>1, <2>2, ThreadsCall
    DEF Init, Manual, ManualTypes, ManualFields, ManualPlaces, WaitPlaces
  <2>4. RunInv /\ ListingInv
    BY <1>1, <2>2, ThreadsCall DEF Init, RunInv, Running, ListingInv, Inside
  <2>5. ToSet(<<>>) = {} /\ Once(<<>>, crossed) /\ Adding = {}
    BY <2>2 DEF ToSet, Once, Adding
  <2>6. FilledInv
    BY <1>1, <2>2, <2>5, ThreadsCall DEF Init, FilledInv, InFile
  <2>7. QueueInv
    BY <1>1, <2>2, <2>5, <2>6 DEF Init, QueueInv
  <2>. QED  BY <2>1, <2>3, <2>4, <2>7 DEF ManualInv
<1>2. ASSUME ManualInv, [Next]_vars PROVE ManualInv'
  BY <1>2, TypesStay, ManualTypesKept, RunKept, ListingKept, QueueKept DEF ManualInv
<1>. QED  BY <1>1, <1>2

(* With manual uploads the instance that gets onDestroy is one that        *)
(* onStart has fully started: unregisterReceiver does not throw.           *)
THEOREM DestroysOnlyStarted ==
  ASSUME Manual
  PROVE  Spec => []DestroysStarted
<1>1. Init => ManualInv
  BY ManualInductive
<1>2. ManualInv /\ [Next]_vars => ManualInv'
  BY ManualInductive
<1>3. ManualInv => DestroysStarted
  <2> SUFFICES ASSUME ManualInv, Message("destroy") PROVE started /\ current # NoInstance
    BY DEF DestroysStarted
  <2>1. Ending(1) /\ 1 \in DOMAIN inbox
    BY PopPlaces, Popped DEF ManualInv, TypesInv, QueueTypes, Message, Ending
  <2>2. started
    BY <2>1 DEF ManualInv, RunInv
  <2>. QED  BY <2>2 DEF ManualInv, TypesInv, AwakeInv, InboxInv, InstanceInv
<1>. QED  BY <1>1, <1>2, <1>3, PTL DEF Spec

(* With manual uploads at most one thread uploads at a time, for the       *)
(* instance that is up, whatever starts and messages overlap.              *)
THEOREM NeverTwoUploaders ==
  ASSUME Manual
  PROVE  Spec => []OneUploader
<1>1. Init => ManualInv
  BY ManualInductive
<1>2. ManualInv /\ [Next]_vars => ManualInv'
  BY ManualInductive
<1>3. ManualInv => OneUploader
  BY DEF ManualInv, RunInv, OneUploader
<1>. QED  BY <1>1, <1>2, <1>3, PTL DEF Spec

(* With manual uploads no file is queued twice, or queued while it is      *)
(* being sent, though start requests put files into fileMap and fileList   *)
(* one after the other while the thread works: but for the files they were *)
(* adding as a thread cleared the two.                                     *)
THEOREM FilesQueuedOnce ==
  ASSUME Manual
  PROVE  Spec => []QueuedOnce
<1>1. Init => ManualInv
  BY ManualInductive
<1>2. ManualInv /\ [Next]_vars => ManualInv'
  BY ManualInductive
<1>3. ManualInv => QueuedOnce
  <2> SUFFICES ASSUME ManualInv, NEW t \in Threads, pc[t] \in InLoop
      PROVE  /\ \A i, j \in DOMAIN fileList :
                  fileList[i] = fileList[j] /\ fileList[i] \notin crossed => i = j
             /\ ToSet(fileList) \ crossed \subseteq fileMap
             /\ pc[t] \in InFile => file[t] \notin ToSet(fileList) \ crossed
    BY DEF QueuedOnce
  <2>1. \A u \in Threads : pc[u] # "clearList"
    BY Alone DEF ManualInv, InLoop, InFile
  <2>2. FilledInv
    BY <2>1 DEF ManualInv, QueueInv
  <2>. QED  BY <2>2 DEF FilledInv, Once
<1>. QED  BY <1>1, <1>2, <1>3, PTL DEF Spec

(* With manual uploads a start request that finds the service at rest      *)
(* overlooks no file: none is held back by fileMap without being in the    *)
(* queue, but for the same files.                                          *)
THEOREM NoFileOverlooked ==
  ASSUME Manual
  PROVE  Spec => []NoneOverlooked
<1>1. Init => ManualInv
  BY ManualInductive
<1>2. ManualInv /\ [Next]_vars => ManualInv'
  BY ManualInductive
<1>3. ManualInv => NoneOverlooked
  <2> SUFFICES ASSUME ManualInv, pc[MainThread] = "decide", ~started
      PROVE  fileMap \ crossed \subseteq ToSet(fileList)
    BY DEF NoneOverlooked
  <2>1. \A t \in Threads : pc[t] = "none"
    BY DEF ManualInv, RunInv, Running
  <2>2. Adding = {}
    BY <2>1 DEF Adding, Callers
  <2>3. fileMap \ crossed \subseteq ToSet(fileList) \cup Adding
    BY <2>1 DEF ManualInv, QueueInv
  <2>. QED  BY <2>2, <2>3
<1>. QED  BY <1>1, <1>2, <1>3, PTL DEF Spec

(* The request that a thread sends holds its own file, although the field  *)
(* httppost belongs to the instance: one thread at a time is in            *)
(* uploadFile.                                                             *)
PostInv ==
  /\ uploaded \subseteq accepted
  /\ \A t \in Threads :
       /\ pc[t] = "execute" => httppost[owner[t]] = file[t]
       /\ pc[t] = "answer" => sent[t] = file[t]
       /\ pc[t] = "rename" => file[t] \in accepted

LEMMA PostKept ==
  ASSUME Manual, OwnAnswers, ManualInv, PostInv, [Next]_vars
  PROVE  PostInv'
<1> USE DEF fields, disk, threads
<1>1. ThreadTypes /\ FieldTypes
  BY DEF ManualInv, TypesInv
<1>2. ASSUME UNCHANGED <<uploaded, accepted, httppost, threads>>
      PROVE  PostInv'
  BY <1>2 DEF PostInv
<1>3. CASE UNCHANGED vars
  BY <1>2, <1>3 DEF vars
<1>4. CASE World
  BY <1>2, <1>4 DEF World, StartService, NetChange, SetWifiOnly, SetAutomatic, AddFile, DeleteFile
<1>5. CASE Die
  BY <1>5, ThreadsCall DEF Die, PostInv
<1>6. ASSUME UNCHANGED <<uploaded, accepted, httppost, sent>>, NEW c \in Callers, NEW to,
             pc' = [pc EXCEPT ![c] = to], to \notin {"execute", "answer", "rename"},
             \A t \in Threads \ {c} : file'[t] = file[t] /\ owner'[t] = owner[t]
      PROVE  PostInv'
  <2>1. \A t \in Threads : pc'[t] = IF t = c THEN to ELSE pc[t]
    BY <1>1, <1>6, ThreadsCall DEF ThreadTypes
  <2>. QED  BY <1>6, <2>1 DEF PostInv
<1>7. ASSUME NEW c \in Callers, updateFileList(c)
      PROVE  PostInv'
  <2>1. PICK to \in {"test", "put", "add", "decide", "check"} : pc' = [pc EXCEPT ![c] = to]
    BY <1>7, ListingStep
  <2>2. UNCHANGED <<uploaded, accepted, httppost, sent, owner>>
    BY <1>7, ListingStep
  <2>3. \A t \in Threads \ {c} : file'[t] = file[t]
    BY <1>1, <1>7, ThreadsCall
    DEF updateFileList, ListFiles, TestFile, PutFile, AddToList, FilesListed, ThreadTypes
  <2>. QED  BY <1>6, <2>1, <2>2, <2>3
<1>8. CASE Main
  <2>1. CASE OnStart
    BY <1>6, <2>1, ThreadsCall DEF OnStart, At
  <2>2. CASE Decide
    <3>1. CASE ReturnsEarly
      BY <1>6, <2>2, <3>1, ThreadsCall DEF Decide, At
    <3>2. CASE ~ReturnsEarly
      <4>1. /\ UNCHANGED <<uploaded, accepted, httppost, file, sent>>
            /\ uploadFiles(current, "none")
        BY <2>2, <3>2 DEF Decide, uploadFiles
      <4>2. PICK t \in Threads :
              /\ pc' = [pc EXCEPT ![t] = "update", ![MainThread] = "none"]
              /\ owner' = [owner EXCEPT ![t] = current]
        BY <4>1 DEF uploadFiles
      <4>3. \A u \in Threads : \/ pc'[u] = "update"
                               \/ pc'[u] = pc[u] /\ owner'[u] = owner[u]
        BY <1>1, <4>2, ThreadsCall DEF ThreadTypes
      <4>. QED  BY <4>1, <4>3 DEF PostInv
    <3>. QED  BY <3>1, <3>2
  <2>3. CASE OnDestroy \/ OnComplete \/ WifiOnlyHandled
    BY <1>2, <2>3 DEF OnDestroy, OnComplete, WifiOnlyHandled
  <2>. QED  BY <1>5, <1>7, <1>8, <2>1, <2>2, <2>3, ManualMain, ThreadsCall DEF ManualInv
<1>9. ASSUME NEW t \in Threads, Upload(t), ~Die
      PROVE  PostInv'
  <2>1. CASE updateFileList(t)
    BY <1>7, <2>1, ThreadsCall
  <2>2. CASE ManualUpload(t) /\ ~updateFileList(t)
    <3>1. pc[t] # "none"
      BY <2>2 DEF ManualUpload, Check, canUpload, RemoveHead, NewPost, FileExists, SetEntity,
         Execute, Answer, Rename, Requeue, GiveUp, ClearMap, ClearList, Broadcast, Ends, At
    <3>2. /\ \A u \in Threads : u # t => pc[u] = "none"
          /\ owner[t] \in Instances
      BY <3>1, Alone DEF ManualInv
    <3>3. ASSUME NEW to, pc' = [pc EXCEPT ![t] = to],
                 uploaded' \subseteq accepted',
                 to = "execute" => httppost'[owner'[t]] = file'[t],
                 to = "answer" => sent'[t] = file'[t],
                 to = "rename" => file'[t] \in accepted'
          PROVE  PostInv'
      <4>1. pc'[t] = to /\ \A u \in Threads : u # t => pc'[u] = "none"
        BY <1>1, <3>2, <3>3, ThreadsCall DEF ThreadTypes
      <4>. QED  BY <3>3, <4>1 DEF PostInv
    <3>4. CASE SetEntity(t)
      <4>1. httppost'[owner[t]] = file[t] /\ UNCHANGED <<uploaded, accepted, owner, file>>
        BY <1>1, <3>2, <3>4 DEF SetEntity, FieldTypes
      <4>. QED  BY <3>3, <3>4, <4>1 DEF SetEntity, At, PostInv
    <3>5. CASE Execute(t)
      <4>1. pc[t] = "execute" /\ sent'[t] = file[t] /\ UNCHANGED <<uploaded, accepted, file>>
        BY <1>1, <3>5 DEF Execute, At, PostInv, ThreadTypes
      <4>2. PICK to \in {"answer", "check"} : pc' = [pc EXCEPT ![t] = to]
        BY <3>5 DEF Execute, At
      <4>. QED  BY <3>3, <4>1, <4>2 DEF PostInv
    <3>6. CASE Answer(t)
      <4>1. sent[t] = file[t] /\ file[t] \in Files /\ UNCHANGED <<uploaded, file>>
        BY <1>1, <3>6, ThreadsCall DEF Answer, PostInv, ThreadTypes, FilePlaces, InFile
      <4>2. file[t] # NoFile /\ "otherPage" \notin Answers[sent[t]]
        BY <4>1, UploaderAssumption DEF OwnAnswers
      <4>3. accepted \subseteq accepted'
        BY <3>6 DEF Answer
      <4>4. PICK to \in {"rename", "requeue", "check"} :
              pc' = [pc EXCEPT ![t] = to] /\ (to = "rename" => file[t] \in accepted')
        BY <3>6, <4>1, <4>2 DEF Answer, At
      <4>. QED  BY <3>3, <4>1, <4>3, <4>4 DEF PostInv
    <3>7. CASE Rename(t)
      <4>1. /\ pc' = [pc EXCEPT ![t] = "check"] /\ file[t] \in accepted /\ UNCHANGED accepted
            /\ uploaded' \subseteq uploaded \cup {file[t]}
        BY <3>7 DEF Rename, At, PostInv
      <4>. QED  BY <3>3, <4>1 DEF PostInv
    <3>8. CASE canUpload(t)
      BY <3>3, <3>8 DEF canUpload, At, PostInv
    <3>9. CASE Check(t) \/ RemoveHead(t) \/ NewPost(t) \/ FileExists(t) \/ Requeue(t)
      BY <3>3, <3>9 DEF Check, RemoveHead, NewPost, FileExists, Requeue, At, PostInv
    <3>10. CASE GiveUp(t) \/ ClearMap(t) \/ ClearList(t) \/ Broadcast(t)
      BY <3>3, <3>10 DEF GiveUp, ClearMap, ClearList, Broadcast, Ends, At, PostInv
    <3>. QED  BY <2>2, <3>4, <3>5, <3>6, <3>7, <3>8, <3>9, <3>10 DEF ManualUpload
  <2>. QED  BY <1>9, <2>1, <2>2, ManualThread DEF ManualInv
<1>. QED  BY <1>3, <1>4, <1>5, <1>8, <1>9, NoTimer DEF Next, ManualInv

(* With manual uploads, if every page comes from the server's own script,  *)
(* a file is in the uploaded directory only if the server took it, though  *)
(* httppost is a field that the upload threads share.                      *)
THEOREM UploadsAreAccepted ==
  ASSUME Manual, OwnAnswers
  PROVE  Spec => []UploadedAccepted
<1>1. Init => ManualInv /\ PostInv
  BY ManualInductive, ThreadsCall DEF Init, PostInv
<1>2. ManualInv /\ PostInv /\ [Next]_vars => ManualInv' /\ PostInv'
  BY ManualInductive, PostKept
<1>3. PostInv => UploadedAccepted
  BY DEF PostInv, UploadedAccepted
<1>. QED  BY <1>1, <1>2, <1>3, PTL DEF Spec

===============================================================================
