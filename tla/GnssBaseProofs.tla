--------------------------- MODULE GnssBaseProofs ---------------------------
(***************************************************************************)
(* Proofs about GnssBase, for every set of coordinates, every number of    *)
(* retries and every loss, delay and interruption.  The answers of the     *)
(* receiver carry neither a task nor an attempt; what saves the record of  *)
(* what it runs is the order of the serial line, one owner of the line at  *)
(* a time, and a line that is emptied before a recovery begins.            *)
(***************************************************************************)
EXTENDS GnssBase, SequenceTheorems, WellFoundedInduction, TLAPS

(* Commands that change what the receiver runs, and answers that say it did. *)
Base(c) == c.op \in {"mode", "survey"}
OkMode(a) == a.valid /\ a.text = "OK" /\ a.cmd.op = "mode"

(* The receiver runs c's coordinate and nothing on the line will change that. *)
Only(c) == \A i \in DOMAIN wire : Base(wire[i].cmd) => wire[i].cmd = c
Sound(c) == recv = c.at /\ Only(c)

(* Who owns the line, and where each task is in its commands. *)
Busy == {"forget", "send", "wait", "base", "finish", "version"}
Owner ==
    /\ pc["recover"] \in Busy \cup {"pulse", "idle"}
    /\ txn = "recover" <=> pc["recover"] # "idle"
    /\ txn = "heartbeat" <=> pc["heartbeat"] \in {"send", "wait", "finish"}
    /\ pc["heartbeat"] \in {"off", "idle", "send", "wait", "finish"}

(* What config_gnss_base still sends: the configuration, then the base. *)
Early(s) == s \in {<<Undulation, Rtcm>>, <<Rtcm>>}
Choice(s) == \E c \in Commands : Base(c) /\ s = <<c, Save>>

Plan ==
    /\ pc["recover"] \in {"send", "wait"} =>
         \/ Early(todo["recover"]) \/ Choice(todo["recover"]) \/ todo["recover"] = <<Save>>
    /\ pc["recover"] \in {"send", "wait"} /\ Head(todo["recover"]) = Survey => nvs \notin Valid
    /\ txn = "heartbeat" => target \in Valid
    /\ pc["heartbeat"] \in {"send", "wait"} =>
         todo["heartbeat"] \in {<<Undulation, ModeBase(target), Save>>,
                                <<ModeBase(target), Save>>, <<Save>>}
    /\ txn = "heartbeat" /\ (todo["heartbeat"] = <<Save>> \/ "save" \in done["heartbeat"]) =>
         "mode" \in done["heartbeat"]

(* The heartbeat's commands and answers come after the recovery's. *)
Order ==
    /\ \A i, j \in DOMAIN wire : i < j /\ wire[i].by = "heartbeat" => wire[j].by = "heartbeat"
    /\ \A i, j \in DOMAIN out : i < j /\ out[i].by = "heartbeat" => out[j].by = "heartbeat"
    /\ \A i \in DOMAIN out, j \in DOMAIN wire : out[i].by = "heartbeat" => wire[j].by = "heartbeat"
    /\ pc["recover"] \in Busy => /\ \A i \in DOMAIN wire : wire[i].by = "recover"
                                 /\ \A i \in DOMAIN out : out[i].by = "recover"

(* A recovery sends one base command, a heartbeat the coordinate it is about. *)
OneBase ==
    /\ \A i, j \in DOMAIN wire :
         /\ wire[i].by = "recover" /\ wire[j].by = "recover"
         /\ Base(wire[i].cmd) /\ Base(wire[j].cmd)
         => wire[i].cmd = wire[j].cmd
    /\ \A i \in DOMAIN wire :
         wire[i].by = "heartbeat" /\ Base(wire[i].cmd) => wire[i].cmd = ModeBase(target)
    /\ \A i \in DOMAIN out :
         out[i].by = "heartbeat" /\ OkMode(out[i].ans) => out[i].ans.cmd = ModeBase(target)

(* What an answer under way says is true, until a later command is executed. *)
Answered ==
    /\ \A i \in DOMAIN out :
         /\ out[i].by = "recover" /\ OkMode(out[i].ans)
         /\ \A j \in DOMAIN out : out[j].by = "recover"
         => /\ recv = out[i].ans.cmd.at
            /\ \A j \in DOMAIN wire :
                 wire[j].by = "recover" /\ Base(wire[j].cmd) => wire[j].cmd = out[i].ans.cmd
    /\ \A i \in DOMAIN out :
         OkMode(out[i].ans) /\ out[i].ans.cmd = ModeBase(target) => Sound(ModeBase(target))

(* What has been captured since the command was sent is true of it. *)
Captured ==
    /\ pc["recover"] = "wait" => \A i \in DOMAIN cap : OkMode(cap[i]) => Sound(cap[i].cmd)
    /\ pc["heartbeat"] = "wait" =>
         \A i \in DOMAIN cap :
           OkMode(cap[i]) /\ cap[i].cmd = ModeBase(target) => Sound(ModeBase(target))

(* Until the base command of a recovery is sent there is none on the line. *)
NoneYet ==
    /\ acked = None
    /\ \A i \in DOMAIN wire : ~Base(wire[i].cmd)
    /\ \A i \in DOMAIN out : ~OkMode(out[i].ans)
    /\ pc["recover"] = "wait" => \A i \in DOMAIN cap : ~OkMode(cap[i])

OnlyThis(c) ==
    /\ acked = None
    /\ Only(c)
    /\ \A i \in DOMAIN out : OkMode(out[i].ans) => out[i].ans.cmd = c
    /\ pc["recover"] = "wait" => \A i \in DOMAIN cap : OkMode(cap[i]) => cap[i].cmd = c

Stage ==
    /\ pc["recover"] = "forget" => wire = <<>> /\ out = <<>>
    /\ pc["recover"] = "base" => NoneYet
    /\ pc["recover"] \in {"send", "wait"} /\ Early(todo["recover"]) => NoneYet
    /\ pc["recover"] \in {"send", "wait"} /\ Choice(todo["recover"]) => OnlyThis(Head(todo["recover"]))

(* The record is true. *)
Record ==
    /\ txn # "heartbeat" /\ acked # None /\ pc["recover"] # "forget" => Sound(ModeBase(acked))
    /\ txn = "heartbeat" /\ "mode" \in done["heartbeat"] => Sound(ModeBase(target))

Line == Order /\ OneBase /\ Answered /\ Captured /\ Stage /\ Record

BaseInv == TypeOK /\ Owner /\ Plan /\ (pc["recover"] # "pulse" => Line) /\ NeverResurveys
-----------------------------------------------------------------------------
(* The constants and the commands, as the provers need them. *)
LEMMA Consts ==
    /\ Valid \subseteq Coords /\ None \notin Coords /\ None \notin Valid
    /\ None # "recover" /\ None # "heartbeat" /\ Tasks = {"recover", "heartbeat"}
    /\ ACK_RETRIES \in Nat /\ MaxFaults \in Nat /\ MaxRecoveries \in Nat /\ MaxPushes \in Nat
  BY GnssConstants, Zenon DEF Tasks

LEMMA CmdFacts ==
    /\ Undulation \in Commands /\ Rtcm \in Commands /\ Survey \in Commands /\ Save \in Commands
    /\ Undulation.op = "undulation" /\ Rtcm.op = "rtcm" /\ Survey.op = "survey"
    /\ Save.op = "save"
    /\ \A c : ModeBase(c).op = "mode" /\ ModeBase(c).at = c
    /\ \A c \in Valid : ModeBase(c) \in Commands
    /\ \A c \in Commands : /\ c.op \in Ops
                           /\ c.op = "mode" => c.at \in Valid /\ c = ModeBase(c.at)
                           /\ c.op = "survey" => c = Survey
<1>1. /\ Undulation \in Commands /\ Rtcm \in Commands /\ Survey \in Commands
      /\ Save \in Commands
      /\ \A c \in Valid : ModeBase(c) \in Commands
  BY Zenon DEF Commands
<1>2. /\ Undulation.op = "undulation" /\ Rtcm.op = "rtcm" /\ Survey.op = "survey"
      /\ Save.op = "save"
      /\ \A c : ModeBase(c).op = "mode" /\ ModeBase(c).at = c
  BY SMT DEF Undulation, Rtcm, Survey, Save, ModeBase, Cmd
<1>3. ASSUME NEW c \in Commands
      PROVE  /\ c.op \in Ops
             /\ c.op = "mode" => c.at \in Valid /\ c = ModeBase(c.at)
             /\ c.op = "survey" => c = Survey
  <2>1. CASE c \in {Undulation, Rtcm, Survey, Save}
    BY <1>2, <2>1 DEF Ops
  <2>2. CASE \E d \in Valid : c = ModeBase(d)
    <3>1. PICK d \in Valid : c = ModeBase(d)
      BY <2>2
    <3>2. c.op = "mode" /\ c.at = d
      BY <1>2, <3>1, Zenon
    <3>3. QED
      BY <3>1, <3>2 DEF Ops
  <2>3. QED
    BY <2>1, <2>2, Zenon DEF Commands
<1>4. QED
  BY <1>1, <1>2, <1>3

LEMMA BaseFacts ==
    /\ ~Base(Undulation) /\ ~Base(Rtcm) /\ ~Base(Save) /\ Base(Survey)
    /\ \A c : Base(ModeBase(c))
    /\ \A c, d : ModeBase(c) = ModeBase(d) => c = d
    /\ \A c : ModeBase(c) # Survey
<1>1. /\ ~Base(Undulation) /\ ~Base(Rtcm) /\ ~Base(Save) /\ Base(Survey)
      /\ \A c : Base(ModeBase(c)) /\ ModeBase(c) # Survey
  BY CmdFacts DEF Base
<1>2. ASSUME NEW c, NEW d, ModeBase(c) = ModeBase(d) PROVE c = d
  <2>1. ModeBase(c).at = c /\ ModeBase(d).at = d
    BY CmdFacts, Zenon
  <2>2. QED
    BY <1>2, <2>1, Zenon
<1>3. QED
  BY <1>1, <1>2

(* A non-empty set of positions has a last one. *)
LEMMA LastExists ==
    ASSUME NEW n \in Nat, NEW T \in SUBSET (1 .. n), T # {}
    PROVE  Max(T) \in T
<1> DEFINE U == {n - i : i \in T}
<1>1. U \subseteq Nat /\ U # {}
  BY SMT
<1>2. PICK m \in U : \A y \in U : ~(<<y, m>> \in OpToRel(<, Nat))
  BY <1>1, NatLessThanWellFounded, WFMin, Zenon
<1>3. \A y \in U : ~(y < m)
  BY <1>1, <1>2, Zenon DEF OpToRel
<1>4. PICK x \in T : m = n - x
  BY Zenon
<1>5. \A y \in T : x >= y
  <2> TAKE y \in T
  <2>1. ~(n - y < n - x)
    BY <1>3, <1>4, Zenon
  <2>2. QED
    BY <2>1, SMT
<1>6. QED
  BY <1>5, Zenon DEF Max

(* gnss_ack_scan says OK only if a valid OK for the command was captured. *)
LEMMA AckScanIs ==
    ASSUME cap \in Seq(Answers), NEW c, AckScan(c) = "OK"
    PROVE  \E i \in DOMAIN cap : cap[i].valid /\ cap[i].cmd = c /\ cap[i].text = "OK"
<1> DEFINE hits == {i \in DOMAIN cap : cap[i].valid /\ cap[i].cmd = c /\ cap[i].text # "other"}
<1>1. hits # {} /\ cap[Max(hits)].text = "OK"
  BY DEF AckScan
<1>2. Len(cap) \in Nat /\ hits \in SUBSET (1 .. Len(cap))
  BY LenProperties
<1>3. Max(hits) \in hits
  BY <1>1, <1>2, LastExists, Zenon
<1>4. QED
  BY <1>1, <1>3, Zenon

(* Sequences, as the provers need them. *)
LEMMA Appended ==
    ASSUME NEW S, NEW s \in Seq(S), NEW e \in S
    PROVE  /\ Append(s, e) \in Seq(S) /\ Len(s) \in Nat
           /\ DOMAIN s = 1 .. Len(s) /\ DOMAIN Append(s, e) = 1 .. Len(s) + 1
           /\ \A i \in DOMAIN s : Append(s, e)[i] = s[i] /\ i \in DOMAIN Append(s, e) /\ i < Len(s) + 1
           /\ Append(s, e)[Len(s) + 1] = e
           /\ \A i \in DOMAIN Append(s, e) : i \in DOMAIN s \/ i = Len(s) + 1
  BY SMT

LEMMA Popped ==
    ASSUME NEW S, NEW s \in Seq(S), s # <<>>
    PROVE  /\ Tail(s) \in Seq(S) /\ Head(s) \in S /\ 1 \in DOMAIN s /\ Head(s) = s[1]
           /\ \A i \in DOMAIN Tail(s) : i + 1 \in DOMAIN s /\ Tail(s)[i] = s[i + 1] /\ 1 < i + 1
           /\ \A i, j \in DOMAIN Tail(s) : i < j => i + 1 < j + 1
<1>1. /\ Head(s) \in S /\ Tail(s) \in Seq(S) /\ Len(Tail(s)) = Len(s) - 1
      /\ \A i \in 1 .. Len(Tail(s)) : Tail(s)[i] = s[i + 1]
  BY HeadTailProperties
<1>2. Len(s) \in Nat \ {0} /\ DOMAIN s = 1 .. Len(s) /\ DOMAIN Tail(s) = 1 .. Len(Tail(s))
  BY <1>1, EmptySeq, LenProperties
<1>3. Head(s) = s[1]
  BY SMT
<1>4. QED
  BY <1>1, <1>2, <1>3, SMT

LEMMA Empty == DOMAIN <<>> = {} /\ \A S : <<>> \in Seq(S)
  BY EmptySeq, LenProperties, SMT

LEMMA Tuples ==
    ASSUME NEW a, NEW b, NEW c
    PROVE  /\ Head(<<a>>) = a /\ Tail(<<a>>) = <<>> /\ <<a>> # <<>>
           /\ Head(<<a, b>>) = a /\ Tail(<<a, b>>) = <<b>> /\ <<a, b>> # <<>>
           /\ <<a, b>> # <<c>>
           /\ Head(<<a, b, c>>) = a /\ Tail(<<a, b, c>>) = <<b, c>> /\ <<a, b, c>> # <<>>
           /\ <<a, b, c>> # <<a>>
  BY SMT

LEMMA TupleTypes ==
    ASSUME NEW S, NEW a \in S, NEW b \in S, NEW c \in S
    PROVE  <<a>> \in Seq(S) /\ <<a, b>> \in Seq(S) /\ <<a, b, c>> \in Seq(S)
  BY SMT

(* The type invariant by part of the state. *)
Places == {"off", "idle", "pulse", "forget", "send", "wait", "base", "finish", "version"}
StoreT == nvs \in Coords \cup {None} /\ acked \in Valid \cup {None} /\ fail \in Valid \cup {None}
TaskT ==
    /\ txn \in Tasks \cup {None}
    /\ pc \in [Tasks -> Places]
    /\ todo \in [Tasks -> Seq(Commands)]
    /\ attempt \in [Tasks -> 0 .. ACK_RETRIES] /\ done \in [Tasks -> SUBSET Ops]
    /\ target \in Coords \cup {None}
LineT ==
    /\ capturing \in BOOLEAN /\ cap \in Seq(Answers)
    /\ wire \in Seq([cmd : Commands, by : Tasks]) /\ out \in Seq([ans : Answers, by : Tasks])
ReceiverT == recv \in Valid \cup {None} /\ flash \in Valid \cup {None}
BoundsT ==
    /\ ie \in Coords
    /\ pushes \in 0 .. MaxPushes /\ faults \in 0 .. MaxFaults
    /\ recoveries \in 0 .. MaxRecoveries

LEMMA TypeParts == TypeOK <=> StoreT /\ TaskT /\ LineT /\ ReceiverT /\ BoundsT
  BY Zenon DEF TypeOK, StoreT, TaskT, LineT, ReceiverT, BoundsT, Places

LEMMA TypePartsNext == StoreT' /\ TaskT' /\ LineT' /\ ReceiverT' /\ BoundsT' => TypeOK'
  BY Zenon DEF TypeOK, StoreT, TaskT, LineT, ReceiverT, BoundsT, Places

(* What an action leaves alone keeps its type. *)
LEMMA TypeFrames ==
    ASSUME TypeOK
    PROVE  /\ UNCHANGED <<nvs, known>> => StoreT'
           /\ UNCHANGED task => TaskT'
           /\ UNCHANGED line => LineT'
           /\ UNCHANGED receiver => ReceiverT'
           /\ UNCHANGED <<ie, bounds>> => BoundsT'
  BY TypeParts, Zenon DEF StoreT, TaskT, LineT, ReceiverT, BoundsT, known, task, line,
     receiver, bounds

(* Where a task is in its commands, one case per command it may be at. *)
LEMMA PlanR ==
    ASSUME TypeOK, Plan, pc["recover"] \in {"send", "wait"}
    PROVE  \/ todo["recover"] = <<Undulation, Rtcm>>
           \/ todo["recover"] = <<Rtcm>>
           \/ \E c \in Commands : Base(c) /\ todo["recover"] = <<c, Save>>
           \/ todo["recover"] = <<Save>>
  BY Zenon DEF Plan, Early, Choice

LEMMA HeadIs ==
    ASSUME TypeOK, Plan, NEW t \in Tasks, pc[t] \in {"send", "wait"}
    PROVE  todo[t] # <<>> /\ Head(todo[t]) \in Commands /\ Tail(todo[t]) \in Seq(Commands)
<1>1. todo[t] \in Seq(Commands)
  BY TypeParts DEF TaskT
<1>2. todo[t] # <<>>
  <2>1. CASE t = "recover"
    <3>1. pc["recover"] \in {"send", "wait"}
      BY <2>1
    <3>2. CASE \E c \in Commands : Base(c) /\ todo["recover"] = <<c, Save>>
      BY <2>1, <3>2
    <3>3. CASE ~\E c \in Commands : Base(c) /\ todo["recover"] = <<c, Save>>
      <4>1. todo["recover"] \in {<<Undulation, Rtcm>>, <<Rtcm>>, <<Save>>}
        BY <3>1, <3>3, PlanR, Zenon
      <4>2. QED
        BY <2>1, <4>1
    <3>4. QED
      BY <3>2, <3>3
  <2>2. CASE t = "heartbeat"
    BY <2>2 DEF Plan
  <2>3. QED
    BY <2>1, <2>2, Consts
<1>3. QED
  BY <1>1, <1>2, Popped, Zenon

(* config_gnss_base goes on to the next command whatever the verdict is. *)
LEMMA OutcomeR ==
    ASSUME TypeOK, Plan, pc["recover"] = "wait", NEW ok \in BOOLEAN, Outcome("recover", ok)
    PROVE  /\ \/ /\ todo["recover"] = <<Undulation, Rtcm>> /\ todo'["recover"] = <<Rtcm>>
                 /\ pc'["recover"] = "send" /\ acked' = acked
              \/ /\ todo["recover"] = <<Rtcm>> /\ pc'["recover"] = "base" /\ acked' = acked
              \/ \E c \in Commands :
                   /\ Base(c) /\ todo["recover"] = <<c, Save>> /\ todo'["recover"] = <<Save>>
                   /\ pc'["recover"] = "send"
                   /\ acked' = IF c.op = "mode" THEN IF ok THEN c.at ELSE None ELSE acked
              \/ /\ todo["recover"] = <<Save>> /\ pc'["recover"] = "finish" /\ acked' = acked
           /\ pc'["heartbeat"] = pc["heartbeat"] /\ todo'["heartbeat"] = todo["heartbeat"]
           /\ done'["heartbeat"] = done["heartbeat"]
<1> DEFINE cmd == Head(todo["recover"])
           rest == Tail(todo["recover"])
<1>1. /\ pc \in [Tasks -> Places] /\ todo \in [Tasks -> Seq(Commands)]
      /\ done \in [Tasks -> SUBSET Ops]
      /\ "recover" \in Tasks /\ "heartbeat" \in Tasks /\ "recover" # "heartbeat"
  BY TypeParts, Consts DEF TaskT
<1>2. /\ todo' = [todo EXCEPT !["recover"] = rest]
      /\ pc' = [pc EXCEPT !["recover"] = IF rest # <<>> THEN "send"
                                         ELSE IF cmd.op = "rtcm" THEN "base" ELSE "finish"]
      /\ acked' = IF cmd.op = "mode" THEN IF ok THEN cmd.at ELSE None ELSE acked
  BY <1>1, Zenon DEF Outcome
<1>3. /\ pc'["heartbeat"] = pc["heartbeat"] /\ todo'["heartbeat"] = todo["heartbeat"]
      /\ done'["heartbeat"] = done["heartbeat"]
  BY <1>1, Zenon DEF Outcome
<1>4. /\ todo'["recover"] = rest
      /\ pc'["recover"] = IF rest # <<>> THEN "send" ELSE IF cmd.op = "rtcm" THEN "base" ELSE "finish"
  BY <1>1, <1>2, Zenon
<1>5. CASE todo["recover"] = <<Undulation, Rtcm>>
  <2>1. cmd = Undulation /\ rest = <<Rtcm>> /\ rest # <<>>
    BY <1>5, Tuples
  <2>2. cmd.op # "mode"
    BY <2>1, CmdFacts
  <2>3. QED
    BY <1>2, <1>3, <1>4, <1>5, <2>1, <2>2, Zenon
<1>6. CASE todo["recover"] = <<Rtcm>>
  <2>1. cmd = Rtcm /\ rest = <<>>
    BY <1>6, Tuples
  <2>2. cmd.op = "rtcm" /\ cmd.op # "mode"
    BY <2>1, CmdFacts
  <2>3. QED
    BY <1>2, <1>3, <1>4, <1>6, <2>1, <2>2, Zenon
<1>7. CASE \E c \in Commands : Base(c) /\ todo["recover"] = <<c, Save>>
  <2>1. PICK c \in Commands : Base(c) /\ todo["recover"] = <<c, Save>>
    BY <1>7
  <2>2. cmd = c /\ rest = <<Save>> /\ rest # <<>>
    BY <2>1, Tuples
  <2>3. QED
    BY <1>2, <1>3, <1>4, <2>1, <2>2, Zenon
<1>8. CASE todo["recover"] = <<Save>>
  <2>1. cmd = Save /\ rest = <<>>
    BY <1>8, Tuples
  <2>2. cmd.op # "rtcm" /\ cmd.op # "mode"
    BY <2>1, CmdFacts
  <2>3. QED
    BY <1>2, <1>3, <1>4, <1>8, <2>1, <2>2, Zenon
<1>9. QED
  BY <1>5, <1>6, <1>7, <1>8, PlanR, Zenon

(* gnss_set_fixed_base gives up after a mode base that was not acknowledged. *)
LEMMA OutcomeH ==
    ASSUME TypeOK, Plan, pc["heartbeat"] = "wait", NEW ok \in BOOLEAN, Outcome("heartbeat", ok)
    PROVE  /\ \/ /\ todo["heartbeat"] = <<Undulation, ModeBase(target), Save>>
                 /\ todo'["heartbeat"] = <<ModeBase(target), Save>> /\ pc'["heartbeat"] = "send"
                 /\ "mode" \in done'["heartbeat"] <=> "mode" \in done["heartbeat"]
                 /\ "save" \in done'["heartbeat"] <=> "save" \in done["heartbeat"]
              \/ /\ todo["heartbeat"] = <<ModeBase(target), Save>>
                 /\ IF ok THEN /\ todo'["heartbeat"] = <<Save>> /\ pc'["heartbeat"] = "send"
                               /\ "mode" \in done'["heartbeat"]
                          ELSE /\ todo'["heartbeat"] = <<>> /\ pc'["heartbeat"] = "finish"
                               /\ done'["heartbeat"] = done["heartbeat"]
              \/ /\ todo["heartbeat"] = <<Save>>
                 /\ todo'["heartbeat"] = <<>> /\ pc'["heartbeat"] = "finish"
                 /\ "mode" \in done'["heartbeat"] <=> "mode" \in done["heartbeat"]
           /\ pc'["recover"] = pc["recover"] /\ todo'["recover"] = todo["recover"]
           /\ acked' = acked
<1> DEFINE cmd == Head(todo["heartbeat"])
           rest == IF cmd.op = "mode" /\ ~ok THEN <<>> ELSE Tail(todo["heartbeat"])
<1>1. /\ pc \in [Tasks -> Places] /\ todo \in [Tasks -> Seq(Commands)]
      /\ done \in [Tasks -> SUBSET Ops]
      /\ "recover" \in Tasks /\ "heartbeat" \in Tasks /\ "recover" # "heartbeat"
  BY TypeParts, Consts DEF TaskT
<1>2. /\ todo' = [todo EXCEPT !["heartbeat"] = rest]
      /\ done' = [done EXCEPT !["heartbeat"] = IF ok THEN done["heartbeat"] \cup {cmd.op} ELSE done["heartbeat"]]
      /\ pc' = [pc EXCEPT !["heartbeat"] = IF rest # <<>> THEN "send"
                                           ELSE IF cmd.op = "rtcm" THEN "base" ELSE "finish"]
      /\ acked' = acked
  BY <1>1, Zenon DEF Outcome
<1>3. pc'["recover"] = pc["recover"] /\ todo'["recover"] = todo["recover"] /\ acked' = acked
  BY <1>1, <1>2, Zenon
<1>4. /\ todo'["heartbeat"] = rest
      /\ done'["heartbeat"] = IF ok THEN done["heartbeat"] \cup {cmd.op} ELSE done["heartbeat"]
      /\ pc'["heartbeat"] = IF rest # <<>> THEN "send" ELSE IF cmd.op = "rtcm" THEN "base" ELSE "finish"
  BY <1>1, <1>2, Zenon
<1>5. CASE todo["heartbeat"] = <<Undulation, ModeBase(target), Save>>
  <2>1. cmd = Undulation /\ cmd.op = "undulation"
    BY <1>5, Tuples, CmdFacts
  <2>2. rest = <<ModeBase(target), Save>> /\ rest # <<>>
    BY <1>5, <2>1, Tuples
  <2>3. QED
    BY <1>3, <1>4, <1>5, <2>1, <2>2
<1>6. CASE todo["heartbeat"] = <<ModeBase(target), Save>>
  <2>1. cmd = ModeBase(target) /\ cmd.op = "mode"
    BY <1>6, Tuples, CmdFacts
  <2>2. CASE ok
    <3>1. rest = <<Save>> /\ rest # <<>>
      BY <1>6, <2>1, <2>2, Tuples
    <3>2. QED
      BY <1>3, <1>4, <1>6, <2>1, <2>2, <3>1, Zenon
  <2>3. CASE ~ok
    <3>1. rest = <<>> /\ cmd.op # "rtcm"
      BY <2>1, <2>3
    <3>2. QED
      BY <1>3, <1>4, <1>6, <2>3, <3>1, Zenon
  <2>4. QED
    BY <2>2, <2>3
<1>7. CASE todo["heartbeat"] = <<Save>>
  <2>1. cmd = Save /\ cmd.op = "save"
    BY <1>7, Tuples, CmdFacts
  <2>2. rest = <<>> /\ cmd.op # "rtcm"
    BY <1>7, <2>1, Tuples
  <2>3. QED
    BY <1>3, <1>4, <1>7, <2>1, <2>2
<1>8. QED
  BY <1>5, <1>6, <1>7, Zenon DEF Plan

(* A verdict keeps the types. *)
LEMMA OutcomeT ==
    ASSUME TypeOK, Plan, NEW t \in Tasks, pc[t] = "wait", NEW ok \in BOOLEAN, Outcome(t, ok),
           UNCHANGED <<txn, target, nvs, fail>>
    PROVE  TaskT' /\ StoreT'
<1> DEFINE cmd == Head(todo[t])
           rest == IF t = "heartbeat" /\ cmd.op = "mode" /\ ~ok THEN <<>> ELSE Tail(todo[t])
<1>1. cmd \in Commands /\ rest \in Seq(Commands) /\ cmd.op \in Ops
  BY HeadIs, CmdFacts, Empty, Zenon
<1>2. /\ todo' = [todo EXCEPT ![t] = rest]
      /\ done' = [done EXCEPT ![t] = IF ok THEN done[t] \cup {cmd.op} ELSE done[t]]
      /\ attempt' = [attempt EXCEPT ![t] = 0]
      /\ pc' = [pc EXCEPT ![t] = IF rest # <<>> THEN "send"
                                 ELSE IF cmd.op = "rtcm" THEN "base" ELSE "finish"]
      /\ acked' = IF t = "recover" /\ cmd.op = "mode" THEN IF ok THEN cmd.at ELSE None ELSE acked
  BY TypeParts, Zenon DEF Outcome, TaskT
<1> HIDE DEF cmd, rest
<1>3. 0 \in 0 .. ACK_RETRIES
  BY Consts
<1>4. todo' \in [Tasks -> Seq(Commands)] /\ done' \in [Tasks -> SUBSET Ops]
  BY <1>1, <1>2, TypeParts DEF TaskT
<1>5. attempt' \in [Tasks -> 0 .. ACK_RETRIES]
  BY <1>2, <1>3, TypeParts, Zenon DEF TaskT
<1>6. pc' \in [Tasks -> Places]
  BY <1>2, TypeParts DEF TaskT, Places
<1>7. acked' \in Valid \cup {None}
  BY <1>1, <1>2, CmdFacts, TypeParts, Zenon DEF StoreT
<1>8. QED
  BY <1>4, <1>5, <1>6, <1>7, TypeParts, Zenon DEF TaskT, StoreT
(* Every step keeps the types. *)
LEMMA TypeStep == ASSUME TypeOK, Owner, Plan, [Next]_vars PROVE TypeOK'
<1>1. CASE Send("recover")
  <2> DEFINE e == [cmd |-> Head(todo["recover"]), by |-> "recover"]
  <2>1. "recover" \in Tasks /\ pc["recover"] = "send" /\ pc' = [pc EXCEPT !["recover"] = "wait"]
    BY <1>1, Consts, Zenon DEF Send
  <2>2. cap' = <<>> /\ wire' = Append(wire, e) /\ UNCHANGED <<capturing, out>>
    BY <1>1, Zenon DEF Send
  <2>3. e \in [cmd : Commands, by : Tasks]
    BY <2>1, HeadIs
  <2> HIDE DEF e
  <2>4. wire' \in Seq([cmd : Commands, by : Tasks]) /\ cap' \in Seq(Answers)
    BY <2>2, <2>3, TypeParts, Appended, Empty, Zenon DEF LineT
  <2>5. LineT'
    BY <2>2, <2>4, TypeParts, Zenon DEF LineT
  <2>6. pc' \in [Tasks -> Places]
    BY <2>1, TypeParts DEF TaskT, Places
  <2>7. TaskT'
    BY <1>1, <2>6, TypeParts, Zenon DEF TaskT, Send
  <2>8. QED
    BY <1>1, <2>5, <2>7, TypeFrames, TypePartsNext, Zenon DEF Send
<1>2. CASE Send("heartbeat")
  <2> DEFINE e == [cmd |-> Head(todo["heartbeat"]), by |-> "heartbeat"]
  <2>1. "heartbeat" \in Tasks /\ pc["heartbeat"] = "send" /\ pc' = [pc EXCEPT !["heartbeat"] = "wait"]
    BY <1>2, Consts, Zenon DEF Send
  <2>2. cap' = <<>> /\ wire' = Append(wire, e) /\ UNCHANGED <<capturing, out>>
    BY <1>2, Zenon DEF Send
  <2>3. e \in [cmd : Commands, by : Tasks]
    BY <2>1, HeadIs
  <2> HIDE DEF e
  <2>4. wire' \in Seq([cmd : Commands, by : Tasks]) /\ cap' \in Seq(Answers)
    BY <2>2, <2>3, TypeParts, Appended, Empty, Zenon DEF LineT
  <2>5. LineT'
    BY <2>2, <2>4, TypeParts, Zenon DEF LineT
  <2>6. pc' \in [Tasks -> Places]
    BY <2>1, TypeParts DEF TaskT, Places
  <2>7. TaskT'
    BY <1>2, <2>6, TypeParts, Zenon DEF TaskT, Send
  <2>8. QED
    BY <1>2, <2>5, <2>7, TypeFrames, TypePartsNext, Zenon DEF Send
<1>3. CASE Verdict("recover")
  <2>1. "recover" \in Tasks /\ pc["recover"] = "wait" /\ UNCHANGED <<nvs, fail, txn, target, line, receiver, ie, bounds>>
    BY <1>3, Consts, Zenon DEF Verdict
  <2>2. Outcome("recover", AckScan(Head(todo["recover"])) = "OK")
    BY <1>3, Zenon DEF Verdict
  <2>3. TaskT' /\ StoreT'
    BY <2>1, <2>2, OutcomeT, Zenon
  <2>4. QED
    BY <2>1, <2>3, TypeFrames, TypePartsNext, Zenon
<1>4. CASE Verdict("heartbeat")
  <2>1. "heartbeat" \in Tasks /\ pc["heartbeat"] = "wait" /\ UNCHANGED <<nvs, fail, txn, target, line, receiver, ie, bounds>>
    BY <1>4, Consts, Zenon DEF Verdict
  <2>2. Outcome("heartbeat", AckScan(Head(todo["heartbeat"])) = "OK")
    BY <1>4, Zenon DEF Verdict
  <2>3. TaskT' /\ StoreT'
    BY <2>1, <2>2, OutcomeT, Zenon
  <2>4. QED
    BY <2>1, <2>3, TypeFrames, TypePartsNext, Zenon
<1>5. CASE AckTimeout("recover")
  <2>1. "recover" \in Tasks /\ pc["recover"] = "wait" /\ UNCHANGED <<nvs, fail, txn, target, line, receiver, ie, pushes, recoveries>>
    BY <1>5, Consts, Zenon DEF AckTimeout
  <2>2. faults' \in 0 .. MaxFaults
    BY <1>5, Consts, TypeParts DEF AckTimeout, Fault, BoundsT
  <2>3. BoundsT'
    BY <2>1, <2>2, TypeParts, Zenon DEF BoundsT
  <2>4. CASE MayRetry("recover")
    <3>1. /\ attempt' = [attempt EXCEPT !["recover"] = attempt["recover"] + 1]
          /\ pc' = [pc EXCEPT !["recover"] = "send"]
          /\ UNCHANGED <<todo, done, acked>>
      BY <1>5, <2>1, <2>4, TypeParts, Zenon DEF AckTimeout, TaskT
    <3>2. attempt["recover"] + 1 \in 0 .. ACK_RETRIES
      BY <2>1, <2>4, Consts, TypeParts DEF MayRetry, TaskT
    <3>3. attempt' \in [Tasks -> 0 .. ACK_RETRIES]
      BY <3>1, <3>2, TypeParts, Zenon DEF TaskT
    <3>4. pc' \in [Tasks -> Places]
      BY <3>1, TypeParts DEF TaskT, Places
    <3>5. TaskT' /\ StoreT'
      BY <2>1, <3>1, <3>3, <3>4, TypeParts, Zenon DEF TaskT, StoreT
    <3>6. QED
      BY <2>1, <2>3, <3>5, TypeFrames, TypePartsNext, Zenon
  <2>5. CASE ~MayRetry("recover")
    <3>1. Outcome("recover", FALSE)
      BY <1>5, <2>5, Zenon DEF AckTimeout
    <3>2. TaskT' /\ StoreT'
      BY <2>1, <3>1, OutcomeT
    <3>3. QED
      BY <2>1, <2>3, <3>2, TypeFrames, TypePartsNext, Zenon
  <2>6. QED
    BY <2>4, <2>5
<1>6. CASE AckTimeout("heartbeat")
  <2>1. "heartbeat" \in Tasks /\ pc["heartbeat"] = "wait" /\ UNCHANGED <<nvs, fail, txn, target, line, receiver, ie, pushes, recoveries>>
    BY <1>6, Consts, Zenon DEF AckTimeout
  <2>2. faults' \in 0 .. MaxFaults
    BY <1>6, Consts, TypeParts DEF AckTimeout, Fault, BoundsT
  <2>3. BoundsT'
    BY <2>1, <2>2, TypeParts, Zenon DEF BoundsT
  <2>4. CASE MayRetry("heartbeat")
    <3>1. /\ attempt' = [attempt EXCEPT !["heartbeat"] = attempt["heartbeat"] + 1]
          /\ pc' = [pc EXCEPT !["heartbeat"] = "send"]
          /\ UNCHANGED <<todo, done, acked>>
      BY <1>6, <2>1, <2>4, TypeParts, Zenon DEF AckTimeout, TaskT
    <3>2. attempt["heartbeat"] + 1 \in 0 .. ACK_RETRIES
      BY <2>1, <2>4, Consts, TypeParts DEF MayRetry, TaskT
    <3>3. attempt' \in [Tasks -> 0 .. ACK_RETRIES]
      BY <3>1, <3>2, TypeParts, Zenon DEF TaskT
    <3>4. pc' \in [Tasks -> Places]
      BY <3>1, TypeParts DEF TaskT, Places
    <3>5. TaskT' /\ StoreT'
      BY <2>1, <3>1, <3>3, <3>4, TypeParts, Zenon DEF TaskT, StoreT
    <3>6. QED
      BY <2>1, <2>3, <3>5, TypeFrames, TypePartsNext, Zenon
  <2>5. CASE ~MayRetry("heartbeat")
    <3>1. Outcome("heartbeat", FALSE)
      BY <1>6, <2>5, Zenon DEF AckTimeout
    <3>2. TaskT' /\ StoreT'
      BY <2>1, <3>1, OutcomeT
    <3>3. QED
      BY <2>1, <2>3, <3>2, TypeFrames, TypePartsNext, Zenon
  <2>6. QED
    BY <2>4, <2>5
<1>7. CASE ResetPulse
  BY <1>7, Consts, CmdFacts, Empty DEF ResetPulse, TypeOK, vars, known, task, line,
     receiver, bounds
<1>8. CASE EpochInvalidate
  <2>1. <<Undulation, Rtcm>> \in Seq(Commands)
    BY CmdFacts, TupleTypes, Zenon
  <2>2. pc' \in [Tasks -> Places]
    BY <1>8, TypeParts DEF EpochInvalidate, TaskT, Places
  <2>3. todo' \in [Tasks -> Seq(Commands)] /\ done' \in [Tasks -> SUBSET Ops]
    BY <1>8, <2>1, TypeParts, Zenon DEF EpochInvalidate, TaskT
  <2>4. TaskT'
    BY <1>8, <2>2, <2>3, TypeParts, Zenon DEF EpochInvalidate, TaskT
  <2>5. StoreT' /\ LineT'
    BY <1>8, TypeParts, Zenon DEF EpochInvalidate, StoreT, LineT
  <2>6. QED
    BY <1>8, <2>4, <2>5, TypeFrames, TypePartsNext, Zenon DEF EpochInvalidate
<1>9. CASE ChooseBase
  <2> DEFINE first == IF LoadFixedBase # None THEN ModeBase(LoadFixedBase) ELSE Survey
  <2>1. first \in Commands /\ Save \in Commands
    BY CmdFacts, Consts, Zenon DEF LoadFixedBase
  <2>2. <<first, Save>> \in Seq(Commands)
    BY <2>1, TupleTypes, Zenon
  <2>3. /\ todo' = [todo EXCEPT !["recover"] = <<first, Save>>]
        /\ pc' = [pc EXCEPT !["recover"] = "send"] /\ acked' \in {acked, None}
        /\ UNCHANGED <<nvs, fail, txn, attempt, done, target>>
    BY <1>9, Zenon DEF ChooseBase
  <2> HIDE DEF first
  <2>4. todo' \in [Tasks -> Seq(Commands)]
    BY <2>2, <2>3, TypeParts, Zenon DEF TaskT
  <2>5. pc' \in [Tasks -> Places]
    BY <2>3, TypeParts DEF TaskT, Places
  <2>6. TaskT' /\ StoreT'
    BY <2>3, <2>4, <2>5, TypeParts, Zenon DEF TaskT, StoreT
  <2>7. QED
    BY <1>9, <2>6, TypeFrames, TypePartsNext, Zenon DEF ChooseBase
<1>10. CASE ConfigEnds
  BY <1>10, Consts, CmdFacts, Empty, ZenonT(30) DEF ConfigEnds, TypeOK, vars, known, task, line,
     receiver, bounds
<1>11. CASE LogVersion
  BY <1>11, Consts, CmdFacts, Empty DEF LogVersion, TypeOK, vars, known, task, line,
     receiver, bounds
<1>12. CASE RecoverBegins
  BY <1>12, Consts, CmdFacts, Empty DEF RecoverBegins, TypeOK, vars, known, task, line,
     receiver, bounds
<1>13. CASE SetFixedBase
  <2>1. CASE ie \in {acked, fail}
    <3>1. nvs' \in {nvs, ie} /\ UNCHANGED <<known, task, line, receiver, ie, bounds>>
      BY <1>13, <2>1, Zenon DEF SetFixedBase, task, line
    <3>2. StoreT'
      BY <3>1, TypeParts, Zenon DEF StoreT, BoundsT, known
    <3>3. QED
      BY <3>1, <3>2, TypeFrames, TypePartsNext, Zenon
  <2>2. CASE ie \notin {acked, fail}
    <3>1. /\ txn' = "heartbeat" /\ capturing' = TRUE /\ target' = ie /\ ie \in Valid
          /\ done' = [done EXCEPT !["heartbeat"] = {}]
          /\ todo' = [todo EXCEPT !["heartbeat"] = <<Undulation, ModeBase(ie), Save>>]
          /\ pc' = [pc EXCEPT !["heartbeat"] = "send"]
          /\ UNCHANGED <<nvs, known, attempt, cap, wire, out, receiver, ie, bounds>>
      BY <1>13, <2>2, Zenon DEF SetFixedBase
    <3>2. <<Undulation, ModeBase(ie), Save>> \in Seq(Commands)
      BY <3>1, CmdFacts, TupleTypes, Zenon
    <3>3. todo' \in [Tasks -> Seq(Commands)] /\ done' \in [Tasks -> SUBSET Ops]
      BY <3>1, <3>2, TypeParts, Zenon DEF TaskT
    <3>4. pc' \in [Tasks -> Places]
      BY <3>1, TypeParts DEF TaskT, Places
    <3>5. TaskT' /\ LineT'
      BY <3>1, <3>3, <3>4, Consts, TypeParts, Zenon DEF TaskT, LineT
    <3>6. QED
      BY <3>1, <3>5, TypeFrames, TypePartsNext, Zenon
  <2>3. QED
    BY <2>1, <2>2
<1>14. CASE FixedBaseEnds
  <2>1. txn = "heartbeat" /\ target \in Valid
    BY <1>14, Zenon DEF FixedBaseEnds, Owner, Plan
  <2>2. pc' \in [Tasks -> Places]
    BY <1>14, TypeParts DEF FixedBaseEnds, TaskT, Places
  <2>3. TaskT'
    BY <1>14, <2>2, TypeParts, Zenon DEF FixedBaseEnds, TaskT
  <2>4. StoreT' /\ LineT'
    BY <1>14, <2>1, Consts, TypeParts, Zenon DEF FixedBaseEnds, StoreT, LineT
  <2>5. QED
    BY <1>14, <2>3, <2>4, TypeFrames, TypePartsNext, Zenon DEF FixedBaseEnds
<1>15. CASE CooldownEnds
  BY <1>15, Consts, CmdFacts, Empty DEF CooldownEnds, TypeOK, vars, known, task, line,
     receiver, bounds
<1>16. CASE Execute
  <2> DEFINE x == Head(wire)
  <2>1. wire # <<>> /\ wire' = Tail(wire) /\ recv' = Executed(x.cmd) /\ flash' \in {recv, flash}
    BY <1>16, Zenon DEF Execute
  <2>2. x \in [cmd : Commands, by : Tasks] /\ wire' \in Seq([cmd : Commands, by : Tasks])
    BY <2>1, TypeParts, Popped, Zenon DEF LineT
  <2>3. x.cmd \in Commands /\ x.by \in Tasks
    BY <2>2
  <2>4. ReceiverT'
    BY <2>1, <2>3, CmdFacts, TypeParts DEF Executed, ReceiverT
  <2>5. PICK v \in BOOLEAN : out' = Append(out, [ans |-> [cmd |-> x.cmd, text |-> "OK", valid |-> v], by |-> x.by])
    BY <1>16, Zenon DEF Execute, Answer
  <2>6. [ans |-> [cmd |-> x.cmd, text |-> "OK", valid |-> v], by |-> x.by] \in [ans : Answers, by : Tasks]
    BY <2>3 DEF Answers
  <2> DEFINE e == [ans |-> [cmd |-> x.cmd, text |-> "OK", valid |-> v], by |-> x.by]
  <2>7. out' \in Seq([ans : Answers, by : Tasks])
    <3>1. e \in [ans : Answers, by : Tasks] /\ out' = Append(out, e) /\ out \in Seq([ans : Answers, by : Tasks])
      BY <2>5, <2>6, TypeParts, Zenon DEF LineT
    <3> HIDE DEF e
    <3>2. QED
      BY <3>1, Appended, Zenon
  <2>8. LineT'
    BY <1>16, <2>2, <2>7, TypeParts, Zenon DEF Execute, LineT
  <2>9. faults' \in 0 .. MaxFaults
    <3>1. faults' = faults \/ Fault
      BY <1>16, Zenon DEF Execute
    <3>2. QED
      BY <3>1, Consts, TypeParts DEF Fault, BoundsT
  <2>10. BoundsT'
    BY <1>16, <2>9, TypeParts, Zenon DEF Execute, BoundsT
  <2>11. QED
    BY <1>16, <2>4, <2>8, <2>10, TypeFrames, TypePartsNext, Zenon DEF Execute
<1>17. CASE Refuse
  <2> DEFINE x == Head(wire)
  <2>1. wire # <<>> /\ wire' = Tail(wire)
    BY <1>17, Zenon DEF Refuse
  <2>2. x \in [cmd : Commands, by : Tasks] /\ wire' \in Seq([cmd : Commands, by : Tasks])
    BY <2>1, TypeParts, Popped, Zenon DEF LineT
  <2>3. x.cmd \in Commands /\ x.by \in Tasks
    BY <2>2
  <2>4. PICK w \in {"OK", "FAIL", "other"}, v \in BOOLEAN :
          out' = Append(out, [ans |-> [cmd |-> x.cmd, text |-> w, valid |-> v], by |-> x.by])
    BY <1>17, Zenon DEF Refuse, Answer
  <2>5. [ans |-> [cmd |-> x.cmd, text |-> w, valid |-> v], by |-> x.by] \in [ans : Answers, by : Tasks]
    BY <2>3 DEF Answers
  <2> DEFINE e == [ans |-> [cmd |-> x.cmd, text |-> w, valid |-> v], by |-> x.by]
  <2>6. out' \in Seq([ans : Answers, by : Tasks])
    <3>1. e \in [ans : Answers, by : Tasks] /\ out' = Append(out, e) /\ out \in Seq([ans : Answers, by : Tasks])
      BY <2>4, <2>5, TypeParts, Zenon DEF LineT
    <3> HIDE DEF e
    <3>2. QED
      BY <3>1, Appended, Zenon
  <2>7. LineT'
    BY <1>17, <2>2, <2>6, TypeParts, Zenon DEF Refuse, LineT
  <2>8. faults' \in 0 .. MaxFaults
    BY <1>17, Consts, TypeParts DEF Refuse, Fault, BoundsT
  <2>9. BoundsT'
    BY <1>17, <2>8, TypeParts, Zenon DEF Refuse, BoundsT
  <2>10. QED
    BY <1>17, <2>7, <2>9, TypeFrames, TypePartsNext, Zenon DEF Refuse
<1>18. CASE LoseCommand
  <2>1. wire' \in Seq([cmd : Commands, by : Tasks])
    BY <1>18, TypeParts, Popped, Zenon DEF LoseCommand, LineT
  <2>2. LineT'
    BY <1>18, <2>1, TypeParts, Zenon DEF LoseCommand, LineT
  <2>3. faults' \in 0 .. MaxFaults
    BY <1>18, Consts, TypeParts DEF LoseCommand, Fault, BoundsT
  <2>4. BoundsT'
    BY <1>18, <2>3, TypeParts, Zenon DEF LoseCommand, BoundsT
  <2>5. QED
    BY <1>18, <2>2, <2>4, TypeFrames, TypePartsNext, Zenon DEF LoseCommand
<1>19. CASE IngestUart
  <2>1. out' \in Seq([ans : Answers, by : Tasks]) /\ Head(out) \in [ans : Answers, by : Tasks]
    BY <1>19, TypeParts, Popped, Zenon DEF IngestUart, LineT
  <2>2. Head(out).ans \in Answers
    BY <2>1
  <2>3. cap' \in Seq(Answers)
    BY <1>19, <2>2, TypeParts, Appended, Zenon DEF IngestUart, LineT
  <2>4. LineT'
    BY <1>19, <2>1, <2>3, TypeParts, Zenon DEF IngestUart, LineT
  <2>5. QED
    BY <1>19, <2>4, TypeFrames, TypePartsNext, Zenon DEF IngestUart
<1>20. CASE CaptureOverflows
  <2>1. LineT'
    BY <1>20, TypeParts, Empty, Zenon DEF CaptureOverflows, LineT
  <2>2. faults' \in 0 .. MaxFaults
    BY <1>20, Consts, TypeParts DEF CaptureOverflows, Fault, BoundsT
  <2>3. BoundsT'
    BY <1>20, <2>2, TypeParts, Zenon DEF CaptureOverflows, BoundsT
  <2>4. QED
    BY <1>20, <2>1, <2>3, TypeFrames, TypePartsNext, Zenon DEF CaptureOverflows
<1>21. CASE Correct
  BY <1>21, Consts, CmdFacts, Empty DEF Correct, TypeOK, vars, known, task, line,
     receiver, bounds
<1>22. CASE Restart
  <2>1. 0 \in 0 .. ACK_RETRIES /\ recoveries' \in 0 .. MaxRecoveries
    BY <1>22, Consts, TypeParts DEF Restart, BoundsT
  <2>2. BoundsT'
    BY <1>22, <2>1, TypeParts, Zenon DEF Restart, BoundsT
  <2>3. pc' \in [Tasks -> Places]
    BY <1>22 DEF Restart, BootPc, Places
  <2>4. todo' \in [Tasks -> Seq(Commands)] /\ done' \in [Tasks -> SUBSET Ops] /\ attempt' \in [Tasks -> 0 .. ACK_RETRIES]
    BY <1>22, <2>1, Empty, Zenon DEF Restart
  <2>5. TaskT'
    BY <1>22, <2>3, <2>4, Consts, Zenon DEF Restart, TaskT
  <2>6. StoreT' /\ LineT'
    BY <1>22, Empty, TypeParts, Zenon DEF Restart, StoreT, LineT
  <2>7. QED
    BY <1>22, <2>2, <2>5, <2>6, TypeFrames, TypePartsNext, Zenon DEF Restart
<1>23. CASE UNCHANGED vars
  BY <1>23, Consts, CmdFacts, Empty DEF vars, TypeOK, vars, known, task, line, receiver,
     bounds
<1>24. QED
  BY <1>1, <1>2, <1>3, <1>4, <1>5, <1>6, <1>7, <1>8, <1>9, <1>10, <1>11, <1>12, <1>13,
     <1>14, <1>15, <1>16, <1>17, <1>18, <1>19, <1>20, <1>21, <1>22, <1>23 DEF Next,
     Recover, Heartbeat, Receiver, Commanding

(* Going on to the next command keeps each task's place. *)
LEMMA GoesOnR ==
    ASSUME TypeOK, Owner, Plan, pc["recover"] = "wait", NEW ok \in BOOLEAN, Outcome("recover", ok),
           UNCHANGED <<nvs, fail, txn, target>>
    PROVE  (Owner /\ Plan)'
<1>1. /\ pc'["heartbeat"] = pc["heartbeat"] /\ todo'["heartbeat"] = todo["heartbeat"]
      /\ done'["heartbeat"] = done["heartbeat"] /\ pc'["recover"] \in {"send", "base", "finish"}
  BY OutcomeR, Zenon
<1>2. Owner'
  BY <1>1 DEF Owner, Busy
<1>3. pc'["recover"] = "send" => todo'["recover"] \in {<<Rtcm>>, <<Save>>}
  BY OutcomeR
<1>4. pc'["recover"] = "send" => Head(todo'["recover"]) # Survey
  BY <1>3, CmdFacts
<1>5. QED
  BY <1>1, <1>2, <1>3, <1>4 DEF Plan, Early

LEMMA GoesOnH ==
    ASSUME TypeOK, Owner, Plan, pc["heartbeat"] = "wait", NEW ok \in BOOLEAN,
           Outcome("heartbeat", ok), UNCHANGED <<nvs, fail, txn, target>>
    PROVE  (Owner /\ Plan)'
<1>1. /\ pc'["recover"] = pc["recover"] /\ todo'["recover"] = todo["recover"]
      /\ pc'["heartbeat"] \in {"send", "finish"} /\ txn = "heartbeat"
  BY OutcomeH, Zenon DEF Owner
<1>2. Owner'
  BY <1>1 DEF Owner, Busy
<1>3. pc'["heartbeat"] = "send" => todo'["heartbeat"] \in {<<ModeBase(target), Save>>, <<Save>>}
  BY OutcomeH, Zenon
<1>4. todo'["heartbeat"] = <<Save>> => "mode" \in done'["heartbeat"]
  BY OutcomeH
<1>5. "save" \in done'["heartbeat"] => "mode" \in done'["heartbeat"]
  BY <1>1, OutcomeH, Zenon DEF Plan
<1>6. QED
  BY <1>1, <1>2, <1>3, <1>4, <1>5, Zenon DEF Plan, Early, Choice

(* One owner of the line, and a plan of what it sends. *)
LEMMA OwnerStep == ASSUME TypeOK, Owner, Plan, [Next]_vars PROVE (Owner /\ Plan)'
<1>1. CASE Send("recover")
  <2>1. /\ pc["recover"] = "send" /\ pc'["recover"] = "wait"
        /\ pc'["heartbeat"] = pc["heartbeat"]
        /\ UNCHANGED <<nvs, txn, todo, done, target>>
    BY <1>1, Consts, TypeParts DEF Send, TaskT, BootPc, TxnFree
  <2>2. Owner'
    BY <2>1, Consts DEF Owner, Busy
  <2>3. pc'["recover"] \in {"send", "wait"} => pc["recover"] \in {"send", "wait"} /\ UNCHANGED <<nvs, todo>>
    BY <2>1 DEF Owner
  <2>4. txn' = "heartbeat" => txn = "heartbeat" /\ UNCHANGED <<todo, done, target>>
    BY <2>1, Consts DEF Owner
  <2>5. pc'["heartbeat"] \in {"send", "wait"} => pc["heartbeat"] \in {"send", "wait"} /\ UNCHANGED <<todo, target>>
    BY <2>1
  <2>6. QED
    BY <2>2, <2>3, <2>4, <2>5, Zenon DEF Plan, Early, Choice
<1>2. CASE Send("heartbeat")
  <2>1. /\ pc["heartbeat"] = "send" /\ pc'["heartbeat"] = "wait"
        /\ pc'["recover"] = pc["recover"]
        /\ UNCHANGED <<nvs, txn, todo, done, target>>
    BY <1>2, Consts, TypeParts DEF Send, TaskT, BootPc, TxnFree
  <2>2. Owner'
    BY <2>1, Consts DEF Owner, Busy
  <2>3. pc'["recover"] \in {"send", "wait"} => pc["recover"] \in {"send", "wait"} /\ UNCHANGED <<nvs, todo>>
    BY <2>1 DEF Owner
  <2>4. txn' = "heartbeat" => txn = "heartbeat" /\ UNCHANGED <<todo, done, target>>
    BY <2>1, Consts DEF Owner
  <2>5. pc'["heartbeat"] \in {"send", "wait"} => pc["heartbeat"] \in {"send", "wait"} /\ UNCHANGED <<todo, target>>
    BY <2>1
  <2>6. QED
    BY <2>2, <2>3, <2>4, <2>5, Zenon DEF Plan, Early, Choice
<1>3. CASE Verdict("recover")
  <2>1. pc["recover"] = "wait" /\ UNCHANGED <<nvs, fail, txn, target, line, receiver, ie, bounds>>
    BY <1>3, Zenon DEF Verdict
  <2>2. Outcome("recover", AckScan(Head(todo["recover"])) = "OK")
    BY <1>3, Zenon DEF Verdict
  <2>3. QED
    BY <2>1, <2>2, GoesOnR, Zenon
<1>4. CASE Verdict("heartbeat")
  <2>1. pc["heartbeat"] = "wait" /\ UNCHANGED <<nvs, fail, txn, target, line, receiver, ie, bounds>>
    BY <1>4, Zenon DEF Verdict
  <2>2. Outcome("heartbeat", AckScan(Head(todo["heartbeat"])) = "OK")
    BY <1>4, Zenon DEF Verdict
  <2>3. QED
    BY <2>1, <2>2, GoesOnH, Zenon
<1>5. CASE AckTimeout("recover")
  <2>1. pc["recover"] = "wait" /\ UNCHANGED <<nvs, fail, txn, target>>
    BY <1>5, Zenon DEF AckTimeout
  <2>2. CASE MayRetry("recover")
    <3>1. /\ pc'["recover"] = "send" /\ pc'["heartbeat"] = pc["heartbeat"]
          /\ UNCHANGED <<todo, done>>
      BY <1>5, <2>2, Consts, TypeParts, Zenon DEF AckTimeout, TaskT
    <3>2. Owner'
      BY <2>1, <3>1 DEF Owner, Busy
    <3>3. QED
      BY <2>1, <3>1, <3>2, Zenon DEF Plan, Early, Choice
  <2>3. CASE ~MayRetry("recover")
    <3>1. Outcome("recover", FALSE)
      BY <1>5, <2>3, Zenon DEF AckTimeout
    <3>2. QED
      BY <2>1, <3>1, GoesOnR
  <2>4. QED
    BY <2>2, <2>3
<1>6. CASE AckTimeout("heartbeat")
  <2>1. pc["heartbeat"] = "wait" /\ UNCHANGED <<nvs, fail, txn, target>>
    BY <1>6, Zenon DEF AckTimeout
  <2>2. CASE MayRetry("heartbeat")
    <3>1. /\ pc'["heartbeat"] = "send" /\ pc'["recover"] = pc["recover"]
          /\ UNCHANGED <<todo, done>>
      BY <1>6, <2>2, Consts, TypeParts, Zenon DEF AckTimeout, TaskT
    <3>2. Owner'
      BY <2>1, <3>1 DEF Owner, Busy
    <3>3. QED
      BY <2>1, <3>1, <3>2, Zenon DEF Plan, Early, Choice
  <2>3. CASE ~MayRetry("heartbeat")
    <3>1. Outcome("heartbeat", FALSE)
      BY <1>6, <2>3, Zenon DEF AckTimeout
    <3>2. QED
      BY <2>1, <3>1, GoesOnH
  <2>4. QED
    BY <2>2, <2>3
<1>7. CASE ResetPulse
  <2>1. /\ pc["recover"] = "pulse" /\ pc'["recover"] = "forget"
        /\ pc'["heartbeat"] = pc["heartbeat"]
        /\ UNCHANGED <<nvs, txn, todo, done, target>>
    BY <1>7, Consts, TypeParts DEF ResetPulse, TaskT, BootPc, TxnFree
  <2>2. Owner'
    BY <2>1, Consts DEF Owner, Busy
  <2>3. pc'["recover"] \in {"send", "wait"} => pc["recover"] \in {"send", "wait"} /\ UNCHANGED <<nvs, todo>>
    BY <2>1 DEF Owner
  <2>4. txn' = "heartbeat" => txn = "heartbeat" /\ UNCHANGED <<todo, done, target>>
    BY <2>1, Consts DEF Owner
  <2>5. pc'["heartbeat"] \in {"send", "wait"} => pc["heartbeat"] \in {"send", "wait"} /\ UNCHANGED <<todo, target>>
    BY <2>1
  <2>6. QED
    BY <2>2, <2>3, <2>4, <2>5, Zenon DEF Plan, Early, Choice
<1>8. CASE EpochInvalidate
  <2>1. /\ pc["recover"] = "forget" /\ pc'["recover"] = "send"
        /\ pc'["heartbeat"] = pc["heartbeat"]
        /\ todo'["recover"] = <<Undulation, Rtcm>> /\ todo'["heartbeat"] = todo["heartbeat"]
        /\ done'["heartbeat"] = done["heartbeat"] /\ UNCHANGED <<nvs, txn, target>>
    BY <1>8, Consts, TypeParts DEF EpochInvalidate, TaskT, BootPc, TxnFree
  <2>2. Head(todo'["recover"]) # Survey
    BY <2>1, CmdFacts
  <2>3. Owner'
    BY <2>1, Consts DEF Owner, Busy
  <2>4. QED
    BY <2>1, <2>2, <2>3, Zenon DEF Plan, Early, Owner
<1>9. CASE ChooseBase
  <2>1. /\ pc["recover"] = "base" /\ pc'["recover"] = "send"
        /\ pc'["heartbeat"] = pc["heartbeat"]
        /\ todo'["heartbeat"] = todo["heartbeat"] /\ UNCHANGED <<nvs, txn, done, target>>
    BY <1>9, Consts, TypeParts DEF ChooseBase, TaskT, BootPc, TxnFree
  <2>2. PICK c \in Commands : todo'["recover"] = <<c, Save>> /\ Base(c) /\ (c = Survey => nvs \notin Valid)
    <3> DEFINE first == IF LoadFixedBase # None THEN ModeBase(LoadFixedBase) ELSE Survey
    <3>1. first \in Commands /\ Base(first) /\ (first = Survey => nvs \notin Valid)
      BY CmdFacts, BaseFacts, Consts, Zenon DEF LoadFixedBase
    <3>2. todo'["recover"] = <<first, Save>>
      BY <1>9, Consts, TypeParts, Zenon DEF ChooseBase, TaskT
    <3>3. QED
      BY <3>1, <3>2, Zenon
  <2>3. Head(todo'["recover"]) = c
    <3>1. Head(<<c, Save>>) = c
      BY SMT
    <3>2. QED
      BY <2>2, <3>1, Zenon
  <2>4. Owner'
    BY <2>1, Consts DEF Owner, Busy
  <2>5. Choice(todo'["recover"]) /\ (Head(todo'["recover"]) = Survey => nvs \notin Valid)
    BY <2>2, <2>3, Zenon DEF Choice
  <2>6. txn' # "heartbeat" /\ pc'["heartbeat"] \notin {"send", "wait"}
    BY <2>1, Consts DEF Owner
  <2>7. QED
    BY <2>1, <2>4, <2>5, <2>6, Zenon DEF Plan, Choice
<1>10. CASE ConfigEnds
  <2>1. /\ pc["recover"] = "finish" /\ pc'["heartbeat"] = pc["heartbeat"]
        /\ \/ pc["heartbeat"] = "off" /\ pc'["recover"] = "version" /\ txn' = txn
           \/ pc["heartbeat"] # "off" /\ pc'["recover"] = "idle" /\ txn' = None
        /\ UNCHANGED <<nvs, todo, done, target>>
    BY <1>10, Consts, TypeParts DEF ConfigEnds, TaskT, BootPc, TxnFree
  <2>2. Owner'
    BY <2>1, Consts DEF Owner, Busy
  <2>3. pc'["recover"] \in {"send", "wait"} => pc["recover"] \in {"send", "wait"} /\ UNCHANGED <<nvs, todo>>
    BY <2>1 DEF Owner
  <2>4. txn' = "heartbeat" => txn = "heartbeat" /\ UNCHANGED <<todo, done, target>>
    BY <2>1, Consts DEF Owner
  <2>5. pc'["heartbeat"] \in {"send", "wait"} => pc["heartbeat"] \in {"send", "wait"} /\ UNCHANGED <<todo, target>>
    BY <2>1
  <2>6. QED
    BY <2>2, <2>3, <2>4, <2>5, Zenon DEF Plan, Early, Choice
<1>11. CASE LogVersion
  <2>1. /\ pc["recover"] = "version" /\ pc'["recover"] = "idle" /\ pc'["heartbeat"] = "idle"
        /\ txn' = None /\ UNCHANGED <<nvs, todo, done, target>>
    BY <1>11, Consts, TypeParts DEF LogVersion, TaskT, BootPc, TxnFree
  <2>2. Owner'
    BY <2>1, Consts DEF Owner, Busy
  <2>3. pc'["recover"] \in {"send", "wait"} => pc["recover"] \in {"send", "wait"} /\ UNCHANGED <<nvs, todo>>
    BY <2>1 DEF Owner
  <2>4. txn' = "heartbeat" => txn = "heartbeat" /\ UNCHANGED <<todo, done, target>>
    BY <2>1, Consts DEF Owner
  <2>5. pc'["heartbeat"] \in {"send", "wait"} => pc["heartbeat"] \in {"send", "wait"} /\ UNCHANGED <<todo, target>>
    BY <2>1
  <2>6. QED
    BY <2>2, <2>3, <2>4, <2>5, Zenon DEF Plan, Early, Choice
<1>12. CASE RecoverBegins
  <2>1. /\ txn = None /\ pc'["recover"] = "pulse" /\ pc'["heartbeat"] = pc["heartbeat"]
        /\ txn' = "recover" /\ UNCHANGED <<nvs, todo, done, target>>
    BY <1>12, Consts, TypeParts DEF RecoverBegins, TaskT, BootPc, TxnFree
  <2>2. Owner'
    BY <2>1, Consts DEF Owner, Busy
  <2>3. pc'["recover"] \in {"send", "wait"} => pc["recover"] \in {"send", "wait"} /\ UNCHANGED <<nvs, todo>>
    BY <2>1 DEF Owner
  <2>4. txn' = "heartbeat" => txn = "heartbeat" /\ UNCHANGED <<todo, done, target>>
    BY <2>1, Consts DEF Owner
  <2>5. pc'["heartbeat"] \in {"send", "wait"} => pc["heartbeat"] \in {"send", "wait"} /\ UNCHANGED <<todo, target>>
    BY <2>1
  <2>6. QED
    BY <2>2, <2>3, <2>4, <2>5, Zenon DEF Plan, Early, Choice
<1>13. CASE SetFixedBase
  <2>1. txn = None
    BY <1>13, Zenon DEF SetFixedBase, TxnFree
  <2>2. pc["recover"] = "idle" /\ pc["heartbeat"] = "idle"
    BY <1>13, <2>1, Consts DEF Owner, Busy, SetFixedBase
  <2>3. CASE ie \in {acked, fail}
    <3>1. UNCHANGED <<txn, pc, todo, done, target>>
      BY <1>13, <2>3, Zenon DEF SetFixedBase
    <3>2. QED
      BY <2>1, <2>2, <3>1, Consts DEF Owner, Plan
  <2>4. CASE ie \notin {acked, fail}
    <3>1. txn' = "heartbeat" /\ target' = ie /\ ie \in Valid
      BY <1>13, <2>4, Zenon DEF SetFixedBase
    <3>2. /\ done'["heartbeat"] = {} /\ todo'["heartbeat"] = <<Undulation, ModeBase(ie), Save>>
          /\ pc'["heartbeat"] = "send" /\ pc'["recover"] = "idle"
      BY <1>13, <2>2, <2>4, Consts, TypeParts, Zenon DEF SetFixedBase, TaskT
    <3>3. <<Undulation, ModeBase(ie), Save>> # <<Save>>
      BY SMT
    <3>4. QED
      BY <3>1, <3>2, <3>3, Consts DEF Owner, Plan
  <2>5. QED
    BY <2>3, <2>4
<1>14. CASE FixedBaseEnds
  <2>1. /\ pc["heartbeat"] = "finish" /\ pc'["heartbeat"] = "idle"
        /\ pc'["recover"] = pc["recover"]
        /\ txn' = None /\ UNCHANGED <<todo, done, target>>
    BY <1>14, Consts, TypeParts DEF FixedBaseEnds, TaskT, BootPc, TxnFree
  <2>2. Owner'
    BY <2>1, Consts DEF Owner, Busy
  <2>3. pc'["recover"] \in {"send", "wait"} => pc["recover"] \in {"send", "wait"} /\ UNCHANGED <<nvs, todo>>
    BY <2>1 DEF Owner
  <2>4. txn' = "heartbeat" => txn = "heartbeat" /\ UNCHANGED <<todo, done, target>>
    BY <2>1, Consts DEF Owner
  <2>5. pc'["heartbeat"] \in {"send", "wait"} => pc["heartbeat"] \in {"send", "wait"} /\ UNCHANGED <<todo, target>>
    BY <2>1
  <2>6. QED
    BY <2>2, <2>3, <2>4, <2>5, Zenon DEF Plan, Early, Choice
<1>15. CASE CooldownEnds
  BY <1>15, Zenon DEF CooldownEnds, Owner, Plan, vars, known, task
<1>16. CASE Execute
  BY <1>16, Zenon DEF Execute, Owner, Plan, vars, known, task
<1>17. CASE Refuse
  BY <1>17, Zenon DEF Refuse, Owner, Plan, vars, known, task
<1>18. CASE LoseCommand
  BY <1>18, Zenon DEF LoseCommand, Owner, Plan, vars, known, task
<1>19. CASE IngestUart
  BY <1>19, Zenon DEF IngestUart, Owner, Plan, vars, known, task
<1>20. CASE CaptureOverflows
  BY <1>20, Zenon DEF CaptureOverflows, Owner, Plan, vars, known, task
<1>21. CASE Correct
  BY <1>21, Zenon DEF Correct, Owner, Plan, vars, known, task
<1>22. CASE Restart
  <2>1. /\ pc'["recover"] = "pulse" /\ pc'["heartbeat"] = "off" /\ txn' = "recover"
    BY <1>22, Consts, TypeParts DEF Restart, TaskT, BootPc, TxnFree
  <2>2. Owner'
    BY <2>1, Consts DEF Owner, Busy
  <2>3. pc'["recover"] \in {"send", "wait"} => pc["recover"] \in {"send", "wait"} /\ UNCHANGED <<nvs, todo>>
    BY <2>1 DEF Owner
  <2>4. txn' = "heartbeat" => txn = "heartbeat" /\ UNCHANGED <<todo, done, target>>
    BY <2>1, Consts DEF Owner
  <2>5. pc'["heartbeat"] \in {"send", "wait"} => pc["heartbeat"] \in {"send", "wait"} /\ UNCHANGED <<todo, target>>
    BY <2>1
  <2>6. QED
    BY <2>2, <2>3, <2>4, <2>5, Zenon DEF Plan, Early, Choice
<1>23. CASE UNCHANGED vars
  BY <1>23, Zenon DEF vars, Owner, Plan, vars, known, task
<1>24. QED
  BY <1>1, <1>2, <1>3, <1>4, <1>5, <1>6, <1>7, <1>8, <1>9, <1>10, <1>11, <1>12, <1>13,
     <1>14, <1>15, <1>16, <1>17, <1>18, <1>19, <1>20, <1>21, <1>22, <1>23 DEF Next,
     Recover, Heartbeat, Receiver, Commanding

(* Elements of the queues. *)
LEMMA Elements ==
    ASSUME TypeOK
    PROVE  /\ \A i \in DOMAIN wire : wire[i].cmd \in Commands /\ wire[i].by \in {"recover", "heartbeat"}
           /\ \A i \in DOMAIN out : out[i].ans.cmd \in Commands /\ out[i].by \in {"recover", "heartbeat"}
           /\ \A i \in DOMAIN cap : cap[i].cmd \in Commands
<1>1. LineT
  BY TypeParts
<1>2. \A i \in DOMAIN wire : wire[i] \in [cmd : Commands, by : Tasks]
  BY <1>1, LenProperties, ElementOfSeq, Zenon DEF LineT
<1>3. \A i \in DOMAIN out : out[i] \in [ans : Answers, by : Tasks]
  BY <1>1, LenProperties, ElementOfSeq, Zenon DEF LineT
<1>4. \A i \in DOMAIN cap : cap[i] \in Answers
  BY <1>1, LenProperties, ElementOfSeq, Zenon DEF LineT
<1>5. \A i \in DOMAIN out : out[i].ans \in Answers
  BY <1>3
<1>6. \A a \in Answers : a.cmd \in Commands
  BY DEF Answers
<1>7. QED
  BY <1>2, <1>3, <1>4, <1>5, <1>6, Consts

LEMMA OkIsBase == \A a : OkMode(a) => Base(a.cmd) /\ a.cmd.op = "mode"
  BY DEF OkMode, Base

(* While nothing is sent, executed or delivered only the record can change. *)
LEMMA SameLine ==
    ASSUME Line, UNCHANGED <<wire, out, recv, target>>, cap' \in {cap, <<>>},
           pc'["recover"] \in Busy => pc["recover"] \in Busy,
           pc'["recover"] = "wait" => pc["recover"] = "wait",
           pc'["heartbeat"] = "wait" => pc["heartbeat"] = "wait"
    PROVE  Order' /\ OneBase' /\ Answered' /\ Captured'
<1>1. Order'
  BY Zenon DEF Line, Order, Busy
<1>2. OneBase'
  BY Zenon DEF Line, OneBase
<1>3. Answered'
  BY Zenon DEF Line, Answered, Sound, Only
<1>4. \A i \in DOMAIN cap' : i \in DOMAIN cap /\ cap'[i] = cap[i]
  BY Empty, Zenon
<1>5. ASSUME pc'["recover"] = "wait", NEW i \in DOMAIN cap', OkMode(cap'[i])
      PROVE  Sound(cap[i].cmd)'
  <2>1. Sound(cap[i].cmd) /\ cap'[i] = cap[i]
    BY <1>4, <1>5, Zenon DEF Line, Captured
  <2>2. QED
    BY <2>1, Zenon DEF Sound, Only
<1>6. ASSUME pc'["heartbeat"] = "wait", NEW i \in DOMAIN cap', OkMode(cap'[i]), cap'[i].cmd = ModeBase(target)
      PROVE  Sound(ModeBase(target))'
  <2>1. Sound(ModeBase(target))
    BY <1>4, <1>6, Zenon DEF Line, Captured
  <2>2. QED
    BY <2>1, Zenon DEF Sound, Only
<1>7. Captured'
  BY <1>5, <1>6, Zenon DEF Captured
<1>8. QED
  BY <1>1, <1>2, <1>3, <1>7

(* A verdict about a command of config_gnss_base. *)
LEMMA VerdictLineR ==
    ASSUME TypeOK, Owner, Plan, Line, pc["recover"] = "wait", NEW ok \in BOOLEAN,
           ok => \E i \in DOMAIN cap : /\ cap[i].valid /\ cap[i].text = "OK"
                                       /\ cap[i].cmd = Head(todo["recover"]),
           Outcome("recover", ok), UNCHANGED <<txn, target, line, receiver>>
    PROVE  Line'
<1>1. UNCHANGED <<wire, out, recv, cap>>
  BY Zenon DEF line, receiver
<1>2. pc'["heartbeat"] = pc["heartbeat"] /\ pc'["recover"] \in {"send", "base", "finish"}
  BY OutcomeR, Zenon
<1>3. Order' /\ OneBase' /\ Answered' /\ Captured'
  BY <1>1, <1>2, SameLine DEF Busy
<1>4. txn = "recover" /\ pc'["recover"] # "wait" /\ pc'["recover"] # "forget"
  BY <1>2 DEF Owner
<1>5. CASE Early(todo["recover"]) /\ acked' = acked /\ (pc'["recover"] = "send" => todo'["recover"] = <<Rtcm>>)
  <2>1. NoneYet
    BY <1>5, Zenon DEF Line, Stage
  <2>2. NoneYet'
    BY <1>1, <1>4, <1>5, <2>1, Zenon DEF NoneYet
  <2>3. pc'["recover"] = "send" => ~Choice(todo'["recover"])
    BY <1>5 DEF Choice
  <2>4. Stage'
    BY <1>2, <1>4, <2>2, <2>3, Zenon DEF Stage
  <2>5. Record'
    BY <1>1, <1>4, <2>2, Zenon DEF Record, NoneYet
  <2>6. QED
    BY <1>3, <2>4, <2>5, Zenon DEF Line
<1>6. CASE \E c \in Commands :
             /\ Base(c) /\ todo["recover"] = <<c, Save>> /\ todo'["recover"] = <<Save>>
             /\ pc'["recover"] = "send"
             /\ acked' = IF c.op = "mode" THEN IF ok THEN c.at ELSE None ELSE acked
  <2>1. PICK c \in Commands :
             /\ Base(c) /\ todo["recover"] = <<c, Save>> /\ todo'["recover"] = <<Save>>
             /\ pc'["recover"] = "send"
             /\ acked' = IF c.op = "mode" THEN IF ok THEN c.at ELSE None ELSE acked
    BY <1>6, Zenon
  <2>2. Head(todo["recover"]) = c
    <3>1. Head(<<c, Save>>) = c
      BY SMT
    <3>2. QED
      BY <2>1, <3>1, Zenon
  <2>3. acked = None
    BY <2>1, <2>2, Zenon DEF Line, Stage, Choice, OnlyThis
  <2>4. ~Early(todo'["recover"]) /\ ~Choice(todo'["recover"])
    BY <2>1, CmdFacts DEF Early, Choice
  <2>5. Stage'
    BY <1>2, <2>1, <2>4 DEF Stage
  <2>6. ASSUME acked' # None PROVE Sound(ModeBase(acked'))
    <3>1. c.op = "mode" /\ ok /\ acked' = c.at
      BY <2>1, <2>3, <2>6, Zenon
    <3>2. c = ModeBase(acked')
      BY <2>1, <3>1, CmdFacts, Zenon
    <3>3. PICK i \in DOMAIN cap : cap[i].valid /\ cap[i].text = "OK" /\ cap[i].cmd = c
      BY <2>2, <3>1, Zenon
    <3>4. OkMode(cap[i])
      BY <3>1, <3>3, Zenon DEF OkMode
    <3>5. Sound(c)
      BY <3>3, <3>4, Zenon DEF Line, Captured
    <3>6. QED
      BY <3>2, <3>5, Zenon
  <2>7. Record'
    BY <1>1, <1>4, <2>6, Zenon DEF Record, Sound, Only
  <2>8. QED
    BY <1>3, <2>5, <2>7, Zenon DEF Line
<1>7. CASE pc'["recover"] = "finish" /\ acked' = acked
  <2>1. Stage'
    BY <1>7 DEF Stage
  <2>2. Record'
    BY <1>1, <1>4, <1>7 DEF Line, Record, Sound, Only
  <2>3. QED
    BY <1>3, <2>1, <2>2, Zenon DEF Line
<1>8. QED
  <2>1. \/ todo["recover"] = <<Undulation, Rtcm>> /\ acked' = acked /\ todo'["recover"] = <<Rtcm>>
        \/ todo["recover"] = <<Rtcm>> /\ pc'["recover"] = "base" /\ acked' = acked
        \/ \E c \in Commands :
             /\ Base(c) /\ todo["recover"] = <<c, Save>> /\ todo'["recover"] = <<Save>>
             /\ pc'["recover"] = "send"
             /\ acked' = IF c.op = "mode" THEN IF ok THEN c.at ELSE None ELSE acked
        \/ pc'["recover"] = "finish" /\ acked' = acked
    BY OutcomeR, Zenon
  <2>2. QED
    BY <1>5, <1>6, <1>7, <2>1 DEF Early

(* A verdict about a command of gnss_set_fixed_base. *)
LEMMA VerdictLineH ==
    ASSUME TypeOK, Owner, Plan, Line, pc["heartbeat"] = "wait", NEW ok \in BOOLEAN,
           ok => \E i \in DOMAIN cap : /\ cap[i].valid /\ cap[i].text = "OK"
                                       /\ cap[i].cmd = Head(todo["heartbeat"]),
           Outcome("heartbeat", ok), UNCHANGED <<txn, target, line, receiver>>
    PROVE  Line'
<1>1. UNCHANGED <<wire, out, recv, cap>>
  BY Zenon DEF line, receiver
<1>2. txn = "heartbeat" /\ pc["recover"] = "idle"
  BY DEF Owner, Busy
<1>3. pc'["recover"] = "idle" /\ pc'["heartbeat"] \in {"send", "finish"}
  BY <1>2, OutcomeH, Zenon
<1>4. Order' /\ OneBase' /\ Answered' /\ Captured'
  BY <1>1, <1>2, <1>3, SameLine DEF Busy
<1>5. Stage'
  BY <1>3 DEF Stage
<1>6. ASSUME "mode" \in done'["heartbeat"] PROVE Sound(ModeBase(target))
  <2>1. CASE "mode" \in done["heartbeat"]
    BY <1>2, <2>1, Zenon DEF Line, Record
  <2>2. CASE todo["heartbeat"] = <<ModeBase(target), Save>> /\ ok
    <3>1. Head(todo["heartbeat"]) = ModeBase(target)
      <4>1. Head(<<ModeBase(target), Save>>) = ModeBase(target)
        BY SMT
      <4>2. QED
        BY <2>2, <4>1, Zenon
    <3>2. PICK i \in DOMAIN cap : cap[i].valid /\ cap[i].text = "OK" /\ cap[i].cmd = ModeBase(target)
      BY <2>2, <3>1, Zenon
    <3>3. OkMode(cap[i])
      <4>1. ModeBase(target).op = "mode"
        BY CmdFacts, Zenon
      <4>2. QED
        BY <3>2, <4>1, Zenon DEF OkMode
    <3>4. QED
      BY <3>2, <3>3, Zenon DEF Line, Captured
  <2>3. QED
    BY <1>6, <2>1, <2>2, OutcomeH, Zenon
<1>7. Record'
  BY <1>1, <1>2, <1>6, Zenon DEF Record, Sound, Only
<1>8. QED
  BY <1>4, <1>5, <1>7, Zenon DEF Line

(* A command of a recovery goes on the line behind others of the same one. *)
LEMMA SendLineR ==
    ASSUME TypeOK, Owner, Plan, Line, Send("recover")
    PROVE  Line'
<1> DEFINE x == Head(todo["recover"])
           e == [cmd |-> x, by |-> "recover"]
           m == Len(wire) + 1
<1>1. pc["recover"] = "send" /\ cap' = <<>> /\ wire' = Append(wire, e) /\ UNCHANGED <<out, recv, txn, todo, done, target, acked>>
  BY Zenon DEF Send, receiver, known
<1>2. pc'["recover"] = "wait" /\ pc'["heartbeat"] = pc["heartbeat"]
  BY Consts, TypeParts DEF Send, TaskT
<1>3. txn = "recover" /\ pc["heartbeat"] \notin {"send", "wait", "finish"}
  BY <1>1 DEF Owner
<1>4. x \in Commands /\ e.cmd = x /\ e.by = "recover" /\ e \in [cmd : Commands, by : Tasks]
  BY <1>1, HeadIs, Consts
<1>5. /\ \A i \in DOMAIN wire : wire[i].by = "recover"
      /\ \A i \in DOMAIN out : out[i].by = "recover"
  BY <1>1 DEF Line, Order, Busy
<1> HIDE DEF e, x, m
<1>6. \A i \in DOMAIN wire' : (i \in DOMAIN wire /\ wire'[i] = wire[i]) \/ wire'[i] = e
  <2>1. wire \in Seq([cmd : Commands, by : Tasks])
    BY TypeParts DEF LineT
  <2>2. /\ \A i \in DOMAIN wire : Append(wire, e)[i] = wire[i]
        /\ Append(wire, e)[Len(wire) + 1] = e
        /\ \A i \in DOMAIN Append(wire, e) : i \in DOMAIN wire \/ i = Len(wire) + 1
    BY <1>4, <2>1, Appended
  <2>3. QED
    BY <1>1, <2>2, Zenon
<1>7. \A i \in DOMAIN wire' : wire'[i].by = "recover"
  BY <1>4, <1>5, <1>6, Zenon
<1>8. DOMAIN cap' = {}
  BY <1>1, Empty, Zenon
<1>9. Base(x) => OnlyThis(x)
  <2>1. HAVE Base(x)
  <2>2. Choice(todo["recover"])
    <3>1. x \notin {Undulation, Rtcm, Save}
      BY <2>1, BaseFacts
    <3>2. todo["recover"] \notin {<<Undulation, Rtcm>>, <<Rtcm>>, <<Save>>}
      BY <3>1 DEF x
    <3>3. QED
      BY <1>1, <3>2, PlanR, Zenon DEF Choice
  <2>3. QED
    BY <1>1, <2>2, Zenon DEF Line, Stage, x
<1>10. Order'
  BY <1>1, <1>5, <1>7, Zenon DEF Order
<1>11. OneBase'
  <2>1. \A i, j \in DOMAIN wire' : Base(wire'[i].cmd) /\ Base(wire'[j].cmd) => wire'[i].cmd = wire'[j].cmd
    BY <1>4, <1>5, <1>6, <1>9, ZenonT(30) DEF Line, OneBase, OnlyThis, Only
  <2>2. QED
    BY <1>1, <1>5, <1>7, <2>1, Zenon DEF OneBase
<1>12. Answered'
  <2>1. ASSUME NEW i \in DOMAIN out, OkMode(out[i].ans)
        PROVE  /\ recv = out[i].ans.cmd.at
               /\ \A j \in DOMAIN wire' : Base(wire'[j].cmd) => wire'[j].cmd = out[i].ans.cmd
    BY <1>4, <1>5, <1>6, <1>9, <2>1, ZenonT(30) DEF Line, Answered, OnlyThis
  <2>2. ModeBase(target).at = target
    BY CmdFacts, Zenon
  <2>3. QED
    BY <1>1, <2>1, <2>2, Zenon DEF Answered, Sound, Only
<1>13. Captured'
  BY <1>2, <1>3, <1>8, Zenon DEF Captured
<1>14. Stage'
  <2>1. ASSUME NoneYet, ~Base(x) PROVE NoneYet'
    BY <1>1, <1>4, <1>6, <1>8, <2>1, Zenon DEF NoneYet
  <2>2. ASSUME Base(x)
        PROVE  /\ acked' = None
               /\ \A i \in DOMAIN wire' : Base(wire'[i].cmd) => wire'[i].cmd = x
               /\ \A i \in DOMAIN out' : OkMode(out'[i].ans) => out'[i].ans.cmd = x
    BY <1>1, <1>4, <1>6, <1>9, <2>2, Zenon DEF OnlyThis, Only
  <2>3. Early(todo["recover"]) => NoneYet /\ ~Base(x)
    <3>1. HAVE Early(todo["recover"])
    <3>2. x \in {Undulation, Rtcm}
      BY <3>1 DEF Early, x
    <3>3. QED
      BY <1>1, <3>1, <3>2, BaseFacts, Zenon DEF Line, Stage
  <2>4. Choice(todo["recover"]) => Base(x)
    <3>1. HAVE Choice(todo["recover"])
    <3>2. PICK c \in Commands : Base(c) /\ todo["recover"] = <<c, Save>>
      BY <3>1, Zenon DEF Choice
    <3>3. Head(<<c, Save>>) = c
      BY SMT
    <3>4. QED
      BY <3>2, <3>3, Zenon DEF x
  <2>5. Early(todo["recover"]) => NoneYet'
    BY <2>1, <2>3
  <2>6. Choice(todo["recover"]) => OnlyThis(Head(todo["recover"]))'
    BY <1>1, <1>8, <2>2, <2>4, Zenon DEF x, OnlyThis, Only
  <2>7. QED
    BY <1>1, <1>2, <2>5, <2>6 DEF Stage
<1>15. Record'
  <2>1. ASSUME acked # None PROVE Sound(ModeBase(acked))'
    <3>1. ~Base(x)
      BY <1>9, <2>1, Zenon DEF OnlyThis
    <3>2. Sound(ModeBase(acked))
      BY <1>1, <1>3, <2>1 DEF Line, Record
    <3>3. QED
      BY <1>1, <1>4, <1>6, <3>1, <3>2, Zenon DEF Sound, Only
  <2>2. QED
    BY <1>1, <1>3, <2>1, Zenon DEF Record
<1>16. QED
  BY <1>10, <1>11, <1>12, <1>13, <1>14, <1>15, Zenon DEF Line

(* A command of a heartbeat goes on the line behind everything else. *)
LEMMA SendLineH ==
    ASSUME TypeOK, Owner, Plan, Line, Send("heartbeat")
    PROVE  Line'
<1> DEFINE x == Head(todo["heartbeat"])
           e == [cmd |-> x, by |-> "heartbeat"]
<1>1. pc["heartbeat"] = "send" /\ cap' = <<>> /\ wire' = Append(wire, e) /\ UNCHANGED <<out, recv, txn, todo, done, target, acked>>
  BY Zenon DEF Send, receiver, known
<1>2. pc'["heartbeat"] = "wait" /\ pc'["recover"] = pc["recover"]
  BY Consts, TypeParts DEF Send, TaskT
<1>3. txn = "heartbeat" /\ pc["recover"] = "idle"
  BY <1>1 DEF Owner, Busy
<1>4. x \in Commands /\ e.cmd = x /\ e.by = "heartbeat" /\ e \in [cmd : Commands, by : Tasks]
  BY <1>1, HeadIs, Consts
<1>5. x \in {Undulation, ModeBase(target), Save}
  BY <1>1 DEF Plan
<1>6. Base(x) => x = ModeBase(target)
  BY <1>5, BaseFacts, Zenon
<1> HIDE DEF e, x
<1>7. /\ \A i \in DOMAIN wire' : (i \in DOMAIN wire /\ wire'[i] = wire[i]) \/ wire'[i] = e
      /\ \A i \in DOMAIN wire : wire'[i] = wire[i]
      /\ \A i, j \in DOMAIN wire' : i < j => i \in DOMAIN wire
  <2>1. wire \in Seq([cmd : Commands, by : Tasks])
    BY TypeParts DEF LineT
  <2>2. /\ \A i \in DOMAIN wire : Append(wire, e)[i] = wire[i]
        /\ Append(wire, e)[Len(wire) + 1] = e
        /\ \A i \in DOMAIN Append(wire, e) : i \in DOMAIN wire \/ i = Len(wire) + 1
    BY <1>4, <2>1, Appended
  <2>3. DOMAIN wire = 1 .. Len(wire) /\ DOMAIN Append(wire, e) = 1 .. Len(wire) + 1 /\ Len(wire) \in Nat
    BY <1>4, <2>1, Appended
  <2>4. \A i, j \in DOMAIN Append(wire, e) : i < j => i \in DOMAIN wire
    BY <2>3
  <2>5. QED
    BY <1>1, <2>2, <2>4, Zenon
<1>10. DOMAIN cap' = {}
  BY <1>1, Empty, Zenon
<1>11. Order'
  <2>1. \A i, j \in DOMAIN wire' : i < j /\ wire'[i].by = "heartbeat" => wire'[j].by = "heartbeat"
    BY <1>4, <1>7, ZenonT(30) DEF Line, Order
  <2>2. pc'["recover"] \notin Busy
    BY <1>2, <1>3 DEF Busy
  <2>3. \A i \in DOMAIN out, j \in DOMAIN wire' : out[i].by = "heartbeat" => wire'[j].by = "heartbeat"
    BY <1>4, <1>7, Zenon DEF Line, Order
  <2>4. \A i, j \in DOMAIN out : i < j /\ out[i].by = "heartbeat" => out[j].by = "heartbeat"
    BY Zenon DEF Line, Order
  <2>5. QED
    BY <1>1, <2>1, <2>2, <2>3, <2>4, Zenon DEF Order
<1>12. OneBase'
  <2>1. \A i \in DOMAIN wire' : wire'[i].by = "recover" => i \in DOMAIN wire /\ wire'[i] = wire[i]
    BY <1>4, <1>7
  <2>2. \A i \in DOMAIN wire' :
          wire'[i].by = "heartbeat" /\ Base(wire'[i].cmd) => wire'[i].cmd = ModeBase(target)
    BY <1>4, <1>6, <1>7, Zenon DEF Line, OneBase
  <2>3. \A i, j \in DOMAIN wire' :
         /\ wire'[i].by = "recover" /\ wire'[j].by = "recover"
         /\ Base(wire'[i].cmd) /\ Base(wire'[j].cmd)
         => wire'[i].cmd = wire'[j].cmd
    BY <2>1, ZenonT(30) DEF Line, OneBase
  <2>4. \A i \in DOMAIN out' :
         out'[i].by = "heartbeat" /\ OkMode(out'[i].ans) => out'[i].ans.cmd = ModeBase(target)
    BY <1>1, Zenon DEF Line, OneBase
  <2>5. QED
    BY <1>1, <2>2, <2>3, <2>4, Zenon DEF OneBase
<1>13. Sound(ModeBase(target)) => Sound(ModeBase(target))'
  BY <1>1, <1>4, <1>6, <1>7, Zenon DEF Sound, Only
<1>14. Answered'
  <2>1. \A i \in DOMAIN wire' : wire'[i].by = "recover" => i \in DOMAIN wire /\ wire'[i] = wire[i]
    BY <1>4, <1>7
  <2>2. QED
    BY <1>1, <1>13, <2>1, ZenonT(30) DEF Line, Answered
<1>15. Captured'
  BY <1>10, Zenon DEF Captured
<1>16. Stage'
  BY <1>2, <1>3 DEF Stage
<1>17. Record'
  BY <1>1, <1>3, <1>13, Zenon DEF Line, Record
<1>18. QED
  BY <1>11, <1>12, <1>14, <1>15, <1>16, <1>17, Zenon DEF Line

(* The receiver takes a command off the line: it executes it and says so, or
   it answers otherwise, or neither. *)
Consumes(e) ==
    /\ wire # <<>> /\ wire' = Tail(wire)
    /\ \/ out' = out /\ recv' = recv
       \/ out' = Append(out, e) /\ e \in [ans : Answers, by : Tasks] /\ e.by = Head(wire).by
    /\ recv' \in {recv, Executed(Head(wire).cmd)}
    /\ OkMode(e.ans) => e.ans.cmd = Head(wire).cmd /\ recv' = Executed(Head(wire).cmd)

LEMMA ConsumedLine ==
    ASSUME TypeOK, Owner, Plan, Line, NEW e, Consumes(e),
           UNCHANGED <<txn, pc, todo, done, target, acked, cap>>
    PROVE  Line'
<1> DEFINE x == Head(wire)
           c == x.cmd
<1>1. /\ wire # <<>> /\ wire' = Tail(wire) /\ recv' \in {recv, Executed(c)}
      /\ out' = out \/ (out' = Append(out, e) /\ e \in [ans : Answers, by : Tasks] /\ e.by = x.by)
      /\ OkMode(e.ans) => e.ans.cmd = c /\ recv' = Executed(c)
  BY Zenon DEF Consumes
<1>0. recv' = recv \/ \E i \in DOMAIN out' : out'[i].by = x.by
  <2>1. CASE out' = out /\ recv' = recv
    BY <2>1
  <2>2. CASE out' = Append(out, e) /\ e \in [ans : Answers, by : Tasks] /\ e.by = x.by
    <3>1. Append(out, e)[Len(out) + 1] = e /\ Len(out) + 1 \in DOMAIN Append(out, e)
      BY <2>2, TypeParts, Appended DEF LineT
    <3>2. QED
      BY <2>2, <3>1, Zenon
  <2>3. QED
    BY <2>1, <2>2, Zenon DEF Consumes
<1>2. wire \in Seq([cmd : Commands, by : Tasks]) /\ out \in Seq([ans : Answers, by : Tasks])
  BY TypeParts DEF LineT
<1>3. /\ 1 \in DOMAIN wire /\ x = wire[1]
      /\ \A i \in DOMAIN wire' : i + 1 \in DOMAIN wire /\ wire'[i] = wire[i + 1] /\ 1 < i + 1
      /\ \A i, j \in DOMAIN wire' : i < j => i + 1 < j + 1
  BY <1>1, <1>2, Popped
<1>4. /\ \A i \in DOMAIN out' : (i \in DOMAIN out /\ out'[i] = out[i]) \/ (out'[i] = e /\ e.by = x.by)
      /\ \A i \in DOMAIN out : i \in DOMAIN out' /\ out'[i] = out[i]
      /\ \A i, j \in DOMAIN out' : i < j => i \in DOMAIN out
  <2>1. CASE out' = out
    BY <2>1, Zenon
  <2>2. CASE out' = Append(out, e) /\ e \in [ans : Answers, by : Tasks] /\ e.by = x.by
    <3>1. /\ \A i \in DOMAIN out : Append(out, e)[i] = out[i] /\ i \in DOMAIN Append(out, e)
          /\ Append(out, e)[Len(out) + 1] = e
          /\ \A i \in DOMAIN Append(out, e) : i \in DOMAIN out \/ i = Len(out) + 1
      BY <1>2, <2>2, Appended
    <3>2. DOMAIN out = 1 .. Len(out) /\ DOMAIN Append(out, e) = 1 .. Len(out) + 1 /\ Len(out) \in Nat
      BY <1>2, <2>2, Appended
    <3>3. \A i, j \in DOMAIN Append(out, e) : i < j => i \in DOMAIN out
      BY <3>2
    <3>4. QED
      BY <2>2, <3>1, <3>3, Zenon
  <2>3. QED
    BY <1>1, <2>1, <2>2
<1>5. c \in Commands /\ x.by \in {"recover", "heartbeat"} /\ c = wire[1].cmd
  BY <1>3, Elements, Zenon
<1>6. /\ c.op = "mode" => Executed(c) = c.at
      /\ ~Base(c) => Executed(c) = recv
  BY DEF Executed, Base
<1> HIDE DEF c, x
<1>7. ASSUME NEW d, d.op = "mode", Sound(d) PROVE recv' = d.at
  <2>1. CASE Base(c)
    <3>1. c = d
      BY <1>3, <1>5, <1>7, <2>1, Zenon DEF Sound, Only
    <3>2. Executed(c) = d.at /\ recv = d.at
      BY <1>6, <1>7, <3>1, Zenon DEF Sound
    <3>3. QED
      BY <1>1, <3>2, Zenon
  <2>2. CASE ~Base(c)
    BY <1>1, <1>6, <1>7, <2>2, Zenon DEF Sound
  <2>3. QED
    BY <2>1, <2>2
<1>8. ASSUME NEW d, Only(d) PROVE \A i \in DOMAIN wire' : Base(wire'[i].cmd) => wire'[i].cmd = d
  BY <1>3, <1>8, Zenon DEF Only
<1>9. Order'
  <2>1. \A i, j \in DOMAIN wire' : i < j /\ wire'[i].by = "heartbeat" => wire'[j].by = "heartbeat"
    BY <1>3, ZenonT(30) DEF Line, Order
  <2>2. x.by = "heartbeat" => \A j \in DOMAIN wire' : wire'[j].by = "heartbeat"
    BY <1>3, Zenon DEF Line, Order
  <2>3. ASSUME NEW i \in DOMAIN out', out'[i].by = "heartbeat" PROVE x.by = "heartbeat"
    <3>1. CASE i \in DOMAIN out /\ out'[i] = out[i]
      <4>1. out[i].by = "heartbeat"
        BY <2>3, <3>1, Zenon
      <4>2. QED
        BY <1>3, <3>1, <4>1, Zenon DEF Line, Order
    <3>2. CASE out'[i] = e /\ e.by = x.by
      BY <2>3, <3>2, Zenon
    <3>3. QED
      BY <1>4, <3>1, <3>2, Zenon
  <2>4. ASSUME NEW i \in DOMAIN out', NEW j \in DOMAIN out', i < j, out'[i].by = "heartbeat"
        PROVE  out'[j].by = "heartbeat"
    <3>1. CASE j \in DOMAIN out /\ out'[j] = out[j]
      <4>1. i \in DOMAIN out /\ out'[i] = out[i]
        BY <1>4, <2>4, Zenon
      <4>2. out[j].by = "heartbeat"
        BY <2>4, <3>1, <4>1, Zenon DEF Line, Order
      <4>3. QED
        BY <3>1, <4>2, Zenon
    <3>2. CASE out'[j] = e /\ e.by = x.by
      BY <2>3, <2>4, <3>2, Zenon
    <3>3. QED
      BY <1>4, <3>1, <3>2, Zenon
  <2>5. \A i \in DOMAIN out', j \in DOMAIN wire' : out'[i].by = "heartbeat" => wire'[j].by = "heartbeat"
    BY <2>2, <2>3, Zenon
  <2>6. ASSUME pc["recover"] \in Busy
        PROVE  /\ \A i \in DOMAIN wire' : wire'[i].by = "recover"
               /\ \A i \in DOMAIN out' : out'[i].by = "recover"
    <3>1. /\ \A i \in DOMAIN wire : wire[i].by = "recover"
          /\ \A i \in DOMAIN out : out[i].by = "recover"
      BY <2>6, Zenon DEF Line, Order
    <3>2. x.by = "recover" /\ \A i \in DOMAIN wire' : wire'[i].by = "recover"
      BY <1>3, <3>1, Zenon
    <3>3. QED
      BY <1>4, <3>1, <3>2, Zenon
  <2>7. QED
    BY <2>1, <2>4, <2>5, <2>6, Zenon DEF Order
<1>10. OneBase'
  <2>1. \A i, j \in DOMAIN wire' :
          /\ wire'[i].by = "recover" /\ wire'[j].by = "recover"
          /\ Base(wire'[i].cmd) /\ Base(wire'[j].cmd)
          => wire'[i].cmd = wire'[j].cmd
    <3>1. ASSUME NEW i \in DOMAIN wire', NEW j \in DOMAIN wire',
                 wire'[i].by = "recover", wire'[j].by = "recover",
                 Base(wire'[i].cmd), Base(wire'[j].cmd)
          PROVE  wire'[i].cmd = wire'[j].cmd
      <4>1. /\ i + 1 \in DOMAIN wire /\ j + 1 \in DOMAIN wire
            /\ wire'[i] = wire[i + 1] /\ wire'[j] = wire[j + 1]
        BY <1>3, <3>1, Zenon
      <4>2. QED
        BY <3>1, <4>1, Zenon DEF Line, OneBase
    <3>2. QED
      BY <3>1, Zenon
  <2>2. \A i \in DOMAIN wire' :
          wire'[i].by = "heartbeat" /\ Base(wire'[i].cmd) => wire'[i].cmd = ModeBase(target)
    BY <1>3, ZenonT(30) DEF Line, OneBase
  <2>3. ASSUME NEW i \in DOMAIN out', out'[i].by = "heartbeat", OkMode(out'[i].ans)
        PROVE  out'[i].ans.cmd = ModeBase(target)
    <3>1. CASE i \in DOMAIN out /\ out'[i] = out[i]
      BY <2>3, <3>1, Zenon DEF Line, OneBase
    <3>2. CASE out'[i] = e /\ e.by = x.by
      <4>1. e.ans.cmd = c /\ Base(c) /\ x.by = "heartbeat"
        BY <1>1, <2>3, <3>2, OkIsBase, Zenon
      <4>2. c = ModeBase(target)
        BY <1>3, <1>5, <4>1, Zenon DEF Line, OneBase
      <4>3. QED
        BY <3>2, <4>1, <4>2, Zenon
    <3>3. QED
      BY <1>4, <3>1, <3>2, Zenon
  <2>4. QED
    BY <2>1, <2>2, <2>3, Zenon DEF OneBase
<1>11. Answered'
  <2>1. ASSUME NEW i \in DOMAIN out', out'[i].by = "recover", OkMode(out'[i].ans),
               \A j \in DOMAIN out' : out'[j].by = "recover"
        PROVE  /\ recv' = out'[i].ans.cmd.at
               /\ \A j \in DOMAIN wire' :
                    wire'[j].by = "recover" /\ Base(wire'[j].cmd) => wire'[j].cmd = out'[i].ans.cmd
    <3>1. CASE i \in DOMAIN out /\ out'[i] = out[i]
      <4> DEFINE d == out[i].ans.cmd
      <4>1. /\ recv = d.at /\ d.op = "mode"
            /\ \A j \in DOMAIN wire : wire[j].by = "recover" /\ Base(wire[j].cmd) => wire[j].cmd = d
        BY <1>4, <2>1, <3>1, OkIsBase, Zenon DEF Line, Answered
      <4> HIDE DEF d
      <4>2. recv' = d.at
        <5>1. CASE recv' = recv
          BY <4>1, <5>1, Zenon
        <5>2. CASE recv' = Executed(c) /\ Base(c) /\ x.by = "recover"
          <6>1. c = d
            BY <1>3, <1>5, <4>1, <5>2, Zenon
          <6>2. QED
            BY <1>6, <4>1, <5>2, <6>1, Zenon
        <5>3. CASE recv' = Executed(c) /\ ~Base(c)
          BY <1>6, <4>1, <5>3, Zenon
        <5>4. QED
          BY <1>0, <1>1, <2>1, <5>1, <5>2, <5>3, Zenon
      <4>3. QED
        BY <1>3, <3>1, <4>1, <4>2, Zenon DEF d
    <3>2. CASE out'[i] = e /\ e.by = x.by
      <4>1. e.ans.cmd = c /\ Base(c) /\ c.op = "mode" /\ recv' = Executed(c) /\ x.by = "recover"
        BY <1>1, <2>1, <3>2, OkIsBase, Zenon
      <4>2. \A j \in DOMAIN wire' : wire'[j].by = "recover" /\ Base(wire'[j].cmd) => wire'[j].cmd = c
        BY <1>3, <1>5, <4>1, Zenon DEF Line, OneBase
      <4>3. QED
        BY <1>6, <3>2, <4>1, <4>2, Zenon
    <3>3. QED
      BY <1>4, <3>1, <3>2, Zenon
  <2>2. ASSUME NEW i \in DOMAIN out', OkMode(out'[i].ans), out'[i].ans.cmd = ModeBase(target)
        PROVE  /\ recv' = ModeBase(target).at
               /\ \A j \in DOMAIN wire' : Base(wire'[j].cmd) => wire'[j].cmd = ModeBase(target)
    <3>0. ModeBase(target).op = "mode"
      BY CmdFacts, Zenon
    <3>1. CASE i \in DOMAIN out /\ out'[i] = out[i]
      <4>1. Sound(ModeBase(target))
        BY <2>2, <3>1, Zenon DEF Line, Answered
      <4>2. QED
        BY <1>7, <1>8, <3>0, <4>1, Zenon DEF Sound
    <3>2. CASE out'[i] = e /\ e.by = x.by
      <4>1. c = ModeBase(target) /\ Base(c) /\ recv' = Executed(c)
        BY <1>1, <2>2, <3>2, OkIsBase, Zenon
      <4>2. ASSUME NEW j \in DOMAIN wire', Base(wire'[j].cmd) PROVE wire'[j].cmd = ModeBase(target)
        <5>1. CASE wire'[j].by = "heartbeat"
          BY <1>3, <4>2, <5>1, ZenonT(30) DEF Line, OneBase
        <5>2. CASE wire'[j].by = "recover"
          <6>1. x.by = "recover"
            BY <1>3, <1>5, <5>2, Zenon DEF Line, Order
          <6>2. QED
            BY <1>3, <1>5, <4>1, <4>2, <5>2, <6>1, Zenon DEF Line, OneBase
        <5>3. QED
          BY <1>3, <5>1, <5>2, Elements, Zenon
      <4>3. QED
        BY <1>6, <3>0, <4>1, <4>2, Zenon
    <3>3. QED
      BY <1>4, <3>1, <3>2, Zenon
  <2>3. QED
    BY <2>1, <2>2, Zenon DEF Answered, Sound, Only
<1>12. Captured'
  <2>1. ASSUME pc["recover"] = "wait", NEW i \in DOMAIN cap, OkMode(cap[i]) PROVE Sound(cap[i].cmd)'
    <3>1. Sound(cap[i].cmd) /\ cap[i].cmd.op = "mode" /\ cap' = cap
      BY <2>1, OkIsBase, Zenon DEF Line, Captured
    <3>2. QED
      BY <1>7, <1>8, <3>1, Zenon DEF Sound, Only
  <2>2. ASSUME pc["heartbeat"] = "wait", NEW i \in DOMAIN cap, OkMode(cap[i]), cap[i].cmd = ModeBase(target)
        PROVE  Sound(ModeBase(target))'
    <3>1. Sound(ModeBase(target)) /\ ModeBase(target).op = "mode"
      BY <2>2, CmdFacts, Zenon DEF Line, Captured
    <3>2. QED
      BY <1>7, <1>8, <3>1, Zenon DEF Sound, Only
  <2>3. QED
    BY <2>1, <2>2, Zenon DEF Captured
<1>13. Stage'
  <2>1. pc["recover"] # "forget"
    BY <1>1, Zenon DEF Line, Stage
  <2>2. ASSUME NoneYet PROVE NoneYet'
    <3>1. ~Base(c)
      BY <1>3, <1>5, <2>2, Zenon DEF NoneYet
    <3>2. ~OkMode(e.ans)
      BY <1>1, <3>1, OkIsBase, Zenon
    <3>3. QED
      BY <1>3, <1>4, <2>2, <3>2, Zenon DEF NoneYet
  <2>3. ASSUME OnlyThis(Head(todo["recover"])) PROVE OnlyThis(Head(todo["recover"]))'
    <3> DEFINE d == Head(todo["recover"])
    <3>1. OkMode(e.ans) => e.ans.cmd = d
      BY <1>1, <1>3, <1>5, <2>3, OkIsBase, Zenon DEF OnlyThis, Only
    <3>2. \A i \in DOMAIN out' : OkMode(out'[i].ans) => out'[i].ans.cmd = d
      BY <1>4, <2>3, <3>1, Zenon DEF OnlyThis
    <3>3. \A i \in DOMAIN wire' : Base(wire'[i].cmd) => wire'[i].cmd = d
      BY <1>8, <2>3, Zenon DEF OnlyThis
    <3>4. QED
      BY <2>3, <3>2, <3>3, Zenon DEF OnlyThis, Only
  <2>4. QED
    BY <2>1, <2>2, <2>3, Zenon DEF Line, Stage
<1>14. Record'
  <2>1. ASSUME NEW k, Sound(ModeBase(k))
        PROVE  /\ recv' = ModeBase(k).at
               /\ \A i \in DOMAIN wire' : Base(wire'[i].cmd) => wire'[i].cmd = ModeBase(k)
    <3>1. ModeBase(k).op = "mode"
      BY CmdFacts, Zenon
    <3>2. QED
      BY <1>7, <1>8, <2>1, <3>1, Zenon DEF Sound
  <2>2. QED
    BY <2>1, Zenon DEF Line, Record, Sound, Only
<1>15. QED
  BY <1>9, <1>10, <1>11, <1>12, <1>13, <1>14, Zenon DEF Line

(* An answer arrives; it is captured while a command waits for its verdict. *)
LEMMA IngestLine ==
    ASSUME TypeOK, Owner, Plan, Line, IngestUart
    PROVE  Line'
<1> DEFINE x == Head(out)
<1>1. /\ out # <<>> /\ out' = Tail(out)
      /\ cap' = cap \/ cap' = Append(cap, x.ans)
      /\ UNCHANGED <<wire, recv, txn, pc, todo, done, target, acked>>
  BY Zenon DEF IngestUart, known, task, receiver
<1>2. out \in Seq([ans : Answers, by : Tasks]) /\ cap \in Seq(Answers)
  BY TypeParts DEF LineT
<1>3. /\ 1 \in DOMAIN out /\ x = out[1] /\ x \in [ans : Answers, by : Tasks]
      /\ \A i \in DOMAIN out' : i + 1 \in DOMAIN out /\ out'[i] = out[i + 1] /\ 1 < i + 1
      /\ \A i, j \in DOMAIN out' : i < j => i + 1 < j + 1
  BY <1>1, <1>2, Popped
<1>4. \A i \in DOMAIN cap' : (i \in DOMAIN cap /\ cap'[i] = cap[i]) \/ cap'[i] = x.ans
  <2>1. CASE cap' = cap
    BY <2>1, Zenon
  <2>2. CASE cap' = Append(cap, x.ans)
    <3>1. x.ans \in Answers
      BY <1>3
    <3>2. /\ \A i \in DOMAIN cap : Append(cap, x.ans)[i] = cap[i]
          /\ Append(cap, x.ans)[Len(cap) + 1] = x.ans
          /\ \A i \in DOMAIN Append(cap, x.ans) : i \in DOMAIN cap \/ i = Len(cap) + 1
      BY <1>2, <3>1, Appended
    <3>3. QED
      BY <2>2, <3>2, Zenon
  <2>3. QED
    BY <1>1, <2>1, <2>2
<1>5. x.by \in {"recover", "heartbeat"}
  BY <1>3, Elements, Zenon
<1> HIDE DEF x
<1>6. ASSUME NEW d, Sound(d) PROVE recv' = d.at /\ \A j \in DOMAIN wire' : Base(wire'[j].cmd) => wire'[j].cmd = d
  BY <1>1, <1>6, Zenon DEF Sound, Only
<1>7. Order'
  <2>1. \A i, j \in DOMAIN out' : i < j /\ out'[i].by = "heartbeat" => out'[j].by = "heartbeat"
    <3>1. ASSUME NEW i \in DOMAIN out', NEW j \in DOMAIN out', i < j, out'[i].by = "heartbeat"
          PROVE  out'[j].by = "heartbeat"
      <4>1. /\ i + 1 \in DOMAIN out /\ j + 1 \in DOMAIN out /\ i + 1 < j + 1
            /\ out'[i] = out[i + 1] /\ out'[j] = out[j + 1]
        BY <1>3, <3>1, Zenon
      <4>2. QED
        BY <3>1, <4>1, Zenon DEF Line, Order
    <3>2. QED
      BY <3>1, Zenon
  <2>2. \A i \in DOMAIN out', j \in DOMAIN wire : out'[i].by = "heartbeat" => wire[j].by = "heartbeat"
    <3>1. \A i \in DOMAIN out, j \in DOMAIN wire : out[i].by = "heartbeat" => wire[j].by = "heartbeat"
      BY Zenon DEF Line, Order
    <3>2. ASSUME NEW i \in DOMAIN out', NEW j \in DOMAIN wire, out'[i].by = "heartbeat"
          PROVE  wire[j].by = "heartbeat"
      <4>1. i + 1 \in DOMAIN out /\ out[i + 1].by = "heartbeat"
        BY <1>3, <3>2, Zenon
      <4>2. QED
        BY <3>1, <4>1, Zenon
    <3>3. QED
      BY <3>2, Zenon
  <2>3. ASSUME pc["recover"] \in Busy
        PROVE  /\ \A i \in DOMAIN wire : wire[i].by = "recover"
               /\ \A i \in DOMAIN out' : out'[i].by = "recover"
    <3>1. /\ \A i \in DOMAIN wire : wire[i].by = "recover"
          /\ \A i \in DOMAIN out : out[i].by = "recover"
      BY <2>3, Zenon DEF Line, Order
    <3>2. ASSUME NEW i \in DOMAIN out' PROVE out'[i].by = "recover"
      <4>1. i + 1 \in DOMAIN out /\ out'[i] = out[i + 1]
        BY <1>3, Zenon
      <4>2. QED
        BY <3>1, <4>1, Zenon
    <3>3. QED
      BY <3>1, <3>2, Zenon
  <2>4. \A i, j \in DOMAIN wire : i < j /\ wire[i].by = "heartbeat" => wire[j].by = "heartbeat"
    BY Zenon DEF Line, Order
  <2>5. QED
    BY <1>1, <2>1, <2>2, <2>3, <2>4, Zenon DEF Order, Busy
<1>8. OneBase'
  <2>1. \A i \in DOMAIN out' :
          out'[i].by = "heartbeat" /\ OkMode(out'[i].ans) => out'[i].ans.cmd = ModeBase(target)
    BY <1>3, ZenonT(30) DEF Line, OneBase
  <2>2. /\ \A i, j \in DOMAIN wire :
             /\ wire[i].by = "recover" /\ wire[j].by = "recover"
             /\ Base(wire[i].cmd) /\ Base(wire[j].cmd)
             => wire[i].cmd = wire[j].cmd
        /\ \A i \in DOMAIN wire :
             wire[i].by = "heartbeat" /\ Base(wire[i].cmd) => wire[i].cmd = ModeBase(target)
    BY Zenon DEF Line, OneBase
  <2>3. QED
    BY <1>1, <2>1, <2>2, Zenon DEF OneBase
<1>9. Answered'
  <2>1. ASSUME NEW i \in DOMAIN out', out'[i].by = "recover", OkMode(out'[i].ans),
               \A j \in DOMAIN out' : out'[j].by = "recover"
        PROVE  /\ recv = out'[i].ans.cmd.at
               /\ \A j \in DOMAIN wire :
                    wire[j].by = "recover" /\ Base(wire[j].cmd) => wire[j].cmd = out'[i].ans.cmd
    <3>1. i + 1 \in DOMAIN out /\ out'[i] = out[i + 1] /\ 1 < i + 1
      BY <1>3, Zenon
    <3>2. x.by = "recover"
      BY <1>3, <1>5, <2>1, <3>1, Zenon DEF Line, Order
    <3>3. ASSUME NEW j \in DOMAIN out PROVE out[j].by = "recover"
      <4>1. CASE j = 1
        BY <1>3, <3>2, <4>1, Zenon
      <4>2. CASE j # 1
        <5>1. j - 1 \in DOMAIN Tail(out) /\ Tail(out)[j - 1] = out[j]
          BY <1>1, <1>2, <4>2
        <5>2. QED
          BY <1>1, <2>1, <5>1, Zenon
      <4>3. QED
        BY <4>1, <4>2
    <3>4. QED
      BY <2>1, <3>1, <3>3, Zenon DEF Line, Answered
  <2>2. ASSUME NEW i \in DOMAIN out', OkMode(out'[i].ans), out'[i].ans.cmd = ModeBase(target)
        PROVE  Sound(ModeBase(target))
    BY <1>3, <2>2, Zenon DEF Line, Answered
  <2>3. QED
    BY <1>1, <1>6, <2>1, <2>2, Zenon DEF Answered, Sound, Only
<1>10. Captured'
  <2>1. ASSUME pc["recover"] = "wait", NEW i \in DOMAIN cap', OkMode(cap'[i]) PROVE Sound(cap'[i].cmd)
    <3>1. CASE i \in DOMAIN cap /\ cap'[i] = cap[i]
      BY <2>1, <3>1, Zenon DEF Line, Captured
    <3>2. CASE cap'[i] = x.ans
      <4>1. /\ \A j \in DOMAIN wire : wire[j].by = "recover"
            /\ \A j \in DOMAIN out : out[j].by = "recover"
        BY <2>1 DEF Line, Order, Busy
      <4>2. OkMode(out[1].ans) /\ cap'[i].cmd = out[1].ans.cmd
        BY <1>3, <2>1, <3>2, Zenon
      <4>3. QED
        BY <1>3, <4>1, <4>2, Zenon DEF Line, Answered, Sound, Only
    <3>3. QED
      BY <1>4, <3>1, <3>2, Zenon
  <2>2. ASSUME pc["heartbeat"] = "wait", NEW i \in DOMAIN cap', OkMode(cap'[i]), cap'[i].cmd = ModeBase(target)
        PROVE  Sound(ModeBase(target))
    <3>1. CASE i \in DOMAIN cap /\ cap'[i] = cap[i]
      BY <2>2, <3>1, Zenon DEF Line, Captured
    <3>2. CASE cap'[i] = x.ans
      <4>1. OkMode(out[1].ans) /\ out[1].ans.cmd = ModeBase(target)
        BY <1>3, <2>2, <3>2, Zenon
      <4>2. QED
        BY <1>3, <4>1, Zenon DEF Line, Answered
    <3>3. QED
      BY <1>4, <3>1, <3>2, Zenon
  <2>3. QED
    BY <1>1, <1>6, <2>1, <2>2, Zenon DEF Captured, Sound, Only
<1>11. Stage'
  <2>1. pc["recover"] # "forget"
    BY <1>1, Zenon DEF Line, Stage
  <2>2. ASSUME NoneYet PROVE NoneYet'
    <3>1. ~OkMode(x.ans)
      BY <1>3, <2>2, Zenon DEF NoneYet
    <3>2. \A i \in DOMAIN out' : ~OkMode(out'[i].ans)
      BY <1>3, <2>2, Zenon DEF NoneYet
    <3>3. pc["recover"] = "wait" => \A i \in DOMAIN cap' : ~OkMode(cap'[i])
      BY <1>4, <2>2, <3>1, Zenon DEF NoneYet
    <3>4. QED
      BY <1>1, <2>2, <3>2, <3>3, Zenon DEF NoneYet
  <2>3. ASSUME OnlyThis(Head(todo["recover"])) PROVE OnlyThis(Head(todo["recover"]))'
    <3> DEFINE d == Head(todo["recover"])
    <3>1. OkMode(x.ans) => x.ans.cmd = d
      BY <1>3, <2>3, Zenon DEF OnlyThis
    <3>2. \A i \in DOMAIN out' : OkMode(out'[i].ans) => out'[i].ans.cmd = d
      BY <1>3, <2>3, Zenon DEF OnlyThis
    <3>3. pc["recover"] = "wait" => \A i \in DOMAIN cap' : OkMode(cap'[i]) => cap'[i].cmd = d
      BY <1>4, <2>3, <3>1, Zenon DEF OnlyThis
    <3>4. acked = None /\ Only(d)
      BY <2>3, Zenon DEF OnlyThis
    <3>5. QED
      BY <1>1, <3>2, <3>3, <3>4, Zenon DEF OnlyThis, Only
  <2>4. QED
    BY <1>1, <2>1, <2>2, <2>3, Zenon DEF Line, Stage
<1>12. Record'
  BY <1>1, <1>6, Zenon DEF Line, Record, Sound, Only
<1>13. QED
  BY <1>7, <1>8, <1>9, <1>10, <1>11, <1>12, Zenon DEF Line

(* A step that leaves the line and the record alone, or gives an attempt up. *)
LEMMA QuietLine ==
    ASSUME Line, UNCHANGED <<wire, out, recv, target, txn, todo, done, acked>>, cap' \in {cap, <<>>},
           \A t \in {"recover", "heartbeat"} :
             pc'[t] = pc[t] \/ (pc[t] = "wait" /\ pc'[t] = "send")
    PROVE  Line'
<1>1. /\ pc'["recover"] = pc["recover"] \/ (pc["recover"] = "wait" /\ pc'["recover"] = "send")
      /\ pc'["heartbeat"] = pc["heartbeat"] \/ (pc["heartbeat"] = "wait" /\ pc'["heartbeat"] = "send")
  OBVIOUS
<1>2. Order' /\ OneBase' /\ Answered' /\ Captured'
  BY <1>1, SameLine DEF Busy
<1>3. \A i \in DOMAIN cap' : i \in DOMAIN cap /\ cap'[i] = cap[i]
  BY Empty, Zenon
<1>4. pc'["recover"] = "wait" => pc["recover"] = "wait"
  BY <1>1
<1>5. ASSUME NoneYet PROVE NoneYet'
  BY <1>3, <1>4, <1>5, Zenon DEF NoneYet
<1>6. ASSUME OnlyThis(Head(todo["recover"])) PROVE OnlyThis(Head(todo["recover"]))'
  BY <1>3, <1>4, <1>6, Zenon DEF OnlyThis, Only
<1>7. /\ pc'["recover"] = "forget" => pc["recover"] = "forget"
      /\ pc'["recover"] = "base" => pc["recover"] = "base"
      /\ pc'["recover"] \in {"send", "wait"} => pc["recover"] \in {"send", "wait"}
      /\ pc'["recover"] # "forget" => pc["recover"] # "forget"
  BY <1>1
<1>8. Stage'
  BY <1>5, <1>6, <1>7, Zenon DEF Line, Stage
<1>9. Record'
  BY <1>7, Zenon DEF Line, Record, Sound, Only
<1>10. QED
  BY <1>2, <1>8, <1>9, Zenon DEF Line

(* The reset pulse empties the line, whatever was on it. *)
LEMMA PulseLine ==
    ASSUME TypeOK, Owner, ResetPulse
    PROVE  Line'
<1>1. /\ pc["recover"] = "pulse" /\ wire' = <<>> /\ out' = <<>> /\ txn' = txn
  BY Zenon DEF ResetPulse
<1>2. pc'["recover"] = "forget" /\ pc'["heartbeat"] = pc["heartbeat"]
  BY Consts, TypeParts DEF ResetPulse, TaskT
<1>3. txn = "recover" /\ pc["heartbeat"] # "wait"
  BY <1>1 DEF Owner
<1>4. DOMAIN wire' = {} /\ DOMAIN out' = {}
  BY <1>1, Empty, Zenon
<1>5. Order' /\ OneBase' /\ Answered'
  BY <1>4, Zenon DEF Order, OneBase, Answered
<1>6. Captured' /\ Stage' /\ Record'
  BY <1>1, <1>2, <1>3 DEF Captured, Stage, Record
<1>7. QED
  BY <1>5, <1>6, Zenon DEF Line

(* gnss_receiver_epoch_invalidate, on an empty line. *)
LEMMA InvalidateLine ==
    ASSUME TypeOK, Owner, Line, EpochInvalidate
    PROVE  Line'
<1>1. /\ pc["recover"] = "forget" /\ acked' = None
      /\ UNCHANGED <<wire, out, recv, target, cap, txn>>
  BY Zenon DEF EpochInvalidate, receiver
<1>2. /\ pc'["recover"] = "send" /\ pc'["heartbeat"] = pc["heartbeat"]
      /\ todo'["recover"] = <<Undulation, Rtcm>>
  BY Consts, TypeParts DEF EpochInvalidate, TaskT
<1>3. Order' /\ OneBase' /\ Answered' /\ Captured'
  BY <1>1, <1>2, SameLine DEF Busy
<1>4. wire = <<>> /\ out = <<>> /\ txn = "recover"
  BY <1>1 DEF Line, Stage, Owner
<1>5. DOMAIN wire' = {} /\ DOMAIN out' = {}
  BY <1>1, <1>4, Empty, Zenon
<1>6. NoneYet'
  BY <1>1, <1>2, <1>5 DEF NoneYet
<1>7. ~Choice(todo'["recover"])
  BY <1>2, BaseFacts DEF Choice
<1>8. Stage'
  BY <1>2, <1>6, <1>7 DEF Stage
<1>9. Record'
  BY <1>1, <1>4, Zenon DEF Record
<1>10. QED
  BY <1>3, <1>8, <1>9, Zenon DEF Line

(* config_gnss_base chooses its base command: none is on the line yet. *)
LEMMA ChooseLine ==
    ASSUME TypeOK, Owner, Line, ChooseBase
    PROVE  Line'
<1>1. /\ pc["recover"] = "base" /\ UNCHANGED <<wire, out, recv, target, cap, txn>>
      /\ acked' \in {acked, None}
  BY Zenon DEF ChooseBase, receiver, line
<1>2. pc'["recover"] = "send" /\ pc'["heartbeat"] = pc["heartbeat"]
  BY Consts, TypeParts DEF ChooseBase, TaskT
<1>3. PICK c : Base(c) /\ todo'["recover"] = <<c, Save>>
  <2> DEFINE d == IF LoadFixedBase # None THEN ModeBase(LoadFixedBase) ELSE Survey
  <2>1. Base(d)
    BY BaseFacts, Zenon
  <2>2. todo' = [todo EXCEPT !["recover"] = <<d, Save>>]
    BY Zenon DEF ChooseBase
  <2> HIDE DEF d
  <2>3. todo'["recover"] = <<d, Save>>
    BY <2>2, Consts, TypeParts DEF TaskT
  <2>4. QED
    BY <2>1, <2>3
<1>4. NoneYet /\ txn = "recover" /\ acked' = None
  <2>1. NoneYet /\ txn = "recover"
    BY <1>1 DEF Line, Stage, Owner
  <2>2. QED
    BY <1>1, <2>1, Zenon DEF NoneYet
<1>5. Order' /\ OneBase' /\ Answered' /\ Captured'
  BY <1>1, <1>2, SameLine DEF Busy
<1>6. ~Early(todo'["recover"])
  BY <1>3, BaseFacts DEF Early
<1>7. OnlyThis(Head(todo["recover"]))'
  <2>1. pc'["recover"] # "wait"
    BY <1>2
  <2>2. QED
    BY <1>1, <1>4, <2>1, Zenon DEF OnlyThis, Only, NoneYet
<1>8. Stage'
  BY <1>2, <1>6, <1>7 DEF Stage
<1>9. Record'
  BY <1>1, <1>4, Zenon DEF Record
<1>10. QED
  BY <1>5, <1>8, <1>9, Zenon DEF Line

(* The end of config_gnss_base and of gnss_init. *)
LEMMA EndLine ==
    ASSUME TypeOK, Owner, Line, ConfigEnds \/ LogVersion
    PROVE  Line'
<1>1. /\ UNCHANGED <<wire, out, recv, target, acked>> /\ cap' \in {cap, <<>>}
      /\ pc["recover"] \in {"finish", "version"} /\ txn' \in {txn, None}
  BY Zenon DEF ConfigEnds, LogVersion, receiver, known
<1>2. pc'["recover"] \in {"version", "idle"} /\ pc'["heartbeat"] \in {pc["heartbeat"], "idle"}
  BY Consts, TypeParts DEF ConfigEnds, LogVersion, TaskT
<1>3. Order' /\ OneBase' /\ Answered' /\ Captured'
  BY <1>1, <1>2, SameLine DEF Busy
<1>4. txn = "recover" /\ txn' # "heartbeat" /\ pc["recover"] # "forget"
  BY <1>1, Consts DEF Owner
<1>5. Stage'
  BY <1>2 DEF Stage
<1>6. Record'
  BY <1>1, <1>4, Consts, Zenon DEF Line, Record, Sound, Only
<1>7. QED
  BY <1>3, <1>5, <1>6, Zenon DEF Line

(* gnss_set_fixed_base begins: no answer to an earlier push is under way. *)
LEMMA PushLine ==
    ASSUME TypeOK, Owner, Line, SetFixedBase
    PROVE  Line'
<1>1. /\ TxnFree /\ Settled /\ UNCHANGED <<wire, out, recv, cap, acked>>
  BY Zenon DEF SetFixedBase, receiver, known
<1>2. txn = None /\ pc["recover"] = "idle"
  BY <1>1, Consts DEF Owner, TxnFree
<1>3. CASE UNCHANGED <<txn, pc, todo, done, target>>
  BY <1>1, <1>3, QuietLine, Zenon
<1>4. CASE /\ txn' = "heartbeat" /\ done' = [done EXCEPT !["heartbeat"] = {}]
           /\ pc' = [pc EXCEPT !["heartbeat"] = "send"]
  <2>1. pc'["recover"] = "idle" /\ pc'["heartbeat"] = "send" /\ done'["heartbeat"] = {}
    BY <1>2, <1>4, Consts, TypeParts DEF TaskT
  <2>2. /\ \A i \in DOMAIN wire : wire[i].by = "recover"
        /\ \A i \in DOMAIN out : out[i].by = "recover"
    BY <1>1, Elements, Zenon DEF Settled
  <2>3. Order'
    <3>1. pc'["recover"] \notin Busy
      BY <2>1 DEF Busy
    <3>2. QED
      BY <1>1, <2>2, <3>1, Zenon DEF Line, Order
  <2>4. OneBase'
    <3>1. /\ \A i \in DOMAIN wire : wire[i].by # "heartbeat"
          /\ \A i \in DOMAIN out : out[i].by # "heartbeat"
      BY <1>1, Zenon DEF Settled
    <3>2. QED
      BY <1>1, <3>1, Zenon DEF Line, OneBase
  <2>5. Answered'
    <3>1. ASSUME NEW i \in DOMAIN out, OkMode(out[i].ans)
          PROVE  Sound(out[i].ans.cmd)
      BY <2>2, <3>1, Zenon DEF Line, Answered, Sound, Only
    <3>2. \A i \in DOMAIN out : OkMode(out[i].ans) /\ out[i].ans.cmd = ModeBase(target') =>
            Sound(ModeBase(target'))
      BY <3>1, Zenon
    <3>3. QED
      BY <1>1, <3>2, Zenon DEF Line, Answered, Sound, Only
  <2>6. Captured' /\ Stage'
    BY <2>1 DEF Captured, Stage
  <2>7. Record'
    BY <1>4, <2>1 DEF Record
  <2>8. QED
    BY <2>3, <2>4, <2>5, <2>6, <2>7, Zenon DEF Line
<1>5. QED
  BY <1>3, <1>4, Zenon DEF SetFixedBase

(* gnss_set_fixed_base ends: what it records is what its mode base set. *)
LEMMA PushEndsLine ==
    ASSUME TypeOK, Owner, Line, FixedBaseEnds
    PROVE  Line'
<1>1. /\ pc["heartbeat"] = "finish" /\ txn' = None /\ UNCHANGED <<wire, out, recv, cap, target>>
      /\ acked' = IF "mode" \in done["heartbeat"] THEN target ELSE None
  BY Zenon DEF FixedBaseEnds, receiver
<1>2. pc'["heartbeat"] = "idle" /\ pc'["recover"] = pc["recover"]
  BY Consts, TypeParts DEF FixedBaseEnds, TaskT
<1>3. txn = "heartbeat" /\ pc["recover"] = "idle"
  BY <1>1 DEF Owner, Busy
<1>4. Order' /\ OneBase' /\ Answered' /\ Captured'
  BY <1>1, <1>2, <1>3, SameLine DEF Busy
<1>5. Stage'
  BY <1>2, <1>3 DEF Stage
<1>6. Record'
  <2>1. acked' # None => Sound(ModeBase(acked'))
    BY <1>1, <1>3, Zenon DEF Line, Record
  <2>2. QED
    BY <1>1, <2>1, Consts, Zenon DEF Record, Sound, Only
<1>7. QED
  BY <1>4, <1>5, <1>6, Zenon DEF Line

(* The receiver's answer to the first command on the line. *)
Reply(text, valid) ==
    [ans |-> [cmd |-> Head(wire).cmd, text |-> text, valid |-> valid], by |-> Head(wire).by]

LEMMA Replies ==
    ASSUME TypeOK, wire # <<>>, NEW t \in {"OK", "FAIL", "other"}, NEW b \in BOOLEAN
    PROVE  /\ Reply(t, b) \in [ans : Answers, by : Tasks]
           /\ Reply(t, b).by = Head(wire).by /\ Reply(t, b).ans.cmd = Head(wire).cmd
           /\ OkMode(Reply(t, b).ans) => t = "OK" /\ b
<1>1. Head(wire) \in [cmd : Commands, by : Tasks]
  BY TypeParts, Popped DEF LineT
<1>2. Reply(t, b).ans \in Answers
  BY <1>1 DEF Reply, Answers
<1>3. QED
  BY <1>1, <1>2 DEF Reply, OkMode

(* Every step keeps the line in order, from one reset pulse to the next. *)
LEMMA LineStep ==
    ASSUME TypeOK, Owner, Plan, pc["recover"] # "pulse" => Line, pc'["recover"] # "pulse",
           [Next]_vars
    PROVE  Line'
<1>1. CASE Send("recover")
  <2>1. Line
    BY <1>1 DEF Send, Owner
  <2>2. QED
    BY <1>1, <2>1, SendLineR
<1>2. CASE Send("heartbeat")
  <2>1. Line
    BY <1>2 DEF Send, Owner
  <2>2. QED
    BY <1>2, <2>1, SendLineH
<1>3. CASE Verdict("recover")
  <2>1. pc["recover"] = "wait" /\ UNCHANGED <<txn, target, line, receiver>>
    BY <1>3, Zenon DEF Verdict
  <2>2. Line
    BY <2>1 DEF Owner
  <2>3. Outcome("recover", AckScan(Head(todo["recover"])) = "OK")
    BY <1>3, Zenon DEF Verdict
  <2>4. AckScan(Head(todo["recover"])) = "OK" =>
          \E i \in DOMAIN cap : cap[i].valid /\ cap[i].text = "OK" /\ cap[i].cmd = Head(todo["recover"])
    BY TypeParts, AckScanIs DEF LineT
  <2>5. QED
    BY <2>1, <2>2, <2>3, <2>4, VerdictLineR
<1>4. CASE Verdict("heartbeat")
  <2>1. pc["heartbeat"] = "wait" /\ UNCHANGED <<txn, target, line, receiver>>
    BY <1>4, Zenon DEF Verdict
  <2>2. Line
    BY <2>1 DEF Owner
  <2>3. Outcome("heartbeat", AckScan(Head(todo["heartbeat"])) = "OK")
    BY <1>4, Zenon DEF Verdict
  <2>4. AckScan(Head(todo["heartbeat"])) = "OK" =>
          \E i \in DOMAIN cap : cap[i].valid /\ cap[i].text = "OK" /\ cap[i].cmd = Head(todo["heartbeat"])
    BY TypeParts, AckScanIs DEF LineT
  <2>5. QED
    BY <2>1, <2>2, <2>3, <2>4, VerdictLineH
<1>5. CASE AckTimeout("recover")
  <2>1. pc["recover"] = "wait" /\ UNCHANGED <<txn, target, line, receiver>>
    BY <1>5, Zenon DEF AckTimeout
  <2>2. Line
    BY <2>1 DEF Owner
  <2>3. CASE MayRetry("recover")
    <3>1. pc'["recover"] = "send" /\ pc'["heartbeat"] = pc["heartbeat"] /\ UNCHANGED <<todo, done, acked>>
      BY <1>5, <2>3, Consts, TypeParts, Zenon DEF AckTimeout, TaskT
    <3>2. UNCHANGED <<wire, out, cap, recv>>
      BY <2>1, Zenon DEF line, receiver
    <3>3. QED
      BY <2>1, <2>2, <3>1, <3>2, QuietLine
  <2>4. CASE ~MayRetry("recover")
    <3>1. Outcome("recover", FALSE)
      BY <1>5, <2>4, Zenon DEF AckTimeout
    <3>2. QED
      BY <2>1, <2>2, <3>1, VerdictLineR
  <2>5. QED
    BY <2>3, <2>4
<1>6. CASE AckTimeout("heartbeat")
  <2>1. pc["heartbeat"] = "wait" /\ UNCHANGED <<txn, target, line, receiver>>
    BY <1>6, Zenon DEF AckTimeout
  <2>2. Line
    BY <2>1 DEF Owner
  <2>3. CASE MayRetry("heartbeat")
    <3>1. pc'["heartbeat"] = "send" /\ pc'["recover"] = pc["recover"] /\ UNCHANGED <<todo, done, acked>>
      BY <1>6, <2>3, Consts, TypeParts, Zenon DEF AckTimeout, TaskT
    <3>2. UNCHANGED <<wire, out, cap, recv>>
      BY <2>1, Zenon DEF line, receiver
    <3>3. QED
      BY <2>1, <2>2, <3>1, <3>2, QuietLine
  <2>4. CASE ~MayRetry("heartbeat")
    <3>1. Outcome("heartbeat", FALSE)
      BY <1>6, <2>4, Zenon DEF AckTimeout
    <3>2. QED
      BY <2>1, <2>2, <3>1, VerdictLineH
  <2>5. QED
    BY <2>3, <2>4
<1>7. CASE ResetPulse
  BY <1>7, PulseLine
<1>8. CASE EpochInvalidate
  <2>1. Line
    BY <1>8, Consts DEF EpochInvalidate, Owner, TxnFree
  <2>2. QED
    BY <1>8, <2>1, InvalidateLine
<1>9. CASE ChooseBase
  <2>1. Line
    BY <1>9, Consts DEF ChooseBase, Owner, TxnFree
  <2>2. QED
    BY <1>9, <2>1, ChooseLine
<1>10. CASE ConfigEnds
  <2>1. Line
    BY <1>10, Consts DEF ConfigEnds, Owner, TxnFree
  <2>2. QED
    BY <1>10, <2>1, EndLine
<1>11. CASE LogVersion
  <2>1. Line
    BY <1>11, Consts DEF LogVersion, Owner, TxnFree
  <2>2. QED
    BY <1>11, <2>1, EndLine
<1>12. CASE RecoverBegins
  BY <1>12, Consts, TypeParts DEF RecoverBegins, TaskT
<1>13. CASE SetFixedBase
  <2>1. Line
    BY <1>13, Consts DEF SetFixedBase, Owner, TxnFree
  <2>2. QED
    BY <1>13, <2>1, PushLine
<1>14. CASE FixedBaseEnds
  <2>1. Line
    BY <1>14, Consts DEF FixedBaseEnds, Owner, TxnFree
  <2>2. QED
    BY <1>14, <2>1, PushEndsLine
<1>15. CASE CooldownEnds
  <2>1. UNCHANGED <<wire, out, recv, target, txn, pc, todo, done, acked>> /\ cap' \in {cap, <<>>}
    BY <1>15, Zenon DEF CooldownEnds, task, line, known, receiver
  <2>2. QED
    BY <2>1, QuietLine, Zenon
<1>16. CASE Execute
  <2>1. /\ wire # <<>> /\ wire' = Tail(wire) /\ recv' = Executed(Head(wire).cmd)
        /\ UNCHANGED <<txn, pc, todo, done, target, acked, cap>>
    BY <1>16, Zenon DEF Execute, task, known
  <2>2. PICK b \in BOOLEAN : out' = Append(out, Reply("OK", b))
    BY <1>16, Zenon DEF Execute, Answer, Reply
  <2>3. Consumes(Reply("OK", b))
    BY <2>1, <2>2, Replies DEF Consumes
  <2>4. QED
    BY <2>1, <2>3, ConsumedLine, Zenon
<1>17. CASE Refuse
  <2>1. /\ wire # <<>> /\ wire' = Tail(wire)
        /\ UNCHANGED <<recv, txn, pc, todo, done, target, acked, cap>>
    BY <1>17, Zenon DEF Refuse, task, known, receiver
  <2>2. PICK t \in {"OK", "FAIL", "other"}, b \in BOOLEAN :
           out' = Append(out, Reply(t, b)) /\ ~(t = "OK" /\ b)
    <3>1. \/ out' = Append(out, Reply("FAIL", TRUE)) \/ out' = Append(out, Reply("other", TRUE))
          \/ out' = Append(out, Reply("OK", FALSE))
      BY <1>17, Zenon DEF Refuse, Answer, Reply
    <3>2. QED
      BY <3>1
  <2>3. Consumes(Reply(t, b))
    BY <2>1, <2>2, Replies DEF Consumes
  <2>4. QED
    BY <2>1, <2>3, ConsumedLine, Zenon
<1>18. CASE LoseCommand
  <2>1. /\ wire # <<>> /\ wire' = Tail(wire)
        /\ UNCHANGED <<out, recv, txn, pc, todo, done, target, acked, cap>>
    BY <1>18, Zenon DEF LoseCommand, task, known, receiver
  <2>2. Consumes(Reply("other", TRUE))
    BY <2>1, Replies DEF Consumes
  <2>3. QED
    BY <2>1, <2>2, ConsumedLine, Zenon
<1>19. CASE IngestUart
  <2>1. Line
    BY <1>19, Zenon DEF IngestUart, task
  <2>2. QED
    BY <1>19, <2>1, IngestLine
<1>20. CASE CaptureOverflows
  <2>1. UNCHANGED <<wire, out, recv, target, txn, pc, todo, done, acked>> /\ cap' \in {cap, <<>>}
    BY <1>20, Zenon DEF CaptureOverflows, task, line, known, receiver
  <2>2. QED
    BY <2>1, QuietLine, Zenon
<1>21. CASE Correct
  <2>1. UNCHANGED <<wire, out, recv, target, txn, pc, todo, done, acked>> /\ cap' \in {cap, <<>>}
    BY <1>21, Zenon DEF Correct, task, line, known, receiver
  <2>2. QED
    BY <2>1, QuietLine, Zenon
<1>22. CASE Restart
  BY <1>22, Consts DEF Restart, BootPc
<1>23. CASE UNCHANGED vars
  BY <1>23, QuietLine, Zenon DEF vars, task, line, known, receiver
<1>24. QED
  BY <1>1, <1>2, <1>3, <1>4, <1>5, <1>6, <1>7, <1>8, <1>9, <1>10, <1>11, <1>12, <1>13,
     <1>14, <1>15, <1>16, <1>17, <1>18, <1>19, <1>20, <1>21, <1>22, <1>23 DEF Next,
     Recover, Heartbeat, Receiver, Commanding

(* A coordinate only reaches NVS once no survey is left on the line. *)
LEMMA ResurveyStep == ASSUME BaseInv, [Next]_vars PROVE NeverResurveys'
<1> USE DEF BaseInv
<1>1. CASE Send("recover")
  <2> DEFINE e == [cmd |-> Head(todo["recover"]), by |-> "recover"]
  <2>1. pc["recover"] = "send" /\ wire' = Append(wire, e) /\ nvs' = nvs
    BY <1>1, Zenon DEF Send
  <2>2. e.cmd = Survey => nvs \notin Valid
    BY <2>1 DEF Plan
  <2>3. e \in [cmd : Commands, by : Tasks] /\ wire \in Seq([cmd : Commands, by : Tasks])
    BY <2>1, HeadIs, Consts, TypeParts DEF LineT
  <2> HIDE DEF e
  <2>4. \A i \in DOMAIN Append(wire, e) :
          (i \in DOMAIN wire /\ Append(wire, e)[i] = wire[i]) \/ Append(wire, e)[i] = e
    BY <2>3, Appended
  <2>5. QED
    BY <2>1, <2>2, <2>4, Zenon DEF NeverResurveys
<1>2. CASE Send("heartbeat")
  <2> DEFINE e == [cmd |-> Head(todo["heartbeat"]), by |-> "heartbeat"]
  <2>1. pc["heartbeat"] = "send" /\ wire' = Append(wire, e) /\ nvs' = nvs
    BY <1>2, Zenon DEF Send
  <2>2. e.cmd \in {Undulation, ModeBase(target), Save}
    BY <2>1 DEF Plan
  <2>3. e \in [cmd : Commands, by : Tasks] /\ wire \in Seq([cmd : Commands, by : Tasks])
    BY <2>1, HeadIs, Consts, TypeParts DEF LineT
  <2> HIDE DEF e
  <2>4. e.cmd # Survey
    BY <2>2, BaseFacts, Zenon
  <2>5. \A i \in DOMAIN Append(wire, e) :
          (i \in DOMAIN wire /\ Append(wire, e)[i] = wire[i]) \/ Append(wire, e)[i] = e
    BY <2>3, Appended
  <2>6. QED
    BY <2>1, <2>4, <2>5, Zenon DEF NeverResurveys
<1>3. CASE Verdict("recover")
  BY <1>3, Zenon DEF Verdict, NeverResurveys, vars, line
<1>4. CASE Verdict("heartbeat")
  BY <1>4, Zenon DEF Verdict, NeverResurveys, vars, line
<1>5. CASE AckTimeout("recover")
  BY <1>5, Zenon DEF AckTimeout, NeverResurveys, vars, line
<1>6. CASE AckTimeout("heartbeat")
  BY <1>6, Zenon DEF AckTimeout, NeverResurveys, vars, line
<1>7. CASE ResetPulse
  BY <1>7, Empty, Zenon DEF ResetPulse, NeverResurveys
<1>8. CASE EpochInvalidate
  BY <1>8, Zenon DEF EpochInvalidate, NeverResurveys, vars, line
<1>9. CASE ChooseBase
  BY <1>9, Zenon DEF ChooseBase, NeverResurveys, vars, line
<1>10. CASE ConfigEnds
  BY <1>10, Zenon DEF ConfigEnds, NeverResurveys, vars, line
<1>11. CASE LogVersion
  BY <1>11, Zenon DEF LogVersion, NeverResurveys, vars, line
<1>12. CASE RecoverBegins
  BY <1>12, Zenon DEF RecoverBegins, NeverResurveys, vars, line
<1>13. CASE SetFixedBase
  <2>1. wire' = wire /\ TxnFree /\ ie \in Valid /\ (nvs' = nvs \/ acked = ie)
    BY <1>13, Zenon DEF SetFixedBase
  <2>2. CASE acked = ie
    <3>1. Line /\ txn # "heartbeat" /\ pc["recover"] # "forget" /\ acked # None
      BY <2>1, <2>2, Consts DEF Owner, TxnFree
    <3>2. Only(ModeBase(acked))
      BY <3>1, Zenon DEF Line, Record, Sound
    <3>3. QED
      BY <2>1, <3>2, BaseFacts, Zenon DEF Only, NeverResurveys
  <2>3. CASE nvs' = nvs
    BY <2>1, <2>3, Zenon DEF NeverResurveys
  <2>4. QED
    BY <2>1, <2>2, <2>3
<1>14. CASE FixedBaseEnds
  <2>1. wire' = wire /\ pc["heartbeat"] = "finish" /\ (nvs' = nvs \/ "save" \in done["heartbeat"])
    BY <1>14, Zenon DEF FixedBaseEnds
  <2>2. CASE "save" \in done["heartbeat"]
    <3>1. Line /\ txn = "heartbeat" /\ "mode" \in done["heartbeat"]
      BY <2>1, <2>2 DEF Owner, Plan
    <3>2. Only(ModeBase(target))
      BY <3>1, Zenon DEF Line, Record, Sound
    <3>3. QED
      BY <2>1, <3>2, BaseFacts, Zenon DEF Only, NeverResurveys
  <2>3. CASE nvs' = nvs
    BY <2>1, <2>3, Zenon DEF NeverResurveys
  <2>4. QED
    BY <2>1, <2>2, <2>3
<1>15. CASE CooldownEnds
  BY <1>15, Zenon DEF CooldownEnds, NeverResurveys, vars, line
<1>16. CASE Execute
  <2>1. wire # <<>> /\ wire' = Tail(wire) /\ nvs' = nvs
    BY <1>16, Zenon DEF Execute
  <2>2. \A i \in DOMAIN wire' : i + 1 \in DOMAIN wire /\ wire'[i] = wire[i + 1]
    BY <2>1, TypeParts, Popped DEF LineT
  <2>3. QED
    BY <2>1, <2>2, Zenon DEF NeverResurveys
<1>17. CASE Refuse
  <2>1. wire # <<>> /\ wire' = Tail(wire) /\ nvs' = nvs
    BY <1>17, Zenon DEF Refuse
  <2>2. \A i \in DOMAIN wire' : i + 1 \in DOMAIN wire /\ wire'[i] = wire[i + 1]
    BY <2>1, TypeParts, Popped DEF LineT
  <2>3. QED
    BY <2>1, <2>2, Zenon DEF NeverResurveys
<1>18. CASE LoseCommand
  <2>1. wire # <<>> /\ wire' = Tail(wire) /\ nvs' = nvs
    BY <1>18, Zenon DEF LoseCommand
  <2>2. \A i \in DOMAIN wire' : i + 1 \in DOMAIN wire /\ wire'[i] = wire[i + 1]
    BY <2>1, TypeParts, Popped DEF LineT
  <2>3. QED
    BY <2>1, <2>2, Zenon DEF NeverResurveys
<1>19. CASE IngestUart
  BY <1>19, Zenon DEF IngestUart, NeverResurveys, vars, line
<1>20. CASE CaptureOverflows
  BY <1>20, Zenon DEF CaptureOverflows, NeverResurveys, vars, line
<1>21. CASE Correct
  BY <1>21, Zenon DEF Correct, NeverResurveys, vars, line
<1>22. CASE Restart
  BY <1>22, Zenon DEF Restart, NeverResurveys, vars, line
<1>23. CASE UNCHANGED vars
  BY <1>23, Zenon DEF vars, NeverResurveys, vars, line
<1>24. QED
  BY <1>1, <1>2, <1>3, <1>4, <1>5, <1>6, <1>7, <1>8, <1>9, <1>10, <1>11, <1>12, <1>13,
     <1>14, <1>15, <1>16, <1>17, <1>18, <1>19, <1>20, <1>21, <1>22, <1>23 DEF Next,
     Recover, Heartbeat, Receiver, Commanding

(* The state the program starts in. *)
LEMMA InitBase == Init => BaseInv
<1> SUFFICES ASSUME Init PROVE BaseInv
  OBVIOUS
<1>1. /\ pc["recover"] = "pulse" /\ pc["heartbeat"] = "off" /\ pc \in [Tasks -> Places]
  BY Consts DEF Init, BootPc, Places
<1>2. Owner /\ Plan
  BY <1>1, Consts DEF Init, Owner, Plan, Busy
<1>3. DOMAIN wire = {} /\ wire = <<>> /\ cap = <<>> /\ out = <<>> /\ todo = [t \in Tasks |-> <<>>]
  BY Empty, Zenon DEF Init
<1>4. NeverResurveys
  BY <1>3, Zenon DEF NeverResurveys
<1>5. LineT /\ todo \in [Tasks -> Seq(Commands)]
  BY <1>3, Empty, Zenon DEF Init, LineT
<1>6. /\ attempt \in [Tasks -> 0 .. ACK_RETRIES] /\ done \in [Tasks -> SUBSET Ops]
      /\ StoreT /\ ReceiverT /\ BoundsT
  BY Consts DEF Init, StoreT, ReceiverT, BoundsT
<1>7. TaskT
  BY <1>1, <1>5, <1>6, Consts, Zenon DEF Init, TaskT
<1>8. QED
  BY <1>1, <1>2, <1>4, <1>5, <1>6, <1>7, TypeParts, Zenon DEF BaseInv

LEMMA BaseStep == BaseInv /\ [Next]_vars => BaseInv'
<1> SUFFICES ASSUME BaseInv, [Next]_vars PROVE BaseInv'
  OBVIOUS
<1>1. TypeOK' /\ Owner' /\ Plan'
  BY TypeStep, OwnerStep DEF BaseInv
<1>2. pc'["recover"] # "pulse" => Line'
  BY LineStep DEF BaseInv
<1>3. NeverResurveys'
  BY ResurveyStep
<1>4. QED
  BY <1>1, <1>2, <1>3, Zenon DEF BaseInv

LEMMA Inductive == Spec => []BaseInv
  BY InitBase, BaseStep, PTL DEF Spec
-----------------------------------------------------------------------------
(* Nothing the line, the receiver or the two tasks do takes gnss.c's variables
   out of their ranges; in particular no unusable coordinate is ever sent,
   recorded or saved. *)
THEOREM TypeCorrect == Spec => []TypeOK
<1>1. BaseInv => TypeOK
  BY DEF BaseInv
<1>2. QED
  BY <1>1, Inductive, PTL

(* Whatever is lost, refused, damaged or late, and wherever a recovery or a
   restart interrupts: between transactions s_base_acked_coord is the coordinate
   the receiver runs, so that gnss_set_fixed_base may skip a push on it. *)
THEOREM AckedIsTrue == Spec => []AckedIsTruth
<1>1. BaseInv => AckedIsTruth
  <2> SUFFICES ASSUME BaseInv, txn = None, acked # None PROVE recv = acked
    BY Zenon DEF AckedIsTruth
  <2>1. pc["recover"] = "idle"
    BY Consts DEF BaseInv, Owner
  <2>2. Sound(ModeBase(acked))
    BY <2>1, Consts DEF BaseInv, Line, Record
  <2>3. QED
    BY <2>2, CmdFacts, Zenon DEF Sound
<1>2. QED
  BY <1>1, Inductive, PTL

(* While NVS holds a usable coordinate no survey-in command is on its way to
   the receiver: neither a recovery nor a restart measures the base again. *)
THEOREM NoResurvey == Spec => []NeverResurveys
<1>1. BaseInv => NeverResurveys
  BY DEF BaseInv
<1>2. QED
  BY <1>1, Inductive, PTL
=============================================================================
