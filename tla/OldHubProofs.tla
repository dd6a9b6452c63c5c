---------------------------- MODULE OldHubProofs ----------------------------
(***************************************************************************)
(* What the superseded hub promises, for any number of clients, names,     *)
(* calls, messages and days.                                               *)
(***************************************************************************)
EXTENDS OldHubProps, SequenceTheorems, WellFoundedInduction, TLAPS

(***************************************************************************)
(* Addresses                                                               *)
(***************************************************************************)

LEMMA IdentityParts ==
  ASSUME NEW w \in Identities
  PROVE  /\ w.project \in Literals /\ w.agent \in Literals
         /\ w.role \in Literals \cup {None}
         /\ w = [project |-> w.project, agent |-> w.agent, role |-> w.role]
         /\ w \in Targets /\ w # Malformed
<1>1. /\ w.project \in Literals /\ w.agent \in Literals /\ w.role \in Literals \cup {None}
      /\ w = [project |-> w.project, agent |-> w.agent, role |-> w.role]
  BY DEF Identities
<1>2. w \in Targets
  BY <1>1 DEF Targets, Positions
<1>3. w # Malformed
  BY <1>2, AddressAssumption DEF Targets, Positions
<1>. QED BY <1>1, <1>2, <1>3

\* The string of an identity says who it is.
LEMMA FormatsDiffer ==
  ASSUME NEW v \in Identities, NEW w \in Identities, FormatAddress(v) = FormatAddress(w)
  PROVE  v = w
<1>. DEFINE Two(x) == <<x.project, x.agent>>
            Three(x) == <<x.project, x.agent, x.role>>
<1>1. CASE v.role = None /\ w.role = None
  <2>1. Two(v) = Two(w)
    BY <1>1 DEF FormatAddress
  <2>2. v.project = w.project /\ v.agent = w.agent
    BY <2>1
  <2>. QED BY <1>1, <2>2, IdentityParts
<1>2. CASE v.role # None /\ w.role # None
  <2>1. Three(v) = Three(w)
    BY <1>2 DEF FormatAddress
  <2>2. v.project = w.project /\ v.agent = w.agent /\ v.role = w.role
    BY <2>1
  <2>. QED BY <2>2, IdentityParts
<1>3. CASE v.role = None /\ w.role # None
  <2>1. Two(v) = Three(w)
    BY <1>3 DEF FormatAddress
  <2>. QED BY <2>1
<1>4. CASE v.role # None /\ w.role = None
  <2>1. Three(v) = Two(w)
    BY <1>4 DEF FormatAddress
  <2>. QED BY <2>1
<1>. QED BY <1>1, <1>2, <1>3, <1>4

LEMMA LiteralsAreSpelled ==
  ASSUME NEW token \in Literals
  PROVE  /\ Spelled(token) = token /\ ParsePart(token) = token
         /\ token \notin {"all", "any"}
<1>1. token \notin {"all", "any", "*", ""} /\ token \notin DOMAIN Globs
  BY AddressAssumption
<1>2. Spelled(token) = token
  BY <1>1 DEF Spelled
<1>. QED BY <1>1, <1>2 DEF ParsePart

Words == Literals \cup {"mcp", "unread"}

LEMMA Formatted ==
  ASSUME NEW w \in Identities
  PROVE  LET raw == FormatAddress(w)
         IN  /\ raw \in Seq(Words) /\ raw[1] = w.project /\ raw[2] = w.agent
             /\ w.role = None => Len(raw) = 2
             /\ w.role # None => Len(raw) = 3 /\ raw[3] = w.role
<1>1. w.project \in Words /\ w.agent \in Words /\ w.role \in Words \cup {None}
  BY IdentityParts DEF Words
<1>. QED BY <1>1 DEF FormatAddress

LEMMA ParsedWhole ==
  ASSUME NEW raw, NEW n \in {2, 3}, Len(raw) = n,
         \A i \in 1 .. n : ParsePart(raw[i]) = raw[i] /\ raw[i] # Malformed
  PROVE  ParseAddress(raw) = [project |-> raw[1], agent |-> raw[2],
                              role |-> IF n = 3 THEN raw[3] ELSE None]
<1>. DEFINE part(i) == IF i <= Len(raw) THEN ParsePart(raw[i]) ELSE None
<1>1. part(1) = raw[1] /\ part(2) = raw[2] /\ part(3) = IF n = 3 THEN raw[3] ELSE None
  OBVIOUS
<1>2. \A i \in 1 .. 3 : part(i) # Malformed
  <2>1. \A i \in 1 .. 3 : i = 1 \/ i = 2 \/ i = 3
    OBVIOUS
  <2>2. raw[1] # Malformed /\ raw[2] # Malformed /\ (n = 3 => raw[3] # Malformed)
    OBVIOUS
  <2>3. None # Malformed
    BY AddressAssumption
  <2>. HIDE DEF part
  <2>4. part(1) # Malformed /\ part(2) # Malformed /\ part(3) # Malformed
    BY <1>1, <2>2, <2>3
  <2>. QED BY <2>1, <2>4
<1>3. ~(Len(raw) > 3)
  OBVIOUS
<1>. HIDE DEF part
<1>4. ParseAddress(raw) = [project |-> part(1), agent |-> part(2), role |-> part(3)]
  BY <1>2, <1>3 DEF ParseAddress, part
<1>. QED BY <1>1, <1>4

\* Parsing undoes formatting.
LEMMA ParsedBack ==
  ASSUME NEW w \in Identities
  PROVE  ParseAddress(FormatAddress(w)) = w
<1>1. /\ w.project \in Literals /\ w.agent \in Literals /\ w.role \in Literals \cup {None}
      /\ w = [project |-> w.project, agent |-> w.agent, role |-> w.role]
  BY IdentityParts
<1>2. PICK raw : raw = FormatAddress(w)
  OBVIOUS
<1>3. /\ raw[1] = w.project /\ raw[2] = w.agent
      /\ w.role = None => Len(raw) = 2
      /\ w.role # None => Len(raw) = 3 /\ raw[3] = w.role
  BY <1>2, Formatted
<1>4. Malformed \notin Literals
  BY AddressAssumption
<1>5. CASE w.role = None
  <2>1. Len(raw) = 2 /\ \A i \in 1 .. 2 : ParsePart(raw[i]) = raw[i] /\ raw[i] # Malformed
    BY <1>1, <1>3, <1>4, <1>5, LiteralsAreSpelled
  <2>2. ParseAddress(raw) = [project |-> raw[1], agent |-> raw[2], role |-> None]
    BY <2>1, ParsedWhole
  <2>. QED BY <1>1, <1>2, <1>3, <1>5, <2>2
<1>6. CASE w.role # None
  <2>1. Len(raw) = 3 /\ \A i \in 1 .. 3 : ParsePart(raw[i]) = raw[i] /\ raw[i] # Malformed
    BY <1>1, <1>3, <1>4, <1>6, LiteralsAreSpelled
  <2>2. ParseAddress(raw) = [project |-> raw[1], agent |-> raw[2], role |-> raw[3]]
    BY <2>1, ParsedWhole
  <2>. QED BY <1>1, <1>2, <1>3, <1>6, <2>2
<1>. QED BY <1>5, <1>6

(***************************************************************************)
(* The doors                                                               *)
(***************************************************************************)

\* A path that ends at a word more.
LEMMA Paths ==
  ASSUME NEW w \in Identities, NEW last \in Words
  PROVE  LET path == Append(FormatAddress(w), last)
         IN  /\ path[1] = w.project /\ path[2] = w.agent
             /\ w.role = None => Len(path) = 3 /\ path[3] = last
             /\ w.role # None => Len(path) = 4 /\ path[3] = w.role /\ path[4] = last
             /\ Last(path) = last /\ Front(path) = FormatAddress(w)
<1>. DEFINE raw == FormatAddress(w)
            path == Append(FormatAddress(w), last)
<1>1. /\ raw \in Seq(Words) /\ raw[1] = w.project /\ raw[2] = w.agent
      /\ w.role = None => Len(raw) = 2
      /\ w.role # None => Len(raw) = 3 /\ raw[3] = w.role
  BY Formatted
<1>. HIDE DEF raw, path
<1>2. /\ path \in Seq(Words) /\ Len(path) = Len(raw) + 1 /\ path[Len(raw) + 1] = last
      /\ \A i \in 1 .. Len(raw) : path[i] = raw[i]
  BY <1>1, AppendProperties DEF raw, path
<1>3. Last(path) = last
  BY <1>1, <1>2 DEF Last
<1>4. Front(path) = raw
  <2>1. /\ Front(path) \in Seq(Words) /\ Len(Front(path)) = Len(raw)
        /\ \A i \in 1 .. Len(raw) : Front(path)[i] = raw[i]
    BY <1>1, <1>2, SubSeqProperties DEF Front
  <2>. QED BY <1>1, <2>1, SeqEqual
<1>5. Len(raw) \in {2, 3}
  BY <1>1
<1>6. path[1] = w.project /\ path[2] = w.agent
  BY <1>1, <1>2, <1>5
<1>7. w.role = None => Len(path) = 3 /\ path[3] = last
  <2>1. SUFFICES ASSUME w.role = None PROVE Len(path) = 3 /\ path[3] = last
    OBVIOUS
  <2>2. Len(raw) = 2
    BY <1>1, <2>1
  <2>3. Len(raw) + 1 = 3
    BY <2>2
  <2>. QED BY <1>2, <2>3
<1>8. w.role # None => Len(path) = 4 /\ path[3] = w.role /\ path[4] = last
  <2>1. SUFFICES ASSUME w.role # None
                 PROVE  Len(path) = 4 /\ path[3] = w.role /\ path[4] = last
    OBVIOUS
  <2>2. Len(raw) = 3 /\ raw[3] = w.role
    BY <1>1, <2>1
  <2>3. Len(raw) + 1 = 4 /\ 3 \in 1 .. Len(raw)
    BY <2>2
  <2>. QED BY <1>2, <2>2, <2>3
<1>. QED BY <1>3, <1>4, <1>6, <1>7, <1>8 DEF raw, path

LEMMA HomeDoors ==
  ASSUME NEW w \in Identities
  PROVE  /\ CallerOf(FormatAddress(w)) = w
         /\ w.project \notin {"ui", "prompts"} => LeadHome(w)
         /\ w.project \in {"ui", "prompts"} => Served(Url(w)).who = None
<1>1. /\ w.project \in Literals /\ w.agent \in Literals /\ w.role \in Literals \cup {None}
      /\ w = [project |-> w.project, agent |-> w.agent, role |-> w.role]
      /\ w # Malformed
  BY IdentityParts
<1>2. CallerOf(FormatAddress(w)) = w
  <2>1. w.project # None /\ w.agent # None
    BY <1>1, AddressAssumption
  <2>. QED BY <1>1, <2>1, ParsedBack DEF CallerOf, IsSpecific
<1>. DEFINE url == Url(w)
<1>3. /\ url[1] = w.project /\ url[2] = w.agent
      /\ w.role = None => Len(url) = 3 /\ url[3] = "mcp"
      /\ w.role # None => Len(url) = 4 /\ url[3] = w.role /\ url[4] = "mcp"
      /\ Last(url) = "mcp" /\ Front(url) = FormatAddress(w)
  <2>1. "mcp" \in Words
    BY DEF Words
  <2>. QED BY <2>1, Paths DEF Url
<1>4. PICK probe : probe = Append(FormatAddress(w), "unread")
  OBVIOUS
<1>5. /\ probe[1] = w.project /\ probe[2] = w.agent
      /\ w.role = None => Len(probe) = 3 /\ probe[3] = "unread"
      /\ w.role # None => Len(probe) = 4 /\ probe[3] = w.role /\ probe[4] = "unread"
      /\ Last(probe) = "unread"
  <2>1. "unread" \in Words
    BY DEF Words
  <2>. QED BY <1>4, <2>1, Paths
<1>6. ProbeOf(url) = probe
  BY <1>3, <1>4 DEF ProbeOf
<1>. HIDE DEF url
<1>7. /\ url # <<"health">> /\ url # <<"hub">> /\ url # <<>>
      /\ probe # <<"health">>
  BY <1>3, <1>5
<1>8. Served(probe) = [door |-> "probe", who |-> w]
  <2>1. IsProbe(probe)
    BY <1>5 DEF IsProbe
  <2>2. Claim(probe, Len(probe) - 1) = w
    BY <1>1, <1>5 DEF Claim
  <2>. QED BY <1>7, <2>1, <2>2 DEF Served
<1>9. ~IsProbe(url)
  BY <1>3 DEF IsProbe
<1>10. ASSUME w.project \notin {"ui", "prompts"}
      PROVE  Served(url) = [door |-> "mcp", who |-> w]
  <2>1. Extract(url) = w
    BY <1>1, <1>3 DEF Extract, Claim
  <2>. QED BY <1>3, <1>7, <1>9, <1>10, <2>1 DEF Served
<1>11. ASSUME w.project \in {"ui", "prompts"}
       PROVE  Served(url).who = None
  BY <1>3, <1>7, <1>9, <1>11 DEF Served
<1>. QED BY <1>2, <1>6, <1>8, <1>10, <1>11 DEF LeadHome, url

(***************************************************************************)
(* Plans                                                                   *)
(***************************************************************************)

Steps == {"open", "touch", "resolve", "join", "party", "insert", "look", "mark", "again",
          "register", "profile", "supersede", "retire", "vacant", "hop", "carry", "move"}

Renaming == {"vacant", "hop", "carry", "move"}

\* A plan still takes `step`.
Ahead(plan, step) == \E n \in 1 .. Len(plan) : plan[n] = step

Sending == {"resolve", "join", "party", "insert"}
Reading == {"look", "mark"}

\* `t` may come after `s` in a plan.  Only a ping sends before it reads.
Follows(pings, s, t) ==
  /\ s # t /\ t \notin {"open", "again"} /\ s \notin {"supersede", "move"}
  /\ s \in {"join", "party", "insert"} => t \notin {"resolve", "join", "party"}
  /\ s = "retire" => t = "supersede"
  /\ s = "mark" => t # "look"
  /\ s \in Renaming => t \in Renaming
  /\ t \in Renaming => s \in Renaming \cup {"open"}
  /\ t = "vacant" => s = "open"
  /\ IF pings THEN s \in Reading => t \notin Sending ELSE s \in Sending => t \notin Reading

Ordered(pings, plan) ==
  \A m, n \in 1 .. Len(plan) : m < n => Follows(pings, plan[m], plan[n])

Planned(pings, plan) == plan \in Seq(Steps) /\ Ordered(pings, plan)

LEMMA TailPlanned ==
  ASSUME NEW pings \in BOOLEAN, NEW p, Planned(pings, p), p # <<>>
  PROVE  /\ Planned(pings, Tail(p))
         /\ \A s : Ahead(Tail(p), s) <=> Ahead(p, s) /\ s # p[1]
<1>1. /\ p \in Seq(Steps) /\ Len(p) \in Nat /\ 1 \in 1 .. Len(p)
      /\ \A m, n \in 1 .. Len(p) : m < n => Follows(pings, p[m], p[n])
  BY DEF Planned, Ordered
<1>. DEFINE q == Tail(p)
<1>2. /\ q \in Seq(Steps) /\ Len(q) = Len(p) - 1
      /\ \A n \in 1 .. Len(q) : q[n] = p[n + 1]
  BY <1>1, HeadTailProperties
<1>. HIDE DEF q
<1>3. Planned(pings, q)
  <2>1. ASSUME NEW m \in 1 .. Len(q), NEW n \in 1 .. Len(q), m < n
        PROVE  Follows(pings, q[m], q[n])
    <3>1. m + 1 \in 1 .. Len(p) /\ n + 1 \in 1 .. Len(p) /\ m + 1 < n + 1
      BY <1>1, <1>2, <2>1
    <3>. QED BY <1>1, <1>2, <3>1
  <2>. QED BY <1>2, <2>1 DEF Planned, Ordered
<1>4. ASSUME NEW s, Ahead(q, s) PROVE Ahead(p, s) /\ s # p[1]
  <2>1. PICK n \in 1 .. Len(q) : q[n] = s
    BY <1>4 DEF Ahead
  <2>2. n + 1 \in 1 .. Len(p) /\ 1 < n + 1 /\ p[n + 1] = s
    BY <1>1, <1>2, <2>1
  <2>. QED BY <1>1, <2>2 DEF Ahead, Follows
<1>5. ASSUME NEW s, Ahead(p, s), s # p[1] PROVE Ahead(q, s)
  <2>1. PICK n \in 1 .. Len(p) : p[n] = s
    BY <1>5 DEF Ahead
  <2>2. n # 1 /\ n - 1 \in 1 .. Len(q) /\ (n - 1) + 1 = n
    BY <1>1, <1>2, <1>5, <2>1
  <2>. QED BY <1>2, <2>1, <2>2 DEF Ahead
<1>. QED BY <1>3, <1>4, <1>5 DEF q

\* A step is put in front of what is left.
LEMMA PutBefore ==
  ASSUME NEW pings \in BOOLEAN, NEW p, Planned(pings, p), NEW s \in Steps,
         \A t : Ahead(p, t) => Follows(pings, s, t)
  PROVE  /\ Planned(pings, <<s>> \o p) /\ <<s>> \o p # <<>> /\ Tail(<<s>> \o p) = p
         /\ (<<s>> \o p)[1] = s
         /\ \A t : Ahead(<<s>> \o p, t) <=> t = s \/ Ahead(p, t)
<1>1. p \in Seq(Steps) /\ \A m, n \in 1 .. Len(p) : m < n => Follows(pings, p[m], p[n])
  BY DEF Planned, Ordered
<1>. DEFINE q == <<s>> \o p
<1>2. /\ q \in Seq(Steps) /\ Len(q) = Len(p) + 1 /\ q[1] = s
      /\ \A n \in 2 .. Len(q) : q[n] = p[n - 1]
  <2>1. <<s>> \in Seq(Steps) /\ Len(<<s>>) = 1 /\ <<s>>[1] = s
    OBVIOUS
  <2>. HIDE DEF Steps
  <2>. QED BY <1>1, <2>1, ConcatProperties
<1>3. Tail(q) = p
  <2>1. q # <<>>
    BY <1>1, <1>2
  <2>2. /\ Tail(q) \in Seq(Steps) /\ Len(Tail(q)) = Len(p)
        /\ \A n \in 1 .. Len(p) : Tail(q)[n] = q[n + 1] /\ n + 1 \in 2 .. Len(q)
                                 /\ (n + 1) - 1 = n
    BY <1>1, <1>2, <2>1, HeadTailProperties
  <2>. HIDE DEF q
  <2>3. \A n \in 1 .. Len(p) : Tail(q)[n] = p[n]
    BY <1>2, <2>2
  <2>. QED BY <1>1, <2>2, <2>3, SeqEqual
<1>. HIDE DEF q
<1>4. \A t : Ahead(q, t) <=> t = s \/ Ahead(p, t)
  <2>1. ASSUME NEW t, Ahead(q, t) PROVE t = s \/ Ahead(p, t)
    <3>1. PICK n \in 1 .. Len(q) : q[n] = t
      BY <2>1 DEF Ahead
    <3>2. n = 1 \/ (n \in 2 .. Len(q) /\ n - 1 \in 1 .. Len(p))
      BY <1>1, <1>2, <3>1
    <3>. QED BY <1>2, <3>1, <3>2 DEF Ahead
  <2>2. ASSUME NEW t, Ahead(p, t) PROVE Ahead(q, t)
    <3>1. PICK n \in 1 .. Len(p) : p[n] = t
      BY <2>2 DEF Ahead
    <3>2. n + 1 \in 2 .. Len(q) /\ n + 1 \in 1 .. Len(q) /\ (n + 1) - 1 = n
      BY <1>1, <1>2, <3>1
    <3>. QED BY <1>2, <3>1, <3>2 DEF Ahead
  <2>3. Ahead(q, s)
    BY <1>1, <1>2 DEF Ahead
  <2>. QED BY <2>1, <2>2, <2>3
<1>5. Ordered(pings, q)
  <2>1. ASSUME NEW m \in 1 .. Len(q), NEW n \in 1 .. Len(q), m < n
        PROVE  Follows(pings, q[m], q[n])
    <3>1. n \in 2 .. Len(q) /\ n - 1 \in 1 .. Len(p) /\ q[n] = p[n - 1]
      BY <1>1, <1>2, <2>1
    <3>2. CASE m = 1
      BY <1>2, <3>1, <3>2 DEF Ahead
    <3>3. CASE m # 1
      <4>1. m \in 2 .. Len(q) /\ m - 1 \in 1 .. Len(p) /\ m - 1 < n - 1 /\ q[m] = p[m - 1]
        BY <1>1, <1>2, <2>1, <3>1, <3>3
      <4>. QED BY <1>1, <3>1, <4>1
    <3>. QED BY <3>2, <3>3
  <2>. QED BY <2>1 DEF Ordered
<1>6. q # <<>>
  BY <1>1, <1>2
<1>. QED BY <1>2, <1>3, <1>4, <1>5, <1>6 DEF Planned, q

LEMMA JoinPlanned ==
  ASSUME NEW pings \in BOOLEAN, NEW p, Planned(pings, p), NEW q, Planned(pings, q),
         \A s, t : Ahead(p, s) /\ Ahead(q, t) => Follows(pings, s, t)
  PROVE  /\ Planned(pings, p \o q)
         /\ \A s : Ahead(p \o q, s) <=> Ahead(p, s) \/ Ahead(q, s)
<1>1. /\ p \in Seq(Steps) /\ \A m, n \in 1 .. Len(p) : m < n => Follows(pings, p[m], p[n])
      /\ q \in Seq(Steps) /\ \A m, n \in 1 .. Len(q) : m < n => Follows(pings, q[m], q[n])
  BY DEF Planned, Ordered
<1>. DEFINE r == p \o q
<1>2. /\ r \in Seq(Steps) /\ Len(r) = Len(p) + Len(q)
      /\ \A n \in 1 .. Len(p) : r[n] = p[n]
      /\ \A n \in Len(p) + 1 .. Len(r) : r[n] = q[n - Len(p)]
  <2>. HIDE DEF Steps
  <2>. QED BY <1>1, ConcatProperties
<1>. HIDE DEF r
<1>3. \A n \in 1 .. Len(r) :
        \/ n \in 1 .. Len(p) /\ r[n] = p[n] /\ Ahead(p, r[n])
        \/ /\ n \in Len(p) + 1 .. Len(r) /\ n - Len(p) \in 1 .. Len(q)
           /\ r[n] = q[n - Len(p)] /\ Ahead(q, r[n])
  BY <1>1, <1>2 DEF Ahead
<1>4. ASSUME NEW s, Ahead(p, s) \/ Ahead(q, s) PROVE Ahead(r, s)
  <2>1. ASSUME NEW n \in 1 .. Len(p), p[n] = s PROVE Ahead(r, s)
    <3>1. n \in 1 .. Len(r) /\ r[n] = s
      BY <1>1, <1>2, <2>1
    <3>. QED BY <3>1 DEF Ahead
  <2>2. ASSUME NEW n \in 1 .. Len(q), q[n] = s PROVE Ahead(r, s)
    <3>1. /\ n + Len(p) \in Len(p) + 1 .. Len(r) /\ n + Len(p) \in 1 .. Len(r)
          /\ (n + Len(p)) - Len(p) = n
      BY <1>1, <1>2, <2>2
    <3>. QED BY <1>2, <2>2, <3>1 DEF Ahead
  <2>. QED BY <1>4, <2>1, <2>2 DEF Ahead
<1>5. ASSUME NEW s, Ahead(r, s) PROVE Ahead(p, s) \/ Ahead(q, s)
  BY <1>3, <1>5 DEF Ahead
<1>6. ASSUME NEW m \in 1 .. Len(r), NEW n \in 1 .. Len(r), m < n
      PROVE  Follows(pings, r[m], r[n])
  <2>1. CASE n \in 1 .. Len(p)
    <3>1. m \in 1 .. Len(p)
      BY <1>1, <1>6, <2>1
    <3>. QED BY <1>1, <1>2, <1>6, <2>1, <3>1
  <2>2. CASE m \in 1 .. Len(p) /\ n \notin 1 .. Len(p)
    <3>1. Ahead(p, r[m]) /\ Ahead(q, r[n])
      BY <1>3, <2>2 DEF Ahead
    <3>. QED BY <3>1
  <2>3. CASE m \notin 1 .. Len(p) /\ n \notin 1 .. Len(p)
    <3>1. /\ m - Len(p) \in 1 .. Len(q) /\ r[m] = q[m - Len(p)]
          /\ n - Len(p) \in 1 .. Len(q) /\ r[n] = q[n - Len(p)]
      BY <1>3, <2>3
    <3>2. m - Len(p) < n - Len(p)
      BY <1>1, <1>2, <1>6
    <3>. QED BY <1>1, <3>1, <3>2
  <2>. QED BY <2>1, <2>2, <2>3
<1>. QED BY <1>2, <1>4, <1>5, <1>6 DEF Planned, Ordered, r

LEMMA OneStep ==
  ASSUME NEW pings \in BOOLEAN, NEW a \in Steps
  PROVE  Planned(pings, <<a>>) /\ \A s : Ahead(<<a>>, s) <=> s \in {a}
<1>. HIDE DEF Steps
<1>. QED BY DEF Planned, Ordered, Ahead

LEMMA TwoSteps ==
  ASSUME NEW pings \in BOOLEAN, NEW a \in Steps, NEW b \in Steps, Follows(pings, a, b)
  PROVE  Planned(pings, <<a, b>>) /\ \A s : Ahead(<<a, b>>, s) <=> s \in {a, b}
<1>. HIDE DEF Steps
<1>. QED BY DEF Planned, Ordered, Ahead

LEMMA ThreeSteps ==
  ASSUME NEW pings \in BOOLEAN, NEW a \in Steps, NEW b \in Steps, NEW c \in Steps,
         Follows(pings, a, b), Follows(pings, a, c), Follows(pings, b, c)
  PROVE  Planned(pings, <<a, b, c>>) /\ \A s : Ahead(<<a, b, c>>, s) <=> s \in {a, b, c}
<1>. HIDE DEF Steps
<1>. QED BY DEF Planned, Ordered, Ahead

\* Nothing is planned when nothing is left.
LEMMA NothingPlanned ==
  ASSUME NEW pings \in BOOLEAN
  PROVE  Planned(pings, <<>>) /\ \A s : ~Ahead(<<>>, s)
BY DEF Planned, Ordered, Ahead

\* A plan of a desk is of the steps in `does`, after it has opened the file.
Makes(pings, plan, does) ==
  /\ Planned(pings, plan) /\ Ahead(plan, "open")
  /\ \A s : s \notin {"open", "touch"} => (Ahead(plan, s) <=> s \in does)

LEMMA OpenedPlans ==
  ASSUME NEW pings \in BOOLEAN, NEW p, Planned(pings, p), NEW does,
         \A s : Ahead(p, s) <=> s \in does, does \cap {"open", "touch", "again"} = {}
  PROVE  /\ Makes(pings, Opened(p), does)
         /\ does \cap Renaming = {} => Makes(pings, Announced(p), does)
<1>1. /\ Planned(pings, <<"open">>) /\ \A s : Ahead(<<"open">>, s) <=> s \in {"open"}
      /\ Planned(pings, <<"open", "touch">>)
      /\ \A s : Ahead(<<"open", "touch">>, s) <=> s \in {"open", "touch"}
  <2>1. Follows(pings, "open", "touch") /\ "open" \in Steps /\ "touch" \in Steps
    BY DEF Follows, Steps, Renaming, Reading, Sending
  <2>. QED BY <2>1, OneStep, TwoSteps
<1>2. Makes(pings, Opened(p), does)
  <2>1. \A s, t : Ahead(<<"open">>, s) /\ Ahead(p, t) => Follows(pings, s, t)
    BY <1>1 DEF Follows, Renaming, Reading, Sending
  <2>. QED BY <1>1, <2>1, JoinPlanned DEF Makes, Opened
<1>3. ASSUME does \cap Renaming = {} PROVE Makes(pings, Announced(p), does)
  <2>1. \A s, t : Ahead(<<"open", "touch">>, s) /\ Ahead(p, t) => Follows(pings, s, t)
    BY <1>1, <1>3 DEF Follows, Renaming, Reading, Sending
  <2>. QED BY <1>1, <2>1, JoinPlanned DEF Makes, Announced
<1>. QED BY <1>2, <1>3

\* What a call for `wish` may do.
Does(wish) ==
  CASE wish = "send"                -> {{"resolve", "join", "insert"}}
    [] wish = "read"                -> {{"look", "mark"}}
    [] wish \in {"reply", "ping"}   -> {{"look", "mark", "resolve", "join", "insert"}}
    [] wish \in {"view", "probe"}   -> {{}}
    [] wish = "register"            -> {{"register"}, {"register", "supersede"}}
    [] wish = "status"              -> {{"profile", "register"}}
    [] wish = "rename"              -> {Renaming}

LEMMA Parts ==
  ASSUME NEW pings \in BOOLEAN
  PROVE  /\ Planned(pings, Deliver)
         /\ \A s : Ahead(Deliver, s) <=> s \in {"resolve", "join", "insert"}
         /\ Planned(pings, Consume) /\ \A s : Ahead(Consume, s) <=> s \in {"look", "mark"}
         /\ pings => /\ Planned(pings, Deliver \o Consume)
                     /\ \A s : Ahead(Deliver \o Consume, s) <=>
                          s \in {"look", "mark", "resolve", "join", "insert"}
         /\ ~pings => /\ Planned(pings, Consume \o Deliver)
                      /\ \A s : Ahead(Consume \o Deliver, s) <=>
                           s \in {"look", "mark", "resolve", "join", "insert"}
<1>1. /\ Planned(pings, Deliver)
      /\ \A s : Ahead(Deliver, s) <=> s \in {"resolve", "join", "insert"}
  <2>1. /\ Follows(pings, "resolve", "join") /\ Follows(pings, "resolve", "insert")
        /\ Follows(pings, "join", "insert")
        /\ "resolve" \in Steps /\ "join" \in Steps /\ "insert" \in Steps
    BY DEF Follows, Steps, Renaming, Reading, Sending
  <2>. QED BY <2>1, ThreeSteps DEF Deliver
<1>2. Planned(pings, Consume) /\ \A s : Ahead(Consume, s) <=> s \in {"look", "mark"}
  <2>1. Follows(pings, "look", "mark") /\ "look" \in Steps /\ "mark" \in Steps
    BY DEF Follows, Steps, Renaming, Reading, Sending
  <2>. QED BY <2>1, TwoSteps DEF Consume
<1>3. CASE pings
  <2>1. \A s, t : Ahead(Deliver, s) /\ Ahead(Consume, t) => Follows(pings, s, t)
    BY <1>1, <1>2, <1>3 DEF Follows, Renaming, Reading, Sending
  <2>. QED BY <1>1, <1>2, <1>3, <2>1, JoinPlanned
<1>4. CASE ~pings
  <2>1. \A s, t : Ahead(Consume, s) /\ Ahead(Deliver, t) => Follows(pings, s, t)
    BY <1>1, <1>2, <1>4 DEF Follows, Renaming, Reading, Sending
  <2>. QED BY <1>1, <1>2, <1>4, <2>1, JoinPlanned
<1>. QED BY <1>1, <1>2, <1>3, <1>4

LEMMA MorePlans ==
  ASSUME NEW pings \in BOOLEAN
  PROVE  /\ Makes(pings, Opened(<<"register">>), {"register"})
         /\ Makes(pings, <<"open", "register">>, {"register"})
         /\ Makes(pings, Opened(<<"register", "supersede">>), {"register", "supersede"})
         /\ Makes(pings, Opened(<<"profile", "register">>), {"profile", "register"})
         /\ Makes(pings, Opened(<<"vacant", "hop", "carry", "move">>), Renaming)
         /\ Makes(pings, Opened(<<>>), {}) /\ Makes(pings, Announced(<<>>), {})
<1>1. /\ Planned(pings, <<"register">>)
      /\ \A s : Ahead(<<"register">>, s) <=> s \in {"register"}
      /\ Planned(pings, <<"open", "register">>)
      /\ \A s : Ahead(<<"open", "register">>, s) <=> s \in {"open", "register"}
      /\ Planned(pings, <<"register", "supersede">>)
      /\ \A s : Ahead(<<"register", "supersede">>, s) <=> s \in {"register", "supersede"}
      /\ Planned(pings, <<"profile", "register">>)
      /\ \A s : Ahead(<<"profile", "register">>, s) <=> s \in {"profile", "register"}
  <2>1. /\ Follows(pings, "register", "supersede") /\ Follows(pings, "profile", "register")
        /\ Follows(pings, "open", "register")
        /\ "register" \in Steps /\ "supersede" \in Steps /\ "profile" \in Steps
        /\ "open" \in Steps
    BY DEF Follows, Steps, Renaming, Reading, Sending
  <2>. QED BY <2>1, OneStep, TwoSteps
<1>2. /\ Planned(pings, <<"vacant", "hop", "carry", "move">>)
      /\ \A s : Ahead(<<"vacant", "hop", "carry", "move">>, s) <=> s \in Renaming
  <2>1. \A s, t \in Renaming :
          s # t /\ s # "move" /\ t # "vacant" => Follows(pings, s, t)
    BY DEF Follows, Renaming, Reading, Sending
  <2>2. Renaming \subseteq Steps
    BY DEF Renaming, Steps
  <2>3. <<"vacant", "hop", "carry", "move">> \in Seq(Steps)
    BY <2>2 DEF Renaming
  <2>4. Ordered(pings, <<"vacant", "hop", "carry", "move">>)
    BY <2>1 DEF Ordered, Renaming
  <2>. QED BY <2>3, <2>4 DEF Planned, Ahead, Renaming
<1>3. {"register"} \cap {"open", "touch", "again"} = {}
  OBVIOUS
<1>4. {"register", "supersede"} \cap {"open", "touch", "again"} = {}
  OBVIOUS
<1>5. {"profile", "register"} \cap {"open", "touch", "again"} = {}
  OBVIOUS
<1>6. Renaming \cap {"open", "touch", "again"} = {} /\ {} \cap Renaming = {}
  BY DEF Renaming
<1>7. Makes(pings, Opened(<<"register">>), {"register"})
  BY <1>1, <1>3, OpenedPlans
<1>8. Makes(pings, Opened(<<"register", "supersede">>), {"register", "supersede"})
  BY <1>1, <1>4, OpenedPlans
<1>9. Makes(pings, Opened(<<"profile", "register">>), {"profile", "register"})
  BY <1>1, <1>5, OpenedPlans
<1>10. Makes(pings, Opened(<<"vacant", "hop", "carry", "move">>), Renaming)
  BY <1>2, <1>6, OpenedPlans
<1>11. Makes(pings, Opened(<<>>), {}) /\ Makes(pings, Announced(<<>>), {})
  <2>1. Planned(pings, <<>>) /\ \A s : Ahead(<<>>, s) <=> s \in {}
    BY NothingPlanned
  <2>. QED BY <1>6, <2>1, OpenedPlans
<1>12. Makes(pings, <<"open", "register">>, {"register"})
  BY <1>1 DEF Makes
<1>. QED BY <1>7, <1>8, <1>9, <1>10, <1>11, <1>12

\* What the desks offer.
LEMMA Offered ==
  ASSUME NEW d \in {"mcp", "api", "cli", "ui"}, NEW table \in Desks[d],
         NEW wish \in DOMAIN table, NEW pings \in BOOLEAN,
         wish = "ping" => pings, wish = "reply" => ~pings
  PROVE  /\ \E does \in Does(wish) : Makes(pings, table[wish], does)
         /\ wish = "rename" => d = "mcp"
<1>. DEFINE Mail == {"resolve", "join", "insert"}
            Read == {"look", "mark"}
            Both == {"look", "mark", "resolve", "join", "insert"}
<1>1. /\ Makes(pings, Opened(Deliver), Mail) /\ Makes(pings, Announced(Deliver), Mail)
      /\ Makes(pings, Opened(Consume), Read) /\ Makes(pings, Announced(Consume), Read)
  <2>1. Mail \cap {"open", "touch", "again"} = {} /\ Mail \cap Renaming = {}
    BY DEF Renaming
  <2>2. Read \cap {"open", "touch", "again"} = {} /\ Read \cap Renaming = {}
    BY DEF Renaming
  <2>. QED BY <2>1, <2>2, Parts, OpenedPlans
<1>2. Both \cap {"open", "touch", "again"} = {} /\ Both \cap Renaming = {}
  BY DEF Renaming
<1>3. ASSUME pings PROVE /\ Makes(pings, Opened(Deliver \o Consume), Both)
                         /\ Makes(pings, Announced(Deliver \o Consume), Both)
  <2>1. /\ Planned(pings, Deliver \o Consume)
        /\ \A s : Ahead(Deliver \o Consume, s) <=> s \in Both
    BY <1>3, Parts
  <2>. QED BY <1>2, <2>1, OpenedPlans
<1>4. ASSUME ~pings PROVE /\ Makes(pings, Opened(Consume \o Deliver), Both)
                          /\ Makes(pings, Announced(Consume \o Deliver), Both)
  <2>1. /\ Planned(pings, Consume \o Deliver)
        /\ \A s : Ahead(Consume \o Deliver, s) <=> s \in Both
    BY <1>4, Parts
  <2>. QED BY <1>2, <2>1, OpenedPlans
<1>5. ASSUME wish = "send", table[wish] \in {Opened(Deliver), Announced(Deliver)}
      PROVE  \E does \in Does(wish) : Makes(pings, table[wish], does)
  BY <1>1, <1>5 DEF Does
<1>6. ASSUME wish = "read", table[wish] \in {Opened(Consume), Announced(Consume)}
      PROVE  \E does \in Does(wish) : Makes(pings, table[wish], does)
  BY <1>1, <1>6 DEF Does
<1>7. ASSUME wish = "reply",
             table[wish] \in {Opened(Consume \o Deliver), Announced(Consume \o Deliver)}
      PROVE  \E does \in Does(wish) : Makes(pings, table[wish], does)
  BY <1>4, <1>7 DEF Does
<1>8. ASSUME wish = "ping",
             table[wish] \in {Opened(Deliver \o Consume), Announced(Deliver \o Consume)}
      PROVE  \E does \in Does(wish) : Makes(pings, table[wish], does)
  BY <1>3, <1>8 DEF Does
<1>9. ASSUME wish \in {"view", "probe"}, table[wish] \in {Opened(<<>>), Announced(<<>>)}
      PROVE  \E does \in Does(wish) : Makes(pings, table[wish], does)
  BY <1>9, MorePlans DEF Does
<1>10. ASSUME wish = "register",
              table[wish] \in {Opened(<<"register">>), Opened(<<"register", "supersede">>)}
       PROVE  \E does \in Does(wish) : Makes(pings, table[wish], does)
  BY <1>10, MorePlans DEF Does
<1>11. ASSUME wish = "status", table[wish] = Opened(<<"profile", "register">>)
       PROVE  \E does \in Does(wish) : Makes(pings, table[wish], does)
  BY <1>11, MorePlans DEF Does
<1>12. ASSUME wish = "rename", table[wish] = Opened(<<"vacant", "hop", "carry", "move">>)
       PROVE  \E does \in Does(wish) : Makes(pings, table[wish], does)
  BY <1>12, MorePlans DEF Does
<1>13. CASE d = "mcp"
  <2>1. table \in {McpMail, McpPresence, McpLooks, McpNames, HttpProbe}
    BY <1>13 DEF Desks
  <2>2. CASE table = McpMail
    BY <2>2, <1>13, <1>5, <1>6, <1>7, <1>8, <1>9 DEF McpMail
  <2>3. CASE table = McpPresence
    BY <2>3, <1>13, <1>9, <1>10, <1>11 DEF McpPresence
  <2>4. CASE table = McpLooks \/ table = HttpProbe
    BY <2>4, <1>13, <1>9 DEF McpLooks, HttpProbe
  <2>5. CASE table = McpNames
    BY <2>5, <1>13, <1>9, <1>12 DEF McpNames
  <2>. QED BY <2>1, <2>2, <2>3, <2>4, <2>5
<1>14. CASE d = "api"
  <2>1. table = ApiDesk
    BY <1>14 DEF Desks
  <2>. QED BY <2>1, <1>5, <1>6, <1>7, <1>9, <1>10, <1>11 DEF ApiDesk
<1>15. CASE d = "cli"
  <2>1. table \in {CliMail, CliHub, CliDirectory}
    BY <1>15 DEF Desks
  <2>2. CASE table = CliMail
    BY <2>2, <1>5, <1>6, <1>7, <1>9 DEF CliMail
  <2>3. CASE table = CliHub \/ table = CliDirectory
    BY <2>3, <1>8, <1>9, <1>10 DEF CliHub, CliDirectory
  <2>. QED BY <2>1, <2>2, <2>3
<1>16. CASE d = "ui"
  <2>1. table \in {UiLooks, UiMail}
    BY <1>16 DEF Desks
  <2>2. CASE table = UiMail
    BY <2>2, <1>5, <1>6, <1>7 DEF UiMail
  <2>3. CASE table = UiLooks
    BY <2>3, <1>9 DEF UiLooks
  <2>. QED BY <2>1, <2>2, <2>3
<1>. QED BY <1>13, <1>14, <1>15, <1>16

(***************************************************************************)
(* A call begins                                                           *)
(***************************************************************************)

\* Whoever uses the command line or the console is one identity there and elsewhere.
RoleKnown(c) == Desk[c] \cap {"cli", "ui"} # {} => who[c].role = None

\* The console is opened by an agent that holds no role.
LEMMA Operated ==
  ASSUME NEW w \in Identities, w.role = None
  PROVE  Operator(FormatAddress(w)) \in {w, Malformed}
<1>1. /\ w.project \in Literals /\ w.agent \in Literals
      /\ w = [project |-> w.project, agent |-> w.agent, role |-> w.role]
  BY IdentityParts
<1>2. PICK raw : raw = FormatAddress(w)
  OBVIOUS
<1>3. Len(raw) = 2 /\ raw[1] = w.project /\ raw[2] = w.agent
  BY <1>2, Formatted
<1>4. Spelled(raw[1]) = w.project /\ Spelled(raw[2]) = w.agent
  BY <1>1, <1>3, LiteralsAreSpelled
<1>5. w.project \notin {"all", "any"} /\ w.agent \notin {"all", "any"}
  BY <1>1, LiteralsAreSpelled
<1>6. ParseTarget(raw) = [kind |-> "direct", project |-> w.project, agent |-> w.agent]
  BY <1>1, <1>3, <1>4, <1>5 DEF ParseTarget
<1>7. Operator(raw) \in {w, Malformed}
  BY <1>1, <1>6 DEF Operator
<1>. QED BY <1>2, <1>7

\* Whoever connects is somebody.
LEMMA ConnectsSomebody ==
  ASSUME NEW c \in Clients, who[c] \in Identities, NEW d \in Desk[c],
         ConnectsAs(c, d) # Malformed
  PROVE  ConnectsAs(c, d) \in Identities
<1>. DEFINE w == who[c]
            v == RequireAddress(w)
<1>1. /\ w.project \in Literals /\ w.agent \in Literals /\ w.role \in Literals \cup {None}
      /\ w = [project |-> w.project, agent |-> w.agent, role |-> w.role]
  BY IdentityParts
<1>2. v \in Identities /\ v.role = None
  BY <1>1 DEF RequireAddress, Identities
<1>3. d \in {"mcp", "api", "cli", "ui"}
  BY DeskAssumption
<1>4. CASE d = "mcp"
  BY <1>4 DEF ConnectsAs, ResolveIdentity
<1>5. CASE d = "api"
  BY <1>5, HomeDoors DEF ConnectsAs
<1>6. CASE d = "cli"
  BY <1>2, <1>6 DEF ConnectsAs
<1>7. CASE d = "ui"
  <2>1. Operator(FormatAddress(v)) \in {v, Malformed}
    BY <1>2, Operated
  <2>2. ConnectsAs(c, d) = Operator(FormatAddress(v))
    BY <1>7 DEF ConnectsAs
  <2>. QED BY <1>2, <2>1, <2>2
<1>. QED BY <1>3, <1>4, <1>5, <1>6, <1>7

LEMMA Connected ==
  ASSUME NEW c \in Clients, who[c] \in Identities, NEW d \in Desk[c],
         ConnectsAs(c, d) # Malformed, RoleKnown(c)
  PROVE  ConnectsAs(c, d) = who[c]
<1>. DEFINE w == who[c]
<1>1. /\ w.project \in Literals /\ w.agent \in Literals /\ w.role \in Literals \cup {None}
      /\ w = [project |-> w.project, agent |-> w.agent, role |-> w.role]
      /\ w # Malformed
  BY IdentityParts
<1>2. d \in {"mcp", "api", "cli", "ui"}
  BY DeskAssumption
<1>3. CASE d = "mcp"
  <2>1. Served(Url(w)).who \in {w, None}
    BY HomeDoors DEF LeadHome
  <2>2. ConnectsAs(c, d) = ResolveIdentity(Served(Url(w)).who, Malformed)
    BY <1>3 DEF ConnectsAs
  <2>. QED BY <2>1, <2>2, AddressAssumption DEF ResolveIdentity
<1>4. CASE d = "api"
  BY <1>4, HomeDoors DEF ConnectsAs
<1>5. CASE d \in {"cli", "ui"}
  <2>1. w.role = None
    BY <1>5 DEF RoleKnown
  <2>2. RequireAddress(w) = w
    BY <1>1, <2>1 DEF RequireAddress
  <2>3. CASE d = "cli"
    BY <2>2, <2>3 DEF ConnectsAs
  <2>4. CASE d = "ui"
    <3>1. ConnectsAs(c, d) = Operator(FormatAddress(w))
      BY <2>2, <2>4 DEF ConnectsAs
    <3>2. Operator(FormatAddress(w)) \in {w, Malformed}
      BY <2>1, Operated
    <3>. QED BY <3>1, <3>2
  <2>. QED BY <1>5, <2>3, <2>4
<1>. QED BY <1>2, <1>3, <1>4, <1>5

CallFields == {"plan", "me", "as", "alone", "id", "original", "to", "asked", "thread",
               "since", "card", "entry", "list"}

LEMMA FreshRow ==
  ASSUME NEW c \in Clients, NEW wish, NEW now \in Fresh(c, wish)
  PROVE  \E d \in Desk[c] : \E table \in Desks[d] :
           /\ ConnectsAs(c, d) # Malformed /\ wish \in DOMAIN table
           /\ now = [plan |-> table[wish], me |-> ConnectsAs(c, d), as |-> ConnectsAs(c, d),
                     alone |-> TRUE, id |-> 0, original |-> 0, to |-> <<>>, asked |-> <<>>,
                     thread |-> 0, since |-> day, card |-> None, entry |-> None,
                     list |-> <<>>]
BY DEF Fresh

LEMMA FreshFields ==
  ASSUME NEW c \in Clients, NEW wish, NEW now \in Fresh(c, wish)
  PROVE  /\ DOMAIN now = CallFields
         /\ now.alone = TRUE
         /\ now.id = 0
         /\ now.original = 0
         /\ now.to = now.asked
         /\ now.list = <<>>
BY FreshRow DEF CallFields

\* Who calls, and under which name it registers.
SameAgent(v, w) == v.project = w.project /\ v.agent = w.agent

Own(k) ==
  k.me \in Identities /\ k.as \in Identities /\ SameAgent(k.as, k.me) /\ k.since = day

LEMMA FreshOwn ==
  ASSUME NEW c \in Clients, who[c] \in Identities, NEW wish, NEW now \in Fresh(c, wish)
  PROVE  Own(now)
<1>1. PICK d \in Desk[c] : /\ ConnectsAs(c, d) # Malformed /\ now.me = ConnectsAs(c, d)
                           /\ now.as = now.me /\ now.since = day
  BY FreshRow
<1>. QED BY <1>1, ConnectsSomebody DEF Own, SameAgent

LEMMA FreshMe ==
  ASSUME NEW c \in Clients, who[c] \in Identities, NEW wish, NEW now \in Fresh(c, wish),
         RoleKnown(c)
  PROVE  now.me = who[c]
<1>1. PICK d \in Desk[c] : ConnectsAs(c, d) # Malformed /\ now.me = ConnectsAs(c, d)
  BY FreshRow
<1>. QED BY <1>1, Connected

LEMMA FreshPlan ==
  ASSUME NEW c \in Clients, who[c] \in Identities, NEW wish, NEW now \in Fresh(c, wish),
         NEW pings \in BOOLEAN, wish = "ping" => pings, wish = "reply" => ~pings
  PROVE  /\ \E does \in Does(wish) : Makes(pings, now.plan, does)
         /\ wish = "rename" => "mcp" \in Desk[c]
<1>1. PICK d \in Desk[c] : \E table \in Desks[d] :
        wish \in DOMAIN table /\ now.plan = table[wish]
  <2>1. PICK d \in Desk[c] : \E table \in Desks[d] :
           /\ ConnectsAs(c, d) # Malformed /\ wish \in DOMAIN table
           /\ now = [plan |-> table[wish], me |-> ConnectsAs(c, d), as |-> ConnectsAs(c, d),
                     alone |-> TRUE, id |-> 0, original |-> 0, to |-> <<>>, asked |-> <<>>,
                     thread |-> 0, since |-> day, card |-> None, entry |-> None,
                     list |-> <<>>]
    BY FreshRow
  <2>. QED BY <2>1
<1>2. d \in {"mcp", "api", "cli", "ui"}
  BY DeskAssumption
<1>. QED BY <1>1, <1>2, Offered

\* A ping reads what it sent.
Pings(k) == k.original = k.id

\* What holds of a call when it begins.
Starts(c, k) ==
  /\ DOMAIN k = CallFields /\ k.alone = TRUE
  /\ Own(k) /\ (RoleKnown(c) => k.me = who[c])
  /\ Planned(Pings(k), k.plan) /\ Ahead(k.plan, "open")
  /\ ~Ahead(k.plan, "retire") /\ ~Ahead(k.plan, "party") /\ ~Ahead(k.plan, "again")
  /\ Ahead(k.plan, "resolve") <=> Ahead(k.plan, "insert")
  /\ Ahead(k.plan, "look") <=> Ahead(k.plan, "mark")
  /\ Ahead(k.plan, "vacant") => Ahead(k.plan, "move")
  /\ Ahead(k.plan, "move") =>
       /\ Ahead(k.plan, "vacant") /\ Ahead(k.plan, "hop") /\ "mcp" \in Desk[c]
       /\ k.to \in NewNames /\ k.list = <<>>
  /\ Ahead(k.plan, "insert") =>
       /\ drafted' = drafted + 1 /\ k.id = drafted' /\ k.asked = k.to
       /\ k.original \notin {0, k.id} => Ahead(k.plan, "look")
       /\ k.thread \in 1 .. drafted' \/ (Ahead(k.plan, "look") /\ ~Pings(k))
  /\ k.original \in 0 .. drafted'
  /\ Ahead(k.plan, "look") => k.original \in 1 .. drafted'

LEMMA MakesWhat ==
  ASSUME NEW pings \in BOOLEAN, NEW plan, NEW does, Makes(pings, plan, does)
  PROVE  /\ Planned(pings, plan) /\ Ahead(plan, "open")
         /\ Ahead(plan, "resolve") <=> "resolve" \in does
         /\ Ahead(plan, "insert") <=> "insert" \in does
         /\ Ahead(plan, "look") <=> "look" \in does
         /\ Ahead(plan, "mark") <=> "mark" \in does
         /\ Ahead(plan, "vacant") <=> "vacant" \in does
         /\ Ahead(plan, "hop") <=> "hop" \in does
         /\ Ahead(plan, "move") <=> "move" \in does
         /\ Ahead(plan, "retire") <=> "retire" \in does
         /\ Ahead(plan, "party") <=> "party" \in does
         /\ Ahead(plan, "again") <=> "again" \in does
BY DEF Makes

\* What a call with these steps needs of its arguments.
Fits(c, k, does) ==
  /\ "retire" \notin does /\ "party" \notin does /\ "again" \notin does
  /\ "resolve" \in does <=> "insert" \in does
  /\ "look" \in does <=> "mark" \in does
  /\ "vacant" \in does => "move" \in does
  /\ "move" \in does =>
       /\ "vacant" \in does /\ "hop" \in does /\ "mcp" \in Desk[c]
       /\ k.to \in NewNames /\ k.list = <<>>
  /\ "insert" \in does =>
       /\ drafted' = drafted + 1 /\ k.id = drafted' /\ k.asked = k.to
       /\ k.original \notin {0, k.id} => "look" \in does
       /\ k.thread \in 1 .. drafted' \/ ("look" \in does /\ ~Pings(k))
  /\ k.original \in 0 .. drafted'
  /\ "look" \in does => k.original \in 1 .. drafted'

LEMMA StartsWith ==
  ASSUME NEW c \in Clients, NEW k, NEW does, NEW pings \in BOOLEAN,
         pings = Pings(k), Makes(pings, k.plan, does), Fits(c, k, does),
         DOMAIN k = CallFields, k.alone = TRUE, Own(k), RoleKnown(c) => k.me = who[c]
  PROVE  Starts(c, k)
<1>1. /\ Planned(pings, k.plan) /\ Ahead(k.plan, "open")
      /\ Ahead(k.plan, "resolve") <=> "resolve" \in does
      /\ Ahead(k.plan, "insert") <=> "insert" \in does
      /\ Ahead(k.plan, "look") <=> "look" \in does
      /\ Ahead(k.plan, "mark") <=> "mark" \in does
      /\ Ahead(k.plan, "vacant") <=> "vacant" \in does
      /\ Ahead(k.plan, "hop") <=> "hop" \in does
      /\ Ahead(k.plan, "move") <=> "move" \in does
      /\ Ahead(k.plan, "retire") <=> "retire" \in does
      /\ Ahead(k.plan, "party") <=> "party" \in does
      /\ Ahead(k.plan, "again") <=> "again" \in does
  BY MakesWhat
<1>. QED BY <1>1 DEF Starts, Fits

LEMMA DoesWhat ==
  /\ Does("send") = {{"resolve", "join", "insert"}}
  /\ Does("read") = {{"look", "mark"}}
  /\ Does("reply") = {{"look", "mark", "resolve", "join", "insert"}}
  /\ Does("ping") = {{"look", "mark", "resolve", "join", "insert"}}
  /\ Does("view") = {{}} /\ Does("probe") = {{}}
  /\ Does("register") = {{"register"}, {"register", "supersede"}}
  /\ Does("status") = {{"profile", "register"}}
  /\ Does("rename") = {Renaming}
BY DEF Does

LEMMA Begun ==
  ASSUME NEW c \in Clients, who[c] \in Identities, drafted \in Nat, Request(c)
  PROVE  /\ call[c] = Idle /\ drafted' \in Nat /\ drafted <= drafted'
         /\ \E k : Starts(c, k) /\ Begin(c, k)
<1>1. call[c] = Idle
  BY DEF Request
<1>2. CASE BeginSend(c)
  <2>1. PICK now \in Fresh(c, "send"), to \in Addressees, thread \in 1 .. drafted' :
          Begin(c, [now EXCEPT !.id = drafted', !.thread = thread, !.to = to, !.asked = to])
    BY <1>2 DEF BeginSend
  <2>. DEFINE k == [now EXCEPT !.id = drafted', !.thread = thread, !.to = to, !.asked = to]
  <2>2. drafted' = drafted + 1
    BY <1>2 DEF BeginSend, Draft
  <2>3. /\ DOMAIN now = CallFields /\ now.alone = TRUE /\ now.original = 0
        /\ Own(now) /\ (RoleKnown(c) => now.me = who[c])
        /\ Makes(FALSE, now.plan, {"resolve", "join", "insert"})
    <3>1. \E does \in Does("send") : Makes(FALSE, now.plan, does)
      BY FreshPlan
    <3>2. /\ DOMAIN now = CallFields /\ now.alone = TRUE
          /\ now.id = 0 /\ now.original = 0 /\ now.to = now.asked
      BY FreshFields
    <3>3. Own(now) /\ (RoleKnown(c) => now.me = who[c])
      BY FreshMe, FreshOwn
    <3>. QED BY <3>1, <3>2, <3>3, DoesWhat
  <2>4. /\ DOMAIN k = CallFields /\ k.alone = TRUE /\ k.me = now.me /\ k.plan = now.plan
        /\ Own(k)
        /\ k.id = drafted' /\ k.original = 0 /\ k.to = to /\ k.asked = to
        /\ k.thread = thread /\ thread \in 1 .. drafted'
    BY <2>1, <2>3 DEF CallFields, Own, SameAgent
  <2>. HIDE DEF k
  <2>5. Pings(k) = FALSE
    BY <2>2, <2>4 DEF Pings
  <2>6. Starts(c, k)
    <3>. DEFINE does == {"resolve", "join", "insert"}
    <3>1. Makes(FALSE, k.plan, does)
      BY <2>2, <2>3, <2>4, <2>5
    <3>2. Fits(c, k, does)
      BY <2>2, <2>3, <2>4, <2>5 DEF Fits
    <3>. HIDE DEF does
    <3>. QED BY <3>1, <3>2, <2>2, <2>3, <2>4, <2>5, StartsWith
  <2>. QED BY <1>1, <2>1, <2>2, <2>6 DEF k
<1>3. CASE BeginPing(c)
  <2>1. PICK now \in Fresh(c, "ping") :
          LET me == FormatAddress(now.me)
          IN  Begin(c, [now EXCEPT !.id = drafted', !.thread = drafted',
                          !.original = drafted', !.to = me, !.asked = me])
    BY <1>3 DEF BeginPing
  <2>. DEFINE me == FormatAddress(now.me)
              k == [now EXCEPT !.id = drafted', !.thread = drafted',
                               !.original = drafted', !.to = me, !.asked = me]
  <2>2. drafted' = drafted + 1
    BY <1>3 DEF BeginPing, Draft
  <2>3. /\ DOMAIN now = CallFields /\ now.alone = TRUE
        /\ Own(now) /\ (RoleKnown(c) => now.me = who[c])
        /\ Makes(TRUE, now.plan, {"look", "mark", "resolve", "join", "insert"})
    <3>1. \E does \in Does("ping") : Makes(TRUE, now.plan, does)
      BY FreshPlan
    <3>2. /\ DOMAIN now = CallFields /\ now.alone = TRUE
          /\ now.id = 0 /\ now.original = 0 /\ now.to = now.asked
      BY FreshFields
    <3>3. Own(now) /\ (RoleKnown(c) => now.me = who[c])
      BY FreshMe, FreshOwn
    <3>. QED BY <3>1, <3>2, <3>3, DoesWhat
  <2>4. /\ DOMAIN k = CallFields /\ k.alone = TRUE /\ k.me = now.me /\ k.plan = now.plan
        /\ Own(k)
        /\ k.id = drafted' /\ k.original = drafted' /\ k.to = me /\ k.asked = me
        /\ k.thread = drafted'
    BY <2>3 DEF CallFields, Own, SameAgent
  <2>5. Begin(c, k)
    BY <2>1
  <2>. HIDE DEF k
  <2>6. Pings(k) = TRUE
    BY <2>4 DEF Pings
  <2>7. Starts(c, k)
    <3>. DEFINE does == {"look", "mark", "resolve", "join", "insert"}
    <3>1. Makes(TRUE, k.plan, does)
      BY <2>2, <2>3, <2>4, <2>6
    <3>2. Fits(c, k, does)
      BY <2>2, <2>3, <2>4, <2>6 DEF Fits
    <3>. HIDE DEF does
    <3>. QED BY <3>1, <3>2, <2>2, <2>3, <2>4, <2>6, StartsWith
  <2>. QED BY <1>1, <2>2, <2>5, <2>7
<1>4. CASE BeginRead(c)
  <2>1. PICK now \in Fresh(c, "read"), id \in 1 .. drafted :
          Begin(c, [now EXCEPT !.original = id])
    BY <1>4 DEF BeginRead
  <2>. DEFINE k == [now EXCEPT !.original = id]
  <2>2. drafted' = drafted
    BY <1>4 DEF BeginRead, Draft
  <2>3. /\ DOMAIN now = CallFields /\ now.alone = TRUE /\ now.id = 0
        /\ Own(now) /\ (RoleKnown(c) => now.me = who[c])
        /\ Makes(FALSE, now.plan, {"look", "mark"})
    <3>1. \E does \in Does("read") : Makes(FALSE, now.plan, does)
      BY FreshPlan
    <3>2. /\ DOMAIN now = CallFields /\ now.alone = TRUE
          /\ now.id = 0 /\ now.original = 0 /\ now.to = now.asked
      BY FreshFields
    <3>3. Own(now) /\ (RoleKnown(c) => now.me = who[c])
      BY FreshMe, FreshOwn
    <3>. QED BY <3>1, <3>2, <3>3, DoesWhat
  <2>4. /\ DOMAIN k = CallFields /\ k.alone = TRUE /\ k.me = now.me /\ k.plan = now.plan
        /\ Own(k)
        /\ k.id = 0 /\ k.original = id
    BY <2>3 DEF CallFields, Own, SameAgent
  <2>. HIDE DEF k
  <2>5. Pings(k) = FALSE
    BY <2>4 DEF Pings
  <2>6. Starts(c, k)
    <3>. DEFINE does == {"look", "mark"}
    <3>1. Makes(FALSE, k.plan, does)
      BY <2>2, <2>3, <2>4, <2>5
    <3>2. Fits(c, k, does)
      BY <2>2, <2>3, <2>4, <2>5 DEF Fits
    <3>. HIDE DEF does
    <3>. QED BY <3>1, <3>2, <2>2, <2>3, <2>4, <2>5, StartsWith
  <2>. QED BY <1>1, <2>1, <2>2, <2>6 DEF k
<1>5. CASE BeginReply(c)
  <2>1. PICK now \in Fresh(c, "reply"), id \in 1 .. drafted :
          Begin(c, [now EXCEPT !.original = id, !.id = drafted'])
    BY <1>5 DEF BeginReply
  <2>. DEFINE k == [now EXCEPT !.original = id, !.id = drafted']
  <2>2. drafted' = drafted + 1
    BY <1>5 DEF BeginReply, Draft
  <2>3. /\ DOMAIN now = CallFields /\ now.alone = TRUE /\ now.to = now.asked
        /\ Own(now) /\ (RoleKnown(c) => now.me = who[c])
        /\ Makes(FALSE, now.plan, {"look", "mark", "resolve", "join", "insert"})
    <3>1. \E does \in Does("reply") : Makes(FALSE, now.plan, does)
      BY FreshPlan
    <3>2. /\ DOMAIN now = CallFields /\ now.alone = TRUE
          /\ now.id = 0 /\ now.original = 0 /\ now.to = now.asked
      BY FreshFields
    <3>3. Own(now) /\ (RoleKnown(c) => now.me = who[c])
      BY FreshMe, FreshOwn
    <3>. QED BY <3>1, <3>2, <3>3, DoesWhat
  <2>4. /\ DOMAIN k = CallFields /\ k.alone = TRUE /\ k.me = now.me /\ k.plan = now.plan
        /\ Own(k)
        /\ k.id = drafted' /\ k.original = id /\ k.to = k.asked
    BY <2>3 DEF CallFields, Own, SameAgent
  <2>. HIDE DEF k
  <2>5. Pings(k) = FALSE
    BY <2>2, <2>4 DEF Pings
  <2>6. Starts(c, k)
    <3>. DEFINE does == {"look", "mark", "resolve", "join", "insert"}
    <3>1. Makes(FALSE, k.plan, does)
      BY <2>2, <2>3, <2>4, <2>5
    <3>2. Fits(c, k, does)
      BY <2>2, <2>3, <2>4, <2>5 DEF Fits
    <3>. HIDE DEF does
    <3>. QED BY <3>1, <3>2, <2>2, <2>3, <2>4, <2>5, StartsWith
  <2>. QED BY <1>1, <2>1, <2>2, <2>6 DEF k
<1>6. CASE BeginLooking(c)
  <2>1. PICK now \in Fresh(c, "view") \cup Fresh(c, "probe") : Begin(c, now)
    BY <1>6 DEF BeginLooking
  <2>2. drafted' = drafted
    BY <1>6 DEF BeginLooking, Draft
  <2>3. /\ DOMAIN now = CallFields /\ now.alone = TRUE /\ now.id = 0 /\ now.original = 0
        /\ Own(now) /\ (RoleKnown(c) => now.me = who[c])
        /\ Makes(TRUE, now.plan, {})
    <3>1. CASE now \in Fresh(c, "view")
      <4>1. \E does \in Does("view") : Makes(TRUE, now.plan, does)
        BY <3>1, FreshPlan
      <4>2. /\ DOMAIN now = CallFields /\ now.alone = TRUE
            /\ now.id = 0 /\ now.original = 0 /\ now.to = now.asked
        BY <3>1, FreshFields
      <4>3. Own(now) /\ (RoleKnown(c) => now.me = who[c])
        BY <3>1, FreshMe, FreshOwn
      <4>. QED BY <4>1, <4>2, <4>3, DoesWhat
    <3>2. CASE now \in Fresh(c, "probe")
      <4>1. \E does \in Does("probe") : Makes(TRUE, now.plan, does)
        BY <3>2, FreshPlan
      <4>2. /\ DOMAIN now = CallFields /\ now.alone = TRUE
            /\ now.id = 0 /\ now.original = 0 /\ now.to = now.asked
        BY <3>2, FreshFields
      <4>3. Own(now) /\ (RoleKnown(c) => now.me = who[c])
        BY <3>2, FreshMe, FreshOwn
      <4>. QED BY <4>1, <4>2, <4>3, DoesWhat
    <3>. QED BY <2>1, <3>1, <3>2
  <2>4. Pings(now) = TRUE
    BY <2>3 DEF Pings
  <2>5. Starts(c, now)
    <3>. DEFINE does == {}
    <3>1. Makes(TRUE, now.plan, does)
      BY <2>2, <2>3, <2>4
    <3>2. Fits(c, now, does)
      BY <2>2, <2>3, <2>4 DEF Fits
    <3>. HIDE DEF does
    <3>. QED BY <3>1, <3>2, <2>2, <2>3, <2>4, StartsWith
  <2>. QED BY <1>1, <2>1, <2>2, <2>5
<1>7. CASE BeginRegister(c)
  <2>1. PICK now, card, list, role :
          /\ now \in Fresh(c, "register") /\ role \in Roles \cup {None, now.me.role}
          /\ Begin(c, [now EXCEPT !.card = card, !.list = list, !.as.role = role,
                         !.plan = IF list = <<>> THEN <<"open", "register">> ELSE @])
    BY <1>7 DEF BeginRegister
  <2>. DEFINE k == [now EXCEPT !.card = card, !.list = list, !.as.role = role,
                      !.plan = IF list = <<>> THEN <<"open", "register">> ELSE @]
  <2>2. drafted' = drafted
    BY <1>7 DEF BeginRegister, Draft
  <2>3. /\ DOMAIN now = CallFields /\ now.alone = TRUE /\ now.id = 0 /\ now.original = 0
        /\ Own(now) /\ (RoleKnown(c) => now.me = who[c])
        /\ \E does \in {{"register"}, {"register", "supersede"}} :
             Makes(TRUE, now.plan, does)
    <3>1. \E does \in Does("register") : Makes(TRUE, now.plan, does)
      BY <2>1, FreshPlan
    <3>2. /\ DOMAIN now = CallFields /\ now.alone = TRUE
          /\ now.id = 0 /\ now.original = 0 /\ now.to = now.asked
      BY <2>1, FreshFields
    <3>3. Own(now) /\ (RoleKnown(c) => now.me = who[c])
      BY <2>1, FreshMe, FreshOwn
    <3>. QED BY <3>1, <3>2, <3>3, DoesWhat
  <2>4. /\ DOMAIN k = CallFields /\ k.alone = TRUE /\ k.me = now.me /\ Own(k)
        /\ k.plan \in {now.plan, <<"open", "register">>}
        /\ k.id = 0 /\ k.original = 0
    <3>1. /\ DOMAIN k = CallFields /\ k.alone = TRUE /\ k.me = now.me
          /\ k.as = [now.as EXCEPT !.role = role] /\ k.since = now.since
          /\ k.plan \in {now.plan, <<"open", "register">>}
          /\ k.id = 0 /\ k.original = 0
      BY <2>3 DEF CallFields
    <3>2. /\ now.me \in Identities /\ now.as \in Identities /\ now.since = day
          /\ SameAgent(now.as, now.me)
      BY <2>3 DEF Own
    <3>3. role \in Literals \cup {None}
      BY <2>1, <3>2, DeskAssumption, IdentityParts
    <3>4. k.as \in Identities /\ SameAgent(k.as, now.me)
      BY <3>1, <3>2, <3>3 DEF Identities, SameAgent
    <3>. QED BY <3>1, <3>2, <3>4 DEF Own
  <2>. HIDE DEF k
  <2>5. Pings(k) = TRUE
    BY <2>4 DEF Pings
  <2>6. \E does \in {{"register"}, {"register", "supersede"}} : Makes(TRUE, k.plan, does)
    BY <2>3, <2>4, MorePlans
  <2>7. Starts(c, k)
    <3>1. PICK does \in {{"register"}, {"register", "supersede"}} :
                Makes(TRUE, k.plan, does)
      BY <2>6
    <3>2. Fits(c, k, does)
      <4>1. k.original = 0 /\ k.original \in 0 .. drafted'
        BY <2>2, <2>4
      <4>2. \A s \in {"retire", "party", "again", "resolve", "insert", "look", "mark",
                    "vacant", "move"} : s \notin does
        BY <3>1
      <4>. QED BY <4>1, <4>2 DEF Fits
    <3>. QED BY <3>1, <3>2, <2>3, <2>4, <2>5, StartsWith
  <2>. QED BY <1>1, <2>1, <2>2, <2>7 DEF k
<1>8. CASE BeginStatus(c)
  <2>1. PICK now \in Fresh(c, "status") : Begin(c, now)
    BY <1>8 DEF BeginStatus
  <2>2. drafted' = drafted
    BY <1>8 DEF BeginStatus, Draft
  <2>3. /\ DOMAIN now = CallFields /\ now.alone = TRUE /\ now.id = 0 /\ now.original = 0
        /\ Own(now) /\ (RoleKnown(c) => now.me = who[c])
        /\ Makes(TRUE, now.plan, {"profile", "register"})
    <3>1. \E does \in Does("status") : Makes(TRUE, now.plan, does)
      BY FreshPlan
    <3>2. /\ DOMAIN now = CallFields /\ now.alone = TRUE
          /\ now.id = 0 /\ now.original = 0 /\ now.to = now.asked
      BY FreshFields
    <3>3. Own(now) /\ (RoleKnown(c) => now.me = who[c])
      BY FreshMe, FreshOwn
    <3>. QED BY <3>1, <3>2, <3>3, DoesWhat
  <2>4. Pings(now) = TRUE
    BY <2>3 DEF Pings
  <2>5. Starts(c, now)
    <3>. DEFINE does == {"profile", "register"}
    <3>1. Makes(TRUE, now.plan, does)
      BY <2>2, <2>3, <2>4
    <3>2. Fits(c, now, does)
      BY <2>2, <2>3, <2>4 DEF Fits
    <3>. HIDE DEF does
    <3>. QED BY <3>1, <3>2, <2>2, <2>3, <2>4, StartsWith
  <2>. QED BY <1>1, <2>1, <2>2, <2>5
<1>9. CASE BeginRename(c)
  <2>1. PICK now \in Fresh(c, "rename"), to \in NewNames :
          Begin(c, [now EXCEPT !.to = to])
    BY <1>9 DEF BeginRename
  <2>. DEFINE k == [now EXCEPT !.to = to]
  <2>2. drafted' = drafted
    BY <1>9 DEF BeginRename, Draft
  <2>3. /\ DOMAIN now = CallFields /\ now.alone = TRUE /\ now.id = 0 /\ now.original = 0
        /\ Own(now) /\ (RoleKnown(c) => now.me = who[c])
        /\ "mcp" \in Desk[c] /\ now.list = <<>>
        /\ Makes(TRUE, now.plan, Renaming)
    <3>1. \E does \in Does("rename") : Makes(TRUE, now.plan, does)
      BY FreshPlan
    <3>2. /\ DOMAIN now = CallFields /\ now.alone = TRUE
          /\ now.id = 0 /\ now.original = 0 /\ now.to = now.asked
          /\ now.list = <<>>
      BY FreshFields
    <3>3. Own(now) /\ (RoleKnown(c) => now.me = who[c])
      BY FreshMe, FreshOwn
    <3>4. "mcp" \in Desk[c]
      BY FreshPlan
    <3>. QED BY <3>1, <3>2, <3>3, <3>4, DoesWhat
  <2>4. /\ DOMAIN k = CallFields /\ k.alone = TRUE /\ k.me = now.me /\ k.plan = now.plan
        /\ Own(k)
        /\ k.id = 0 /\ k.original = 0 /\ k.to = to /\ k.list = <<>>
    BY <2>3 DEF CallFields, Own, SameAgent
  <2>. HIDE DEF k
  <2>5. Pings(k) = TRUE
    BY <2>4 DEF Pings
  <2>6. Starts(c, k)
    <3>. DEFINE does == Renaming
    <3>1. Makes(TRUE, k.plan, does)
      BY <2>2, <2>3, <2>4, <2>5
    <3>2. Fits(c, k, does)
      <4>1. k.original = 0 /\ k.original \in 0 .. drafted' /\ k.to \in NewNames
            /\ k.list = <<>>
        BY <2>1, <2>2, <2>4
      <4>2. /\ "retire" \notin does /\ "party" \notin does /\ "resolve" \notin does
            /\ "insert" \notin does /\ "look" \notin does /\ "mark" \notin does
            /\ "again" \notin does
        BY DEF Renaming
      <4>3. "move" \in does /\ "vacant" \in does /\ "hop" \in does
        BY DEF Renaming
      <4>4. "mcp" \in Desk[c]
        BY <2>3
      <4>. HIDE DEF does
      <4>. QED BY <4>1, <4>2, <4>3, <4>4 DEF Fits
    <3>. HIDE DEF does
    <3>. QED BY <3>1, <3>2, <2>2, <2>3, <2>4, <2>5, StartsWith
  <2>. QED BY <1>1, <2>1, <2>2, <2>6 DEF k
<1>. QED BY <1>2, <1>3, <1>4, <1>5, <1>6, <1>7, <1>8, <1>9 DEF Request

(***************************************************************************)
(* A call goes on                                                          *)
(***************************************************************************)

\* The first step of a plan, and what may come after it.
LEMMA HeadFirst ==
  ASSUME NEW pings \in BOOLEAN, NEW p, Planned(pings, p), p # <<>>
  PROVE  /\ p[1] \in Steps /\ Ahead(p, p[1])
         /\ \A t : Ahead(p, t) => t = p[1] \/ Follows(pings, p[1], t)
<1>1. /\ p \in Seq(Steps) /\ Len(p) \in Nat /\ 1 \in 1 .. Len(p)
      /\ \A m, n \in 1 .. Len(p) : m < n => Follows(pings, p[m], p[n])
  BY DEF Planned, Ordered
<1>2. p[1] \in Steps /\ Ahead(p, p[1])
  BY <1>1 DEF Ahead
<1>3. ASSUME NEW t, Ahead(p, t), t # p[1] PROVE Follows(pings, p[1], t)
  <2>1. PICK n \in 1 .. Len(p) : p[n] = t
    BY <1>3 DEF Ahead
  <2>2. n # 1 /\ 1 < n
    BY <1>1, <1>3, <2>1
  <2>. QED BY <1>1, <2>1, <2>2
<1>. QED BY <1>2, <1>3

LEMMA PlansGoOn ==
  ASSUME NEW p, p \in Seq(Steps)
  PROVE  p = <<>> \/ (p # <<>> /\ Ahead(p, p[1]))
BY DEF Ahead

LEMMA TwoBefore ==
  ASSUME NEW S, NEW p \in Seq(S), NEW a \in S, NEW b \in S
  PROVE  Tail(<<a, b>> \o p) = <<b>> \o p
<1>. DEFINE ab == <<a, b>>
            u == ab \o p
            v == <<b>> \o p
<1>1. ab \in Seq(S) /\ Len(ab) = 2 /\ ab[1] = a /\ ab[2] = b
  OBVIOUS
<1>2. <<b>> \in Seq(S) /\ Len(<<b>>) = 1 /\ <<b>>[1] = b
  OBVIOUS
<1>. HIDE DEF ab
<1>3. /\ u \in Seq(S) /\ Len(u) = 2 + Len(p) /\ u[2] = b
      /\ \A n \in 3 .. Len(u) : u[n] = p[n - 2]
  <2>1. u \in Seq(S) /\ Len(u) = Len(ab) + Len(p)
    BY <1>1, ConcatProperties
  <2>3. \A n \in 1 .. Len(ab) + Len(p) :
          u[n] = IF n <= Len(ab) THEN ab[n] ELSE p[n - Len(ab)]
    BY <1>1, ConcatProperties, Zenon
  <2>. HIDE DEF u
  <2>2. 2 \in 1 .. Len(ab) /\ Len(ab) + 1 = 3
    BY <1>1
  <2>. QED BY <1>1, <2>1, <2>2, <2>3
<1>4. /\ v \in Seq(S) /\ Len(v) = 1 + Len(p) /\ v[1] = b
      /\ \A n \in 2 .. Len(v) : v[n] = p[n - 1]
  BY <1>2, ConcatProperties
<1>. HIDE DEF u, v
<1>5. u # <<>> /\ Len(p) \in Nat
  BY <1>3
<1>6. /\ Tail(u) \in Seq(S) /\ Len(Tail(u)) = Len(u) - 1
      /\ \A n \in 1 .. Len(Tail(u)) : Tail(u)[n] = u[n + 1]
  BY <1>3, <1>5, HeadTailProperties
<1>7. ASSUME NEW n \in 1 .. Len(v) PROVE Tail(u)[n] = v[n]
  <2>1. CASE n = 1
    BY <1>3, <1>4, <1>5, <1>6, <2>1
  <2>2. CASE n # 1
    <3>1. n + 1 \in 3 .. Len(u) /\ n \in 2 .. Len(v) /\ (n + 1) - 2 = n - 1
          /\ n \in 1 .. Len(Tail(u))
      BY <1>3, <1>4, <1>5, <1>6, <2>2
    <3>. QED BY <1>3, <1>4, <1>6, <3>1
  <2>. QED BY <2>1, <2>2
<1>8. Len(Tail(u)) = Len(v)
  BY <1>3, <1>4, <1>5, <1>6
<1>9. Tail(u) = v
  BY <1>4, <1>6, <1>7, <1>8, SeqEqual
<1>. QED BY <1>9 DEF u, v, ab

\* The refused reading of a reply is made up for.
LEMMA Made ==
  ASSUME NEW pings \in BOOLEAN
  PROVE  LET plan == <<"again">> \o Deliver
         IN  /\ Planned(pings, plan) /\ plan # <<>>
             /\ \A s : Ahead(plan, s) <=> s \in {"again", "resolve", "join", "insert"}
<1>1. /\ Planned(pings, Deliver)
      /\ \A s : Ahead(Deliver, s) <=> s \in {"resolve", "join", "insert"}
  BY Parts
<1>2. /\ "again" \in Steps
      /\ \A t \in {"resolve", "join", "insert"} : Follows(pings, "again", t)
  BY DEF Steps, Follows, Renaming, Reading, Sending
<1>. QED BY <1>1, <1>2, PutBefore

\* What an address that names one agent stands for.
LEMMA ParsesToOne ==
  ASSUME NEW raw, ParseAddress(raw) # Malformed, IsSpecific(ParseAddress(raw))
  PROVE  ParseAddress(raw) \in Identities
<1>. DEFINE part(i) == IF i <= Len(raw) THEN ParsePart(raw[i]) ELSE None
<1>1. \A i \in 1 .. 3 : part(i) \in Literals \cup {None, Malformed}
  BY DEF ParsePart
<1>2. \A i \in 1 .. 3 : part(i) # Malformed
  BY DEF ParseAddress
<1>3. ParseAddress(raw) = [project |-> part(1), agent |-> part(2), role |-> part(3)]
  BY DEF ParseAddress
<1>4. /\ part(1) \in Literals \cup {None} /\ part(2) \in Literals \cup {None}
      /\ part(3) \in Literals \cup {None}
  BY <1>1, <1>2
<1>. HIDE DEF part
<1>5. part(1) # None /\ part(2) # None
  BY <1>3 DEF IsSpecific
<1>. QED BY <1>3, <1>4, <1>5 DEF Identities

\* Everybody else in flight is told apart from having been alone.
LEMMA Continued ==
  ASSUME NEW c \in Clients, DOMAIN call = Clients, NEW now, Continue(c, now)
  PROVE  /\ DOMAIN call' = Clients
         /\ call'[c] = IF now.plan = <<>> THEN Idle ELSE now
         /\ \A d \in Clients \ {c} :
              call'[d] = IF call[d] = Idle THEN Idle ELSE [call[d] EXCEPT !.alone = FALSE]
BY DEF Continue

LEMMA Stopped ==
  ASSUME NEW c \in Clients, DOMAIN call = Clients, Stop(c)
  PROVE  call'[c] = Idle
BY Continued DEF Stop, Idle

\* What the next step is not in the way of.
Kept(k, q) ==
  /\ DOMAIN q = CallFields
  /\ q.me = k.me /\ q.id = k.id /\ q.original = k.original /\ q.alone = k.alone

\* The step is done, or is not done yet, or the reading is given up.
Less(k, q) == \A s : Ahead(q.plan, s) <=> Ahead(k.plan, s) /\ s # k.plan[1]

Lasting == {"join", "party", "hop", "supersede", "retire"}
Still(k, q) ==
  /\ k.plan[1] \in Lasting
  /\ \A s : s \notin Lasting => (Ahead(q.plan, s) <=> Ahead(k.plan, s))

Back(k, q) ==
  /\ k.plan[1] \in Reading /\ Ahead(k.plan, "resolve")
  /\ \A s : Ahead(q.plan, s) <=> s \in {"again", "resolve", "join", "insert"}
  /\ q.to = k.to /\ q.asked = k.asked /\ q.thread = k.thread

Going(k, q) ==
  /\ Kept(k, q)
  /\ q.plan # <<>> /\ Planned(Pings(k), q.plan)
  /\ Less(k, q) \/ Still(k, q) \/ Back(k, q)
  /\ Ahead(q.plan, "retire") =>
       k.plan[1] = "supersede" /\ q.plan[1] = "retire" /\ Ahead(q.plan, "supersede")

\* What the step has changed in the arguments of the call.
Changing(c, k, q) ==
  /\ k.plan[1] # "vacant" => q.as = k.as
  /\ k.plan[1] = "vacant" =>
       q.as \in Identities /\ q.as # k.me /\ q.as = ParseAddress(k.to)
  /\ k.plan[1] \notin {"resolve", "look", "again"} => q.to = k.to
  /\ k.plan[1] \notin {"look", "again", "vacant", "hop"} => q.asked = k.asked
  /\ k.plan[1] \notin {"look", "again", "party"} => q.thread = k.thread
  /\ k.plan[1] = "resolve" =>
       q.to = IF k.to \in DOMAIN forwards THEN forwards[k.to].new ELSE k.to
  /\ k.plan[1] = "party" /\ Turns(k.thread, k.me) # {} => q.thread = k.thread
  /\ k.plan[1] \in {"party"} => q.thread \in {k.thread, k.id}
  /\ q.since \in {k.since, day}
  /\ k.plan[1] \notin {"hop", "supersede", "retire"} => q.list = k.list
  /\ k.plan[1] \in {"look", "again"} /\ ~Back(k, q) =>
       /\ Readable(c)
       /\ IF Ahead(k.plan, "resolve")
          THEN /\ q.to = q.asked
               /\ q.thread = messages[k.original].thread
          ELSE q.to = k.to /\ q.asked = k.asked /\ q.thread = k.thread

Basic(k) ==
  /\ DOMAIN k = CallFields /\ k.plan # <<>> /\ Planned(Pings(k), k.plan)
  /\ Ahead(k.plan, "retire") => k.plan[1] = "retire" /\ Ahead(k.plan, "supersede")
  /\ Ahead(k.plan, "again") => Ahead(k.plan, "resolve")

\* What is left of a plan, a step on.
LEMMA TailGoes ==
  ASSUME NEW k, Basic(k), NEW q, Kept(k, q), q.plan = Tail(k.plan), q.plan # <<>>
  PROVE  Going(k, q) /\ Less(k, q)
<1>1. k.plan # <<>> /\ Planned(Pings(k), k.plan) /\ Pings(k) \in BOOLEAN
  BY DEF Basic, Pings
<1>2. Planned(Pings(k), q.plan) /\ Less(k, q)
  BY <1>1, TailPlanned DEF Less
<1>3. ~Ahead(q.plan, "retire")
  BY <1>2 DEF Less, Basic
<1>. QED BY <1>2, <1>3 DEF Going

\* The plan as it was.
LEMMA SameGoes ==
  ASSUME NEW k, Basic(k), NEW q, Kept(k, q), q.plan = k.plan,
         k.plan[1] \in Lasting \ {"retire"}
  PROVE  q.plan # <<>> /\ Going(k, q)
BY DEF Basic, Going, Still

\* A step that is done.
Done(now) == [now EXCEPT !.plan = Tail(@)]

LEMMA StepDone ==
  ASSUME NEW k, Basic(k), NEW now, Kept(k, now), now.plan = k.plan,
         NEW q, q = Done(now), q.plan # <<>>
  PROVE  /\ Going(k, q) /\ Less(k, q)
         /\ q.as = now.as /\ q.to = now.to /\ q.asked = now.asked /\ q.thread = now.thread
         /\ q.since = now.since /\ q.list = now.list
<1>1. /\ DOMAIN q = CallFields /\ q.plan = Tail(k.plan)
      /\ q.as = now.as /\ q.to = now.to /\ q.asked = now.asked /\ q.thread = now.thread
      /\ q.since = now.since /\ q.list = now.list
      /\ q.me = now.me /\ q.id = now.id /\ q.original = now.original /\ q.alone = now.alone
  BY DEF Kept, CallFields, Done
<1>2. Kept(k, q)
  BY <1>1 DEF Kept
<1>. QED BY <1>1, <1>2, TailGoes

LEMMA OnwardRow ==
  ASSUME NEW c \in Clients, DOMAIN call = Clients, NEW k, k = call[c], Basic(k),
         NEW now, Kept(k, now), now.plan = k.plan, Onward(c, now)
  PROVE  \/ call'[c] = Idle
         \/ \E q : /\ q = call'[c] /\ Going(k, q) /\ Less(k, q)
                  /\ q.as = now.as /\ q.to = now.to
                  /\ q.asked = now.asked /\ q.thread = now.thread
                  /\ q.since = now.since /\ q.list = now.list
<1>1. PICK q : q = Done(now)
  OBVIOUS
<1>2. call'[c] = IF q.plan = <<>> THEN Idle ELSE q
  BY <1>1, Continued DEF Onward, Done
<1>3. CASE q.plan = <<>>
  BY <1>2, <1>3
<1>4. CASE q.plan # <<>>
  <2>1. q = call'[c]
    BY <1>2, <1>4
  <2>2. /\ Going(k, q) /\ Less(k, q)
        /\ q.as = now.as /\ q.to = now.to /\ q.asked = now.asked /\ q.thread = now.thread
        /\ q.since = now.since /\ q.list = now.list
    BY <1>1, <1>4, StepDone
  <2>. QED BY <2>1, <2>2
<1>. QED BY <1>3, <1>4

\* The same call, a step on.
LEMMA Plainly ==
  ASSUME NEW c \in Clients, DOMAIN call = Clients, NEW k, k = call[c], k # Idle, Basic(k),
         k.plan[1] \notin {"vacant", "resolve", "look", "again"},
         Onward(c, k)
  PROVE  \/ call'[c] = Idle
         \/ \E q : q = call'[c] /\ Going(k, q) /\ Less(k, q) /\ Changing(c, k, q)
<1>1. Kept(k, k)
  BY DEF Kept, Basic
<1>2. CASE call'[c] # Idle
  <2>1. PICK q : /\ q = call'[c] /\ Going(k, q) /\ Less(k, q)
                 /\ q.as = k.as /\ q.to = k.to /\ q.asked = k.asked
                 /\ q.thread = k.thread /\ q.since = k.since /\ q.list = k.list
    BY <1>1, <1>2, OnwardRow
  <2>2. Changing(c, k, q)
    BY <2>1 DEF Changing
  <2>. QED BY <2>1, <2>2
<1>. QED BY <1>2

\* What holds of a call after a step of its own.
Gone(c, k) ==
  /\ k # Idle
  /\ \/ call'[c] = Idle
     \/ \E q : q = call'[c] /\ Going(k, q) /\ Changing(c, k, q)

LEMMA PlainRows ==
  ASSUME NEW c \in Clients, DOMAIN call = Clients, NEW k, k = call[c],
         k # Idle => Basic(k),
         Open(c) \/ Touch(c) \/ Insert(c) \/ Register(c) \/ Move(c)
  PROVE  Gone(c, k)
<1>1. /\ k # Idle /\ k.plan[1] \notin {"vacant", "resolve", "look", "again"}
      /\ Onward(c, k) \/ Stop(c)
  BY DEF Open, Touch, Insert, Register, Move, At
<1>2. CASE Onward(c, k)
  BY <1>1, <1>2, Plainly DEF Gone
<1>3. CASE Stop(c)
  BY <1>1, <1>3, Stopped DEF Gone
<1>. QED BY <1>1, <1>2, <1>3

LEMMA ContinueRow ==
  ASSUME NEW c \in Clients, DOMAIN call = Clients, NEW k, k = call[c], k # Idle,
         NEW q, Continue(c, q), q.plan # <<>> => Going(k, q) /\ Changing(c, k, q)
  PROVE  Gone(c, k)
<1>1. call'[c] = IF q.plan = <<>> THEN Idle ELSE q
  BY Continued
<1>2. CASE q.plan = <<>>
  BY <1>1, <1>2 DEF Gone
<1>3. CASE q.plan # <<>>
  BY <1>1, <1>3 DEF Gone
<1>. QED BY <1>2, <1>3

LEMMA SendingRows ==
  ASSUME NEW c \in Clients, DOMAIN call = Clients, NEW k, k = call[c],
         k # Idle => Basic(k), Resolve(c) \/ Join(c) \/ Party(c)
  PROVE  Gone(c, k)
<1>1. CASE Resolve(c)
  <2>1. k # Idle /\ k.plan[1] = "resolve" /\ Basic(k)
    BY <1>1 DEF Resolve, At
  <2>2. CASE Stop(c)
    BY <2>1, <2>2, Stopped DEF Gone
  <2>3. CASE ~Stop(c)
    <3>1. PICK to : to = IF k.to \in DOMAIN forwards THEN forwards[k.to].new ELSE k.to
      OBVIOUS
    <3>2. PICK now : now = IF k.to \in DOMAIN forwards THEN [k EXCEPT !.to = to] ELSE k
      OBVIOUS
    <3>3. Kept(k, now) /\ now.plan = k.plan /\ now.as = k.as /\ now.to = to
          /\ now.asked = k.asked /\ now.thread = k.thread
          /\ now.since = k.since /\ now.list = k.list
      BY <2>1, <3>1, <3>2 DEF Kept, Basic, CallFields
    <3>4. Onward(c, now)
      BY <1>1, <2>3, <3>1, <3>2 DEF Resolve
    <3>5. CASE call'[c] # Idle
      <4>1. PICK q : /\ q = call'[c] /\ Going(k, q) /\ Less(k, q)
                     /\ q.as = now.as /\ q.to = now.to
                     /\ q.asked = now.asked /\ q.thread = now.thread
                     /\ q.since = now.since /\ q.list = now.list
        BY <2>1, <3>3, <3>4, <3>5, OnwardRow
      <4>2. Changing(c, k, q)
        BY <2>1, <3>1, <3>3, <4>1 DEF Changing
      <4>. QED BY <2>1, <4>1, <4>2 DEF Gone
    <3>. QED BY <2>1, <3>5 DEF Gone
  <2>. QED BY <2>2, <2>3
<1>2. CASE Party(c)
  <2>1. k # Idle /\ k.plan[1] = "party" /\ Basic(k)
    BY <1>2 DEF Party, At
  <2>2. PICK thread : thread = IF Turns(k.thread, k.me) # {} THEN k.thread ELSE k.id
    OBVIOUS
  <2>3. PICK now : now = IF Turns(k.thread, k.me) # {} THEN k
                         ELSE [k EXCEPT !.thread = k.id]
    OBVIOUS
  <2>4. Kept(k, now) /\ now.plan = k.plan /\ now.as = k.as /\ now.to = k.to
        /\ now.asked = k.asked /\ now.thread = thread
        /\ now.since = k.since /\ now.list = k.list
    BY <2>1, <2>2, <2>3 DEF Kept, Basic, CallFields
  <2>5. Onward(c, now)
    BY <1>2, <2>3 DEF Party
  <2>6. CASE call'[c] # Idle
    <3>1. PICK q : /\ q = call'[c] /\ Going(k, q) /\ Less(k, q)
                   /\ q.as = now.as /\ q.to = now.to
                   /\ q.asked = now.asked /\ q.thread = now.thread
                   /\ q.since = now.since /\ q.list = now.list
      BY <2>1, <2>4, <2>5, <2>6, OnwardRow
    <3>2. Changing(c, k, q)
      BY <2>1, <2>2, <2>4, <3>1 DEF Changing
    <3>. QED BY <2>1, <3>1, <3>2 DEF Gone
  <2>. QED BY <2>1, <2>6 DEF Gone
<1>3. CASE Join(c)
  <2>1. k # Idle /\ k.plan[1] = "join" /\ Basic(k)
    BY <1>3 DEF Join, At
  <2>2. CASE Onward(c, k)
    <3>1. k.plan[1] \notin {"vacant", "resolve", "look", "again"}
      BY <2>1
    <3>. QED BY <2>1, <2>2, <3>1, Plainly DEF Gone
  <2>3. CASE Onward(c, [k EXCEPT !.plan = <<"join", "party">> \o Tail(@)])
    <3>1. /\ DOMAIN k = CallFields /\ k.plan # <<>> /\ Planned(Pings(k), k.plan)
          /\ Pings(k) \in BOOLEAN
      BY <2>1 DEF Basic, Pings
    <3>. DEFINE rest == Tail(k.plan)
    <3>2. /\ Planned(Pings(k), rest)
          /\ \A s : Ahead(rest, s) <=> Ahead(k.plan, s) /\ s # "join"
      BY <2>1, <3>1, TailPlanned
    <3>3. \A t : Ahead(rest, t) => Follows(Pings(k), "party", t)
      <4>1. \A t : Ahead(rest, t) => Follows(Pings(k), "join", t)
        BY <2>1, <3>1, <3>2, HeadFirst
      <4>. HIDE DEF rest
      <4>. QED BY <4>1 DEF Follows, Renaming, Sending, Reading
    <3>. DEFINE plan == <<"party">> \o rest
    <3>4. /\ Planned(Pings(k), plan) /\ plan # <<>>
          /\ \A t : Ahead(plan, t) <=> t = "party" \/ Ahead(rest, t)
      <4>1. "party" \in Steps
        BY DEF Steps
      <4>. HIDE DEF rest
      <4>. QED BY <3>1, <3>2, <3>3, <4>1, PutBefore
    <3>5. Tail(<<"join", "party">> \o rest) = plan
      <4>1. rest \in Seq(Steps) /\ "join" \in Steps /\ "party" \in Steps
        BY <3>2 DEF Planned, Steps
      <4>. HIDE DEF rest
      <4>. QED BY <4>1, TwoBefore
    <3>6. PICK q : q = [k EXCEPT !.plan = plan]
      OBVIOUS
    <3>7. /\ DOMAIN q = CallFields /\ q.plan = plan /\ q.as = k.as /\ q.to = k.to
          /\ q.asked = k.asked /\ q.thread = k.thread /\ Kept(k, q)
          /\ q.since = k.since /\ q.list = k.list
      BY <3>1, <3>6 DEF CallFields, Kept
    <3>8. call'[c] = q
      <4>1. PICK now : now = [k EXCEPT !.plan = <<"join", "party">> \o rest]
        OBVIOUS
      <4>2. DOMAIN now = CallFields /\ now.plan = <<"join", "party">> \o rest
        BY <3>1, <4>1 DEF CallFields
      <4>3. [now EXCEPT !.plan = Tail(@)] = q
        BY <3>1, <3>5, <3>6, <4>1, <4>2 DEF CallFields
      <4>4. Continue(c, q)
        BY <2>3, <4>1, <4>3 DEF Onward
      <4>. QED BY <3>4, <3>7, <4>4, Continued
    <3>. HIDE DEF plan, rest
    <3>9. Going(k, q)
      <4>1. \A s : s \notin Lasting => (Ahead(q.plan, s) <=> Ahead(k.plan, s))
        BY <3>2, <3>4, <3>7 DEF Lasting
      <4>2. Still(k, q)
        BY <2>1, <4>1 DEF Still, Lasting
      <4>3. ~Ahead(q.plan, "retire")
        BY <2>1, <3>2, <3>4, <3>7 DEF Basic
      <4>. QED BY <3>4, <3>7, <4>2, <4>3 DEF Going
    <3>10. Changing(c, k, q)
      BY <2>1, <3>7 DEF Changing
    <3>. QED BY <2>1, <3>8, <3>9, <3>10 DEF Gone
  <2>. QED BY <1>3, <2>2, <2>3 DEF Join
<1>. QED BY <1>1, <1>2, <1>3

LEMMA Repliers ==
  ASSUME NEW c \in Clients, call[c].plan \in Seq(Steps)
  PROVE  Replying(c) <=> Ahead(call[c].plan, "resolve")
BY DEF Replying, ToSet, Ahead

LEMMA LookAgainRow ==
  ASSUME NEW c \in Clients, DOMAIN call = Clients, NEW k, k = call[c], k # Idle, Basic(k),
         k.plan[1] \in Reading, LookAgain(c)
  PROVE  Gone(c, k) /\ \A q : q = call'[c] /\ q # Idle => Back(k, q)
<1>1. /\ DOMAIN k = CallFields /\ Pings(k) \in BOOLEAN /\ k.plan \in Seq(Steps)
  BY DEF Basic, Pings, Planned
<1>2. CASE Replying(c)
  <2>1. Ahead(k.plan, "resolve")
    BY <1>1, <1>2, Repliers
  <2>. DEFINE plan == <<"again">> \o Deliver
  <2>2. PICK q : q = [k EXCEPT !.plan = plan]
    OBVIOUS
  <2>3. /\ DOMAIN q = CallFields /\ q.plan = plan /\ q.as = k.as /\ q.to = k.to
        /\ q.asked = k.asked /\ q.thread = k.thread /\ Kept(k, q)
        /\ q.since = k.since /\ q.list = k.list
    BY <1>1, <2>2 DEF CallFields, Kept
  <2>4. /\ Planned(Pings(k), plan) /\ plan # <<>>
        /\ \A s : Ahead(plan, s) <=> s \in {"again", "resolve", "join", "insert"}
    BY <1>1, Made
  <2>5. Continue(c, q)
    BY <1>2, <2>2 DEF LookAgain
  <2>. HIDE DEF plan
  <2>6. Back(k, q)
    BY <2>1, <2>3, <2>4 DEF Back
  <2>7. ~Ahead(q.plan, "retire")
    BY <2>3, <2>4
  <2>8. Going(k, q)
    BY <2>3, <2>4, <2>6, <2>7 DEF Going
  <2>9. Changing(c, k, q)
    BY <2>3, <2>6 DEF Changing, Reading
  <2>10. call'[c] = q
    BY <2>3, <2>4, <2>5, Continued
  <2>. QED BY <2>6, <2>8, <2>9, <2>10 DEF Gone
<1>3. CASE ~Replying(c)
  BY <1>3, Stopped DEF LookAgain, Gone
<1>. QED BY <1>2, <1>3

\* The reading is answered.
LEMMA AnswerRow ==
  ASSUME NEW c \in Clients, DOMAIN call = Clients, NEW k, k = call[c], k # Idle, Basic(k),
         k.plan[1] \in {"look", "again"}, Readable(c), NEW now,
         now \in {k, Answering(k, messages[k.original])},
         now = Answering(k, messages[k.original]) \/ ~Ahead(k.plan, "resolve"),
         now = k \/ Ahead(k.plan, "resolve"), Onward(c, now)
  PROVE  Gone(c, k) /\ \A q : q = call'[c] /\ q # Idle => Less(k, q)
<1>1. DOMAIN k = CallFields
  BY DEF Basic
<1>2. /\ Kept(k, now) /\ now.plan = k.plan /\ now.as = k.as
      /\ now.since \in {k.since, day} /\ now.list = k.list
      /\ IF Ahead(k.plan, "resolve")
         THEN now.to = now.asked /\ now.thread = messages[k.original].thread
         ELSE now.to = k.to /\ now.asked = k.asked /\ now.thread = k.thread
  <2>1. CASE now = Answering(k, messages[k.original]) /\ Ahead(k.plan, "resolve")
    BY <1>1, <2>1 DEF Kept, Answering, CallFields
  <2>2. CASE now = Answering(k, messages[k.original]) /\ ~Ahead(k.plan, "resolve")
    BY <1>1, <2>2 DEF Kept, Answering, CallFields
  <2>3. CASE now = k /\ ~Ahead(k.plan, "resolve")
    BY <1>1, <2>3 DEF Kept
  <2>. QED BY <2>1, <2>2, <2>3
<1>3. CASE call'[c] # Idle
  <2>1. PICK q : /\ q = call'[c] /\ Going(k, q) /\ Less(k, q)
                 /\ q.as = now.as /\ q.to = now.to
                 /\ q.asked = now.asked /\ q.thread = now.thread
                 /\ q.since = now.since /\ q.list = now.list
    BY <1>2, <1>3, OnwardRow
  <2>2. Changing(c, k, q)
    BY <1>2, <2>1 DEF Changing
  <2>. QED BY <2>1, <2>2 DEF Gone
<1>. QED BY <1>3 DEF Gone

LEMMA ReadingRows ==
  ASSUME NEW c \in Clients, DOMAIN call = Clients, NEW k, k = call[c],
         k # Idle => Basic(k), Look(c) \/ Mark(c) \/ Again(c)
  PROVE  Gone(c, k)
<1>1. CASE Look(c)
  <2>1. k # Idle /\ k.plan[1] = "look" /\ Basic(k) /\ k.plan \in Seq(Steps)
    BY <1>1 DEF Look, At, Basic, Planned
  <2>2. CASE Readable(c)
    <3>1. PICK now : now = IF Replying(c) THEN Answering(k, messages[k.original]) ELSE k
      OBVIOUS
    <3>2. Onward(c, now)
      BY <1>1, <2>2, <3>1 DEF Look
    <3>. QED BY <2>1, <2>2, <3>1, <3>2, Repliers, AnswerRow
  <2>3. CASE ~Readable(c)
    BY <1>1, <2>1, <2>3, LookAgainRow DEF Look, Reading
  <2>. QED BY <2>2, <2>3
<1>2. CASE Mark(c)
  <2>1. k # Idle /\ k.plan[1] = "mark" /\ Basic(k)
    BY <1>2 DEF Mark, At
  <2>2. CASE Onward(c, k)
    <3>1. k.plan[1] \notin {"vacant", "resolve", "look", "again"}
      BY <2>1
    <3>. QED BY <2>1, <2>2, <3>1, Plainly DEF Gone
  <2>3. CASE ~Onward(c, k)
    BY <1>2, <2>1, <2>3, LookAgainRow DEF Mark, Reading
  <2>. QED BY <2>2, <2>3
<1>3. CASE Again(c)
  <2>1. k # Idle /\ k.plan[1] = "again" /\ Basic(k)
    BY <1>3 DEF Again, At
  <2>2. CASE Readable(c)
    <3>1. PICK now : now = Answering(k, messages[k.original])
      OBVIOUS
    <3>2. Onward(c, now)
      BY <1>3, <2>2, <3>1 DEF Again
    <3>3. Ahead(k.plan, "resolve")
      BY <2>1, HeadFirst DEF Basic, Pings
    <3>. QED BY <2>1, <2>2, <3>1, <3>2, <3>3, AnswerRow
  <2>3. CASE ~Readable(c)
    BY <1>3, <2>1, <2>3, Stopped DEF Again, Gone
  <2>. QED BY <2>2, <2>3
<1>. QED BY <1>1, <1>2, <1>3

\* What the desk keeps aside in a call.
LEMMA AsideRow ==
  ASSUME NEW c \in Clients, DOMAIN call = Clients, NEW k, k = call[c], k # Idle, Basic(k),
         k.plan[1] \notin {"vacant", "resolve", "look", "again"}, NEW now,
         Kept(k, now), now.plan = k.plan, now.as = k.as, now.to = k.to,
         now.asked = k.asked, now.thread = k.thread, now.since = k.since,
         k.plan[1] # "hop" => now.list = k.list, Onward(c, now)
  PROVE  Gone(c, k)
<1>1. CASE call'[c] # Idle
  <2>1. PICK q : /\ q = call'[c] /\ Going(k, q) /\ Less(k, q)
                 /\ q.as = now.as /\ q.to = now.to
                 /\ q.asked = now.asked /\ q.thread = now.thread
                 /\ q.since = now.since /\ q.list = now.list
    BY <1>1, OnwardRow
  <2>2. Changing(c, k, q)
    BY <2>1 DEF Changing
  <2>. QED BY <2>1, <2>2 DEF Gone
<1>. QED BY <1>1 DEF Gone

\* The next of the names.
LEMMA NextNameRow ==
  ASSUME NEW c \in Clients, DOMAIN call = Clients, NEW k, k = call[c], k # Idle, Basic(k),
         k.plan[1] = "supersede", Continue(c, NextName(k))
  PROVE  Gone(c, k)
<1>1. PICK q : q = NextName(k)
  OBVIOUS
<1>2. /\ DOMAIN q = CallFields /\ q.plan \in {k.plan, Tail(k.plan)} /\ q.as = k.as
      /\ q.to = k.to /\ q.asked = k.asked /\ q.thread = k.thread /\ Kept(k, q)
      /\ q.since = k.since
  BY <1>1 DEF Basic, CallFields, Kept, NextName
<1>3. ASSUME q.plan # <<>> PROVE Going(k, q)
  <2>1. CASE q.plan = k.plan
    BY <1>2, <2>1, SameGoes DEF Lasting
  <2>2. CASE q.plan = Tail(k.plan)
    BY <1>2, <1>3, <2>2, TailGoes
  <2>. QED BY <1>2, <2>1, <2>2
<1>4. Changing(c, k, q)
  BY <1>2 DEF Changing
<1>. QED BY <1>1, <1>3, <1>4, ContinueRow

LEMMA SupersedeRow ==
  ASSUME NEW c \in Clients, DOMAIN call = Clients, NEW k, k = call[c],
         k # Idle => Basic(k), Supersede(c)
  PROVE  Gone(c, k)
<1>1. k # Idle /\ k.plan[1] = "supersede" /\ Basic(k)
  BY DEF Supersede, At
<1>2. \/ Stop(c) \/ Continue(c, NextName(k))
      \/ Continue(c, [k EXCEPT !.plan = <<"retire">> \o @])
  BY DEF Supersede
<1>3. CASE Stop(c)
  BY <1>1, <1>3, Stopped DEF Gone
<1>4. CASE Continue(c, NextName(k))
  BY <1>1, <1>4, NextNameRow
<1>5. CASE Continue(c, [k EXCEPT !.plan = <<"retire">> \o @])
  <2>1. /\ DOMAIN k = CallFields /\ k.plan # <<>> /\ Planned(Pings(k), k.plan)
        /\ Pings(k) \in BOOLEAN
    BY <1>1 DEF Basic, Pings
  <2>. DEFINE plan == <<"retire">> \o k.plan
  <2>2. PICK q : q = [k EXCEPT !.plan = plan]
    OBVIOUS
  <2>3. /\ DOMAIN q = CallFields /\ q.plan = plan /\ q.as = k.as
        /\ q.to = k.to /\ q.asked = k.asked /\ q.thread = k.thread /\ Kept(k, q)
        /\ q.since = k.since /\ q.list = k.list
    BY <2>1, <2>2 DEF CallFields, Kept
  <2>4. \A t : Ahead(k.plan, t) => t = "supersede"
    BY <1>1, <2>1, HeadFirst DEF Follows
  <2>5. /\ Planned(Pings(k), plan) /\ plan # <<>>
        /\ plan[1] = "retire" /\ \A t : Ahead(plan, t) <=> t = "retire" \/ Ahead(k.plan, t)
    <3>1. "retire" \in Steps /\ Follows(Pings(k), "retire", "supersede")
      BY DEF Steps, Follows, Renaming, Reading, Sending
    <3>. QED BY <2>1, <2>4, <3>1, PutBefore
  <2>6. Continue(c, q)
    BY <1>5, <2>2
  <2>7. Ahead(k.plan, "supersede")
    BY <1>1, <2>1, HeadFirst
  <2>. HIDE DEF plan
  <2>8. Still(k, q)
    BY <1>1, <2>3, <2>5 DEF Still, Lasting
  <2>9. Going(k, q)
    <3>1. Planned(Pings(k), q.plan) /\ q.plan # <<>> /\ q.plan[1] = "retire"
      BY <2>3, <2>5
    <3>2. Ahead(q.plan, "supersede")
      BY <2>3, <2>5, <2>7
    <3>. QED BY <1>1, <2>3, <2>8, <3>1, <3>2 DEF Going
  <2>10. Changing(c, k, q)
    BY <1>1, <2>3 DEF Changing
  <2>. QED BY <1>1, <2>6, <2>9, <2>10, ContinueRow
<1>. QED BY <1>2, <1>3, <1>4, <1>5

LEMMA RetireRow ==
  ASSUME NEW c \in Clients, DOMAIN call = Clients, NEW k, k = call[c],
         k # Idle => Basic(k), Retire(c)
  PROVE  Gone(c, k)
<1>1. /\ k # Idle /\ k.plan[1] = "retire" /\ Basic(k)
      /\ Continue(c, NextName([k EXCEPT !.plan = Tail(@)]))
  BY DEF Retire, At
<1>2. /\ DOMAIN k = CallFields /\ k.plan # <<>> /\ Planned(Pings(k), k.plan)
      /\ Pings(k) \in BOOLEAN
  BY <1>1 DEF Basic, Pings
<1>. DEFINE rest == Tail(k.plan)
<1>3. PICK q : q = NextName([k EXCEPT !.plan = rest])
  OBVIOUS
<1>4. /\ DOMAIN q = CallFields /\ q.plan \in {rest, Tail(rest)} /\ q.as = k.as
      /\ q.to = k.to /\ q.asked = k.asked /\ q.thread = k.thread /\ Kept(k, q)
      /\ q.since = k.since
  BY <1>2, <1>3 DEF CallFields, Kept, NextName
<1>5. Planned(Pings(k), rest) /\ \A s : Ahead(rest, s) <=> Ahead(k.plan, s) /\ s # "retire"
  BY <1>1, <1>2, TailPlanned
<1>6. \A t : Ahead(k.plan, t) => t \in {"retire", "supersede"}
  BY <1>1, <1>2, HeadFirst DEF Follows
<1>7. Ahead(rest, "supersede") /\ rest # <<>>
  <2>1. Ahead(rest, "supersede")
    BY <1>1, <1>2, <1>5, HeadFirst DEF Basic
  <2>. QED BY <2>1, NothingPlanned
<1>8. Continue(c, q)
  BY <1>1, <1>3
<1>. HIDE DEF rest
<1>9. Planned(Pings(k), Tail(rest)) /\ \A t : ~Ahead(Tail(rest), t)
  <2>1. rest[1] = "supersede"
    BY <1>2, <1>5, <1>6, <1>7, HeadFirst
  <2>. QED BY <1>2, <1>5, <1>6, <1>7, <2>1, TailPlanned
<1>10. /\ Planned(Pings(k), q.plan)
       /\ \A t : Ahead(q.plan, t) => t = "supersede"
  BY <1>4, <1>5, <1>6, <1>7, <1>9
<1>11. Still(k, q)
  BY <1>1, <1>6, <1>10 DEF Still, Lasting
<1>12. q.plan # <<>> => Going(k, q)
  BY <1>4, <1>10, <1>11 DEF Going
<1>13. Changing(c, k, q)
  BY <1>1, <1>4 DEF Changing
<1>. QED BY <1>1, <1>8, <1>12, <1>13, ContinueRow

LEMMA RenamingRows ==
  ASSUME NEW c \in Clients, DOMAIN call = Clients, NEW k, k = call[c],
         k # Idle => Basic(k), Vacant(c) \/ Hop(c) \/ Carry(c) \/ Profile(c)
  PROVE  Gone(c, k)
<1>1. CASE Vacant(c)
  <2>1. k # Idle /\ k.plan[1] = "vacant" /\ Basic(k)
    BY <1>1 DEF Vacant, At
  <2>2. PICK new : new = ParseAddress(k.to)
    OBVIOUS
  <2>3. CASE /\ new # Malformed /\ IsSpecific(new) /\ new # k.me
             /\ Onward(c, [k EXCEPT !.as = new, !.asked = FormatAddress(new)])
    <3>1. PICK now : now = [k EXCEPT !.as = new, !.asked = FormatAddress(new)]
      OBVIOUS
    <3>2. Kept(k, now) /\ now.plan = k.plan /\ now.as = new /\ now.to = k.to
          /\ now.thread = k.thread
          /\ now.since = k.since /\ now.list = k.list
      BY <2>1, <3>1 DEF Basic, CallFields, Kept
    <3>3. new \in Identities
      BY <2>2, <2>3, ParsesToOne
    <3>5. Onward(c, now)
      BY <2>3, <3>1
    <3>4. CASE call'[c] # Idle
      <4>1. PICK q : /\ q = call'[c] /\ Going(k, q) /\ Less(k, q)
                     /\ q.as = now.as /\ q.to = now.to
                     /\ q.asked = now.asked /\ q.thread = now.thread
                     /\ q.since = now.since /\ q.list = now.list
        BY <2>1, <3>2, <3>4, <3>5, OnwardRow
      <4>2. Changing(c, k, q)
        BY <2>1, <2>2, <2>3, <3>2, <3>3, <4>1 DEF Changing
      <4>. QED BY <2>1, <4>1, <4>2 DEF Gone
    <3>. QED BY <2>1, <3>4 DEF Gone
  <2>4. CASE Stop(c)
    BY <2>1, <2>4, Stopped DEF Gone
  <2>. QED BY <1>1, <2>2, <2>3, <2>4 DEF Vacant
<1>2. CASE Hop(c)
  <2>1. k # Idle /\ k.plan[1] = "hop" /\ Basic(k)
    BY <1>2 DEF Hop, At
  <2>2. CASE Onward(c, [k EXCEPT !.list = <<>>])
    <3>1. PICK now : now = [k EXCEPT !.list = <<>>]
      OBVIOUS
    <3>2. Kept(k, now) /\ now.plan = k.plan /\ now.as = k.as /\ now.to = k.to
          /\ now.asked = k.asked /\ now.thread = k.thread /\ now.since = k.since
      BY <2>1, <3>1 DEF Basic, CallFields, Kept
    <3>. QED BY <2>1, <2>2, <3>1, <3>2, AsideRow
  <2>3. CASE Stop(c)
    BY <2>1, <2>3, Stopped DEF Gone
  <2>4. CASE Continue(c, [k EXCEPT !.list = Append(@, k.asked),
                                   !.asked = forwards[k.asked].new])
    <3>1. PICK to : to = forwards[k.asked].new
      OBVIOUS
    <3>2. PICK q : q = [k EXCEPT !.list = Append(@, k.asked), !.asked = to]
      OBVIOUS
    <3>3. Kept(k, q) /\ q.plan = k.plan /\ q.as = k.as /\ q.to = k.to
          /\ q.thread = k.thread /\ q.since = k.since
      BY <2>1, <3>2 DEF Basic, CallFields, Kept
    <3>4. Going(k, q)
      BY <2>1, <3>3, SameGoes DEF Lasting
    <3>5. Changing(c, k, q)
      BY <2>1, <3>3 DEF Changing
    <3>. QED BY <2>1, <2>4, <3>1, <3>2, <3>4, <3>5, ContinueRow
  <2>. QED BY <1>2, <2>2, <2>3, <2>4 DEF Hop
<1>3. CASE Carry(c)
  <2>1. k # Idle /\ k.plan[1] = "carry" /\ Basic(k)
    BY <1>3 DEF Carry, At
  <2>2. PICK entry : entry = Whois(k.me)
    OBVIOUS
  <2>3. PICK now : now = [k EXCEPT !.entry = entry]
    OBVIOUS
  <2>4. Kept(k, now) /\ now.plan = k.plan /\ now.as = k.as /\ now.to = k.to
        /\ now.asked = k.asked /\ now.thread = k.thread
        /\ now.since = k.since /\ now.list = k.list
    BY <2>1, <2>3 DEF Basic, CallFields, Kept
  <2>5. Onward(c, now)
    BY <1>3, <2>2, <2>3 DEF Carry
  <2>. QED BY <2>1, <2>4, <2>5, AsideRow
<1>4. CASE Profile(c)
  <2>1. k # Idle /\ k.plan[1] = "profile" /\ Basic(k)
    BY <1>4 DEF Profile, At
  <2>2. PICK card : card = LET entry == Whois(k.me)
                           IN  IF entry = None THEN None ELSE entry.card
    OBVIOUS
  <2>3. PICK now : now = [k EXCEPT !.card = card]
    OBVIOUS
  <2>4. Kept(k, now) /\ now.plan = k.plan /\ now.as = k.as /\ now.to = k.to
        /\ now.asked = k.asked /\ now.thread = k.thread
        /\ now.since = k.since /\ now.list = k.list
    BY <2>1, <2>3 DEF Basic, CallFields, Kept
  <2>5. Onward(c, now)
    BY <1>4, <2>2, <2>3 DEF Profile
  <2>. QED BY <2>1, <2>4, <2>5, AsideRow
<1>. QED BY <1>1, <1>2, <1>3, <1>4

\* Whatever the step of a call is, and the calls of everybody else.
LEMMA Stepped ==
  ASSUME NEW c \in Clients, DOMAIN call = Clients, NEW k, k = call[c],
         k # Idle => Basic(k), Step(c)
  PROVE  /\ Gone(c, k) /\ DOMAIN call' = Clients
         /\ \A d \in Clients \ {c} :
              call'[d] = IF call[d] = Idle THEN Idle ELSE [call[d] EXCEPT !.alone = FALSE]
<1>1. Gone(c, k)
  <2>1. CASE Abandon(c)
    BY <2>1, Stopped DEF Abandon, Gone
  <2>2. CASE Open(c) \/ Touch(c) \/ Insert(c) \/ Register(c) \/ Move(c)
    BY <2>2, PlainRows
  <2>. QED BY <2>1, <2>2, SendingRows, ReadingRows, SupersedeRow, RetireRow, RenamingRows
        DEF Step
<1>2. \E now : Continue(c, now)
  BY DEF Step, Abandon, Open, Touch, Resolve, Join, Party, Insert, Look, Mark, Again,
         Register, Profile, Supersede, Retire, Vacant, Hop, Carry, Move, LookAgain, Onward,
         Stop
<1>. QED BY <1>1, <1>2, Continued

(***************************************************************************)
(* The shape of calls and messages                                         *)
(***************************************************************************)

Base(c, k) ==
  /\ Basic(k)
  /\ k.me \in Identities /\ k.as \in Identities
  /\ Ahead(k.plan, "vacant") => Ahead(k.plan, "move")
  /\ ~Ahead(k.plan, "move") => SameAgent(k.as, k.me)
  /\ k.since \in Nat /\ k.since <= day
  /\ Ahead(k.plan, "resolve") => Ahead(k.plan, "insert")
  /\ Ahead(k.plan, "move") =>
       /\ "mcp" \in Desk[c]
       /\ Ahead(k.plan, "vacant") => k.to \in NewNames
       /\ ~Ahead(k.plan, "vacant") =>
            /\ k.as # k.me
            /\ \E raw \in NewNames : k.as = ParseAddress(raw)
  /\ Ahead(k.plan, "insert") => k.id \in 1 .. drafted
  /\ k.original \in 0 .. drafted
  /\ Ahead(k.plan, "look") \/ Ahead(k.plan, "mark") => k.original # 0

MessageFields == {"from", "target", "thread", "created", "by", "for", "root",
                  "late"}

ShapeInv ==
  /\ who \in [Clients -> Identities] /\ DOMAIN call = Clients
  /\ drafted \in Nat /\ day \in Nat
  /\ \A c \in Clients : call[c] = Idle \/ Base(c, call[c])
  /\ \A i \in DOMAIN messages : DOMAIN messages[i] = MessageFields /\ i \in 1 .. drafted

LEMMA NotIdle ==
  ASSUME NEW k, DOMAIN k = CallFields, k.plan # <<>>
  PROVE  k # Idle
BY DEF Idle

LEMMA BaseStarts ==
  ASSUME NEW c \in Clients, NEW k, Starts(c, k), drafted \in Nat, drafted' \in Nat,
         day \in Nat, day' = day
  PROVE  Base(c, k)'
<1>1. /\ DOMAIN k = CallFields /\ Planned(Pings(k), k.plan) /\ Ahead(k.plan, "open")
      /\ ~Ahead(k.plan, "retire") /\ ~Ahead(k.plan, "again")
  BY DEF Starts
<1>2. k.plan # <<>>
  BY <1>1, NothingPlanned
<1>3. Basic(k)
  BY <1>1, <1>2 DEF Basic
<1>4. Ahead(k.plan, "insert") => k.id \in 1 .. drafted'
  <2>1. Ahead(k.plan, "insert") => k.id = drafted'
    BY DEF Starts
  <2>2. Ahead(k.plan, "insert") => drafted' # 0
    BY DEF Starts
  <2>. QED BY <2>1, <2>2
<1>5. Ahead(k.plan, "move") =>
        /\ "mcp" \in Desk[c] /\ Ahead(k.plan, "vacant") /\ k.to \in NewNames
  BY DEF Starts
<1>8. Ahead(k.plan, "vacant") => Ahead(k.plan, "move")
  BY DEF Starts
<1>6. /\ Ahead(k.plan, "resolve") => Ahead(k.plan, "insert")
      /\ k.original \in 0 .. drafted'
  BY DEF Starts
<1>7. /\ k.me \in Identities /\ k.as \in Identities /\ SameAgent(k.as, k.me)
      /\ k.since \in Nat /\ k.since <= day'
  BY DEF Starts, Own
<1>9. Ahead(k.plan, "look") \/ Ahead(k.plan, "mark") => k.original # 0
  BY DEF Starts
<1>. QED BY <1>3, <1>4, <1>5, <1>6, <1>7, <1>8, <1>9 DEF Base

LEMMA BaseOthers ==
  ASSUME NEW c \in Clients, NEW k, Base(c, k), NEW q, q = [k EXCEPT !.alone = FALSE],
         drafted \in Nat, drafted' \in Nat, drafted <= drafted', day' = day
  PROVE  Base(c, q)' /\ q # Idle
<1>1. DOMAIN k = CallFields
  BY DEF Base, Basic
<1>2. /\ DOMAIN q = CallFields /\ q.plan = k.plan /\ q.me = k.me /\ q.as = k.as
      /\ q.id = k.id /\ q.original = k.original /\ q.to = k.to /\ q.since = k.since
  BY <1>1 DEF CallFields
<1>3. Basic(q)
  BY <1>2 DEF Base, Basic, Pings
<1>4. (Ahead(k.plan, "insert") => k.id \in 1 .. drafted') /\ k.original \in 0 .. drafted'
  BY DEF Base
<1>5. q # Idle
  BY <1>2, <1>3, NotIdle DEF Basic
<1>. QED BY <1>2, <1>3, <1>4, <1>5 DEF Base

\* What is still to come was to come before.
LEMMA StillAhead ==
  ASSUME NEW c \in Clients, NEW k, Base(c, k), NEW q, Going(k, q)
  PROVE  /\ Ahead(q.plan, "insert") => Ahead(k.plan, "insert") /\ k.plan[1] # "insert"
         /\ Ahead(q.plan, "mark") /\ ~Ahead(q.plan, "look") =>
              /\ Ahead(k.plan, "mark") /\ ~Back(k, q)
              /\ ~Ahead(k.plan, "look") \/ k.plan[1] = "look"
         /\ ~Ahead(q.plan, "open")
<1>. DEFINE step == k.plan[1]
<1>1. /\ k.plan # <<>> /\ Planned(Pings(k), k.plan) /\ Pings(k) \in BOOLEAN
      /\ Ahead(k.plan, "resolve") => Ahead(k.plan, "insert")
  BY DEF Base, Basic, Pings
<1>2. \A t : Ahead(k.plan, t) => t = step \/ Follows(Pings(k), step, t)
  BY <1>1, HeadFirst
<1>. HIDE DEF step
<1>3. Less(k, q) \/ Still(k, q) \/ Back(k, q)
  BY DEF Going
<1>4. CASE Less(k, q) /\ ~Back(k, q)
  BY <1>2, <1>4 DEF Less, Follows, step
<1>5. CASE Still(k, q) /\ ~Back(k, q)
  BY <1>2, <1>5 DEF Still, Lasting, Follows, step
<1>6. CASE Back(k, q)
  BY <1>1, <1>6 DEF Back, Reading
<1>. QED BY <1>3, <1>4, <1>5, <1>6

LEMMA BaseGoes ==
  ASSUME NEW c \in Clients, NEW k, Base(c, k), NEW q, Going(k, q), Changing(c, k, q),
         drafted \in Nat, drafted' = drafted, day \in Nat, day' = day
  PROVE  Base(c, q)'
<1>. DEFINE step == k.plan[1]
<1>1. /\ DOMAIN q = CallFields /\ q.me = k.me /\ q.id = k.id /\ q.original = k.original
      /\ Pings(q) = Pings(k) /\ Pings(k) \in BOOLEAN
      /\ q.plan # <<>> /\ Planned(Pings(k), q.plan)
      /\ Ahead(q.plan, "retire") => q.plan[1] = "retire" /\ Ahead(q.plan, "supersede")
  BY DEF Going, Kept, Pings
<1>2. /\ k.plan # <<>> /\ Planned(Pings(k), k.plan)
      /\ Ahead(k.plan, "again") => Ahead(k.plan, "resolve")
      /\ Ahead(k.plan, "resolve") => Ahead(k.plan, "insert")
      /\ Ahead(k.plan, "insert") => k.id \in 1 .. drafted'
      /\ k.original \in 0 .. drafted'
  BY DEF Base, Basic
<1>3. \A t : Ahead(k.plan, t) => t = step \/ Follows(Pings(k), step, t)
  BY <1>1, <1>2, HeadFirst
<1>. HIDE DEF step
<1>4. Less(k, q) \/ Still(k, q) \/ Back(k, q)
  BY DEF Going
<1>5. Ahead(q.plan, "again") => Ahead(q.plan, "resolve")
  <2>1. CASE Less(k, q)
    BY <1>2, <1>3, <2>1 DEF Less, Follows, step
  <2>2. CASE Still(k, q)
    BY <1>2, <2>2 DEF Still, Lasting
  <2>3. CASE Back(k, q)
    BY <2>3 DEF Back
  <2>. QED BY <1>4, <2>1, <2>2, <2>3
<1>6. Ahead(q.plan, "resolve") => Ahead(q.plan, "insert")
  <2>1. CASE Less(k, q)
    BY <1>2, <1>3, <2>1 DEF Less, Follows, step
  <2>2. CASE Still(k, q)
    BY <1>2, <2>2 DEF Still, Lasting
  <2>3. CASE Back(k, q)
    BY <2>3 DEF Back
  <2>. QED BY <1>4, <2>1, <2>2, <2>3
<1>7. Ahead(q.plan, "insert") => Ahead(k.plan, "insert")
  BY StillAhead
<1>9. ASSUME Ahead(q.plan, "move")
      PROVE  /\ "mcp" \in Desk[c]
             /\ Ahead(q.plan, "vacant") => q.to \in NewNames
             /\ ~Ahead(q.plan, "vacant") =>
                   /\ q.as # q.me
                   /\ \E raw \in NewNames : q.as = ParseAddress(raw)
  <2>1. ~Back(k, q)
    BY <1>9 DEF Back
  <2>2. Ahead(k.plan, "move") /\ step # "move"
    BY <1>4, <1>9, <2>1 DEF Less, Still, Lasting, step
  <2>3. step \in Renaming \cup {"open"}
    BY <1>3, <2>2 DEF Follows, Renaming
  <2>4. /\ "mcp" \in Desk[c]
        /\ Ahead(k.plan, "vacant") => k.to \in NewNames
        /\ ~Ahead(k.plan, "vacant") =>
              /\ k.as # k.me
              /\ \E raw \in NewNames : k.as = ParseAddress(raw)
    BY <2>2 DEF Base
  <2>5. q.to = k.to
    BY <2>3 DEF Changing, Renaming, step
  <2>6. CASE step # "vacant"
    <3>1. Ahead(q.plan, "vacant") <=> Ahead(k.plan, "vacant")
      BY <1>4, <2>1, <2>6 DEF Less, Still, Lasting, step
    <3>2. q.as = k.as
      BY <2>6 DEF Changing, step
    <3>. QED BY <1>1, <2>4, <2>5, <3>1, <3>2
  <2>7. CASE step = "vacant"
    <3>1. Ahead(k.plan, "vacant")
      BY <1>1, <1>2, <2>7, HeadFirst DEF step
    <3>2. q.as \in Identities /\ q.as # k.me /\ q.as = ParseAddress(k.to)
      BY <2>7 DEF Changing, step
    <3>3. ~Ahead(q.plan, "vacant")
      BY <1>4, <2>1, <2>7 DEF Less, Still, Lasting, step
    <3>. QED BY <1>1, <2>4, <3>1, <3>2, <3>3
  <2>. QED BY <2>6, <2>7
<1>10. Basic(q)
  BY <1>1, <1>5 DEF Basic
<1>11. /\ Ahead(q.plan, "insert") => q.id \in 1 .. drafted'
       /\ q.original \in 0 .. drafted'
  BY <1>1, <1>2, <1>7
<1>12. /\ q.me \in Identities /\ q.as \in Identities
       /\ q.since \in Nat /\ q.since <= day'
  BY <1>1 DEF Base, Changing
<1>13. ASSUME ~Ahead(q.plan, "move") PROVE SameAgent(q.as, q.me)
  <2>1. CASE step = "move"
    <3>1. \A t : Ahead(k.plan, t) => t = "move"
      BY <1>3, <2>1 DEF Follows
    <3>2. q.plan = <<>>
      <4>1. \A t : ~Ahead(q.plan, t)
        BY <1>4, <2>1, <3>1 DEF Less, Still, Lasting, Back, Reading, step
      <4>. QED BY <1>1, <4>1, PlansGoOn DEF Planned
    <3>. QED BY <1>1, <3>2
  <2>2. CASE step # "move"
    <3>1. ~Ahead(k.plan, "move")
      <4>1. ASSUME Back(k, q), Ahead(k.plan, "move") PROVE FALSE
        BY <1>3, <4>1 DEF Back, Reading, Follows, Renaming, step
      <4>. QED BY <1>4, <1>13, <2>2, <4>1 DEF Less, Still, Lasting, step
    <3>2. step # "vacant"
      BY <1>1, <1>2, <3>1, HeadFirst DEF Base, step
    <3>. QED BY <1>1, <3>1, <3>2 DEF Base, Changing, step
  <2>. QED BY <2>1, <2>2
<1>14. Ahead(q.plan, "vacant") => Ahead(q.plan, "move")
  <2>1. ASSUME Ahead(q.plan, "vacant") PROVE Ahead(k.plan, "vacant") /\ ~Back(k, q)
    BY <1>4, <2>1 DEF Less, Still, Lasting, Back
  <2>2. Ahead(k.plan, "vacant") => Ahead(k.plan, "move") /\ step # "move"
    BY <1>3 DEF Base, Follows
  <2>. QED BY <1>4, <2>1, <2>2 DEF Less, Still, Lasting, step
<1>15. Ahead(q.plan, "look") \/ Ahead(q.plan, "mark") => q.original # 0
  <2>1. Ahead(q.plan, "look") \/ Ahead(q.plan, "mark") =>
          Ahead(k.plan, "look") \/ Ahead(k.plan, "mark")
    BY <1>4 DEF Less, Still, Lasting, Back
  <2>. QED BY <1>1, <2>1 DEF Base
<1>. QED BY <1>6, <1>9, <1>10, <1>11, <1>12, <1>13, <1>14, <1>15 DEF Base

\* What a step leaves alone.
LEMMA Unwritten ==
  ASSUME NEW c \in Clients, Step(c)
  PROVE  /\ drafted' = drafted /\ day' = day
         /\ ~Move(c) =>
              who' = who /\ forwards' = forwards /\ left' = left /\ sharing' = sharing
         /\ ~Open(c) /\ ~Insert(c) /\ ~Move(c) => messages' = messages
         /\ ~Open(c) /\ ~Mark(c) /\ ~Move(c) => reads' = reads
         /\ ~Open(c) /\ ~Mark(c) => handed' = handed
BY DEF Step, Abandon, Open, Touch, Resolve, Join, Party, Insert, Look, Mark, Again,
       Register, Profile, Supersede, Retire, Vacant, Hop, Carry, Move, PurgeExpired, stored,
       history

LEMMA Rows ==
  ASSUME NEW c \in Clients, ShapeInv, NEW k, k = call[c], Step(c)
  PROVE  /\ k # Idle /\ Base(c, k)
         /\ \/ call'[c] = Idle
            \/ \E q : q = call'[c] /\ q # Idle /\ Going(k, q) /\ Changing(c, k, q)
         /\ DOMAIN call' = Clients
         /\ \A d \in Clients \ {c} :
              call'[d] = IF call[d] = Idle THEN Idle ELSE [call[d] EXCEPT !.alone = FALSE]
<1>1. DOMAIN call = Clients /\ (k # Idle => Base(c, k) /\ Basic(k))
  BY DEF ShapeInv, Base
<1>2. /\ Gone(c, k) /\ DOMAIN call' = Clients
      /\ \A d \in Clients \ {c} :
           call'[d] = IF call[d] = Idle THEN Idle ELSE [call[d] EXCEPT !.alone = FALSE]
  BY <1>1, Stepped
<1>3. \A q : Going(k, q) => q # Idle
  BY NotIdle DEF Going, Kept
<1>. QED BY <1>1, <1>2, <1>3 DEF Gone

\* Whoever renames itself takes a name that was asked for.
LEMMA Taken ==
  ASSUME NEW c \in Clients, ShapeInv, Move(c)
  PROVE  /\ call[c].as \in Identities /\ call[c].as # call[c].me /\ "mcp" \in Desk[c]
         /\ \E raw \in NewNames : call[c].as = ParseAddress(raw)
         /\ call'[c] = Idle
<1>1. PICK k : k = call[c]
  OBVIOUS
<1>2. k # Idle /\ k.plan[1] = "move" /\ Base(c, k) /\ Basic(k)
  BY <1>1 DEF Move, At, ShapeInv, Base
<1>3. k.plan # <<>> /\ Planned(Pings(k), k.plan) /\ Pings(k) \in BOOLEAN
  BY <1>2 DEF Basic, Pings
<1>4. Ahead(k.plan, "move") /\ \A t : Ahead(k.plan, t) => t = "move"
  BY <1>2, <1>3, HeadFirst DEF Follows
<1>5. ~Ahead(k.plan, "vacant")
  BY <1>4
<1>6. call'[c] = Idle
  <2>1. Tail(k.plan) = <<>>
    <3>1. \A t : ~Ahead(Tail(k.plan), t) /\ Tail(k.plan) \in Seq(Steps)
      BY <1>2, <1>3, <1>4, TailPlanned DEF Planned
    <3>. QED BY <3>1, PlansGoOn
  <2>2. PICK now : now = [k EXCEPT !.plan = Tail(@)]
    OBVIOUS
  <2>3. now.plan = <<>>
    BY <1>2, <2>1, <2>2 DEF Basic, CallFields
  <2>4. Continue(c, now)
    BY <1>1, <2>2 DEF Move, Onward
  <2>. QED BY <2>3, <2>4, Continued DEF ShapeInv
<1>. QED BY <1>1, <1>2, <1>4, <1>5, <1>6 DEF Base

LEMMA ShapeStep ==
  ASSUME ShapeInv, NEW c \in Clients, Step(c)
  PROVE  ShapeInv'
<1>1. /\ drafted' = drafted /\ drafted \in Nat /\ DOMAIN call = Clients
      /\ day' = day /\ day \in Nat
  BY Unwritten DEF ShapeInv
<1>2. who' \in [Clients -> Identities]
  <2>1. CASE Move(c)
    BY <2>1, Taken DEF Move, ShapeInv
  <2>2. CASE ~Move(c)
    BY <2>2, Unwritten DEF ShapeInv
  <2>. QED BY <2>1, <2>2
<1>3. PICK k : k = call[c]
  OBVIOUS
<1>4. /\ k # Idle /\ Base(c, k)
      /\ \/ call'[c] = Idle
         \/ \E q : q = call'[c] /\ q # Idle /\ Going(k, q) /\ Changing(c, k, q)
      /\ DOMAIN call' = Clients
      /\ \A d \in Clients \ {c} :
           call'[d] = IF call[d] = Idle THEN Idle ELSE [call[d] EXCEPT !.alone = FALSE]
  BY <1>3, Rows
<1>5. call'[c] = Idle \/ Base(c, call[c])'
  <2>1. CASE call'[c] # Idle
    <3>1. PICK q : q = call'[c] /\ Going(k, q) /\ Changing(c, k, q)
      BY <1>4, <2>1
    <3>2. Base(c, q)'
      BY <1>1, <1>4, <3>1, BaseGoes
    <3>. QED BY <3>1, <3>2
  <2>. QED BY <2>1
<1>6. ASSUME NEW d \in Clients \ {c} PROVE call'[d] = Idle \/ Base(d, call[d])'
  <2>1. CASE call[d] # Idle
    <3>1. PICK j : j = call[d]
      OBVIOUS
    <3>2. PICK q : q = [j EXCEPT !.alone = FALSE]
      OBVIOUS
    <3>3. Base(d, j)
      BY <2>1, <3>1 DEF ShapeInv
    <3>4. Base(d, q)'
      BY <1>1, <3>2, <3>3, BaseOthers
    <3>5. call'[d] = q
      BY <1>4, <2>1, <3>1, <3>2
    <3>. QED BY <3>4, <3>5
  <2>. QED BY <1>4, <2>1
<1>7. ASSUME NEW i \in DOMAIN messages'
      PROVE  DOMAIN messages'[i] = MessageFields /\ i \in 1 .. drafted'
  <2>1. CASE Open(c)
    BY <1>1, <1>7, <2>1 DEF Open, PurgeExpired, Keep, ShapeInv
  <2>2. CASE Insert(c)
    <3>1. At(c, "insert") /\ k.plan[1] = "insert"
      BY <1>3, <2>2 DEF Insert, At
    <3>2. k.id \in 1 .. drafted
      <4>1. Planned(Pings(k), k.plan) /\ k.plan # <<>> /\ Pings(k) \in BOOLEAN
        BY <1>4 DEF Base, Basic, Pings
      <4>2. Ahead(k.plan, "insert")
        BY <3>1, <4>1, HeadFirst
      <4>. QED BY <1>4, <4>2 DEF Base
    <3>3. PICK entry : /\ DOMAIN entry = MessageFields
                       /\ messages' = messages \/ messages' = Put(messages, k.id, entry)
      BY <1>3, <2>2 DEF Insert, MessageFields
    <3>. QED BY <1>1, <1>7, <3>2, <3>3 DEF Put, ShapeInv
  <2>3. CASE Move(c)
    <3>1. PICK old, new : messages' = MoveMail(old, new)
      BY <2>3 DEF Move
    <3>2. DOMAIN messages' = DOMAIN messages /\ DOMAIN messages'[i] = DOMAIN messages[i]
      BY <1>7, <3>1 DEF MoveMail
    <3>. QED BY <1>1, <1>7, <3>2 DEF ShapeInv
  <2>4. CASE ~Open(c) /\ ~Insert(c) /\ ~Move(c)
    BY <1>1, <1>7, <2>4, Unwritten DEF ShapeInv
  <2>. QED BY <2>1, <2>2, <2>3, <2>4
<1>. QED BY <1>1, <1>2, <1>4, <1>5, <1>6, <1>7 DEF ShapeInv

LEMMA ShapeRequest ==
  ASSUME ShapeInv, NEW c \in Clients, Request(c)
  PROVE  ShapeInv'
<1>1. drafted \in Nat /\ who[c] \in Identities /\ DOMAIN call = Clients
  BY DEF ShapeInv
<1>2. /\ call[c] = Idle /\ drafted' \in Nat /\ drafted <= drafted'
      /\ \E k : Starts(c, k) /\ Begin(c, k)
  BY <1>1, Begun
<1>3. PICK k : Starts(c, k) /\ Begin(c, k)
  BY <1>2
<1>9. day \in Nat /\ day' = day
  BY <1>3 DEF ShapeInv, Begin
<1>4. Base(c, k)'
  BY <1>1, <1>2, <1>3, <1>9, BaseStarts
<1>5. call' = [call EXCEPT ![c] = k] /\ who' = who /\ messages' = messages
  BY <1>3 DEF Begin, stored
<1>6. ASSUME NEW d \in Clients PROVE call'[d] = Idle \/ Base(d, call[d])'
  <2>1. CASE d = c
    BY <1>1, <1>4, <1>5, <2>1
  <2>2. CASE d # c /\ call[d] # Idle
    <3>1. PICK j : j = call[d]
      OBVIOUS
    <3>2. Base(d, j)
      BY <2>2, <3>1 DEF ShapeInv
    <3>3. Base(d, j)'
      BY <1>1, <1>2, <1>9, <3>2 DEF Base
    <3>4. call'[d] = j
      BY <1>1, <1>5, <2>2, <3>1
    <3>. QED BY <3>3, <3>4
  <2>3. CASE d # c /\ call[d] = Idle
    BY <1>1, <1>5, <2>3
  <2>. QED BY <2>1, <2>2, <2>3
<1>7. \A i \in DOMAIN messages' :
        DOMAIN messages'[i] = MessageFields /\ i \in 1 .. drafted'
  BY <1>1, <1>2, <1>5 DEF ShapeInv
<1>8. who' \in [Clients -> Identities] /\ DOMAIN call' = Clients
  BY <1>5 DEF ShapeInv
<1>. QED BY <1>2, <1>6, <1>7, <1>8, <1>9 DEF ShapeInv

LEMMA ShapeSleep ==
  ASSUME ShapeInv, Sleep \/ UNCHANGED desks
  PROVE  ShapeInv'
<1>1. day \in Nat /\ day' \in Nat /\ day <= day'
  <2>1. CASE Sleep
    <3>1. day' \in Dates /\ day' > day
      BY <2>1 DEF Sleep
    <3>. QED BY <3>1, HubAssumption DEF ShapeInv
  <2>2. CASE UNCHANGED desks
    BY <2>2 DEF desks, hub, ShapeInv
  <2>. QED BY <2>1, <2>2
<1>2. /\ who' = who /\ call' = call /\ drafted' = drafted /\ messages' = messages
  BY DEF Sleep, desks, hub, stored, history
<1>3. ASSUME NEW c \in Clients, call'[c] # Idle PROVE Base(c, call[c])'
  <2>1. PICK k : k = call[c]
    OBVIOUS
  <2>2. Base(c, k)
    BY <1>2, <1>3, <2>1 DEF ShapeInv
  <2>3. k.since \in Nat /\ k.since <= day'
    BY <1>1, <2>2 DEF Base
  <2>4. Base(c, k)'
    BY <1>2, <2>2, <2>3 DEF Base
  <2>. QED BY <1>2, <2>1, <2>4
<1>. QED BY <1>1, <1>2, <1>3 DEF ShapeInv

LEMMA ShapeInit ==
  ASSUME Init
  PROVE  ShapeInv
BY DeskAssumption DEF Init, ShapeInv

LEMMA ShapeNext ==
  ASSUME ShapeInv, [Next]_desks
  PROVE  ShapeInv'
BY ShapeStep, ShapeRequest, ShapeSleep DEF Next

(***************************************************************************)
(* Replies and what they answer                                            *)
(***************************************************************************)

Drafting(c) == call[c] # Idle /\ Ahead(call[c].plan, "insert")
Marking(c) == call[c] # Idle /\ Ahead(call[c].plan, "mark") /\ ~Ahead(call[c].plan, "look")

\* A draft's id is nowhere yet.
FreshInv ==
  /\ \A r \in reads : r[1] \in 1 .. drafted
  /\ \A c \in Clients : Drafting(c) =>
       /\ call[c].id \notin DOMAIN messages
       /\ \A r \in reads : r[1] # call[c].id
       /\ \A d \in Clients \ {c} : Drafting(d) => call[d].id # call[c].id
       /\ \A d \in Clients : Marking(d) => call[d].original # call[c].id

\* What is drafted, and what is about to be read, before and after a step.
LEMMA Underway ==
  ASSUME ShapeInv, NEW c \in Clients, Step(c)
  PROVE  /\ \A x \in Clients : Drafting(x)' => Drafting(x) /\ call'[x].id = call[x].id
         /\ Insert(c) => Drafting(c) /\ ~Drafting(c)'
         /\ \A x \in Clients : Marking(x)' =>
              /\ call'[x].original = call[x].original
              /\ Marking(x) \/ (x = c /\ Look(c) /\ Readable(c))
         /\ Mark(c) => Marking(c)
<1>1. PICK k : k = call[c]
  OBVIOUS
<1>2. /\ k # Idle /\ Base(c, k)
      /\ \/ call'[c] = Idle
         \/ \E q : q = call'[c] /\ q # Idle /\ Going(k, q) /\ Changing(c, k, q)
      /\ \A d \in Clients \ {c} :
           call'[d] = IF call[d] = Idle THEN Idle ELSE [call[d] EXCEPT !.alone = FALSE]
  BY <1>1, Rows
<1>3. /\ k.plan # <<>> /\ Planned(Pings(k), k.plan) /\ Pings(k) \in BOOLEAN
      /\ Ahead(k.plan, k.plan[1])
      /\ \A t : Ahead(k.plan, t) => t = k.plan[1] \/ Follows(Pings(k), k.plan[1], t)
  BY <1>2, HeadFirst DEF Base, Basic, Pings
<1>4. ASSUME NEW x \in Clients \ {c}, call'[x] # Idle
      PROVE  /\ call[x] # Idle /\ call'[x].plan = call[x].plan /\ call'[x].id = call[x].id
             /\ call'[x].original = call[x].original
  <2>1. call[x] # Idle /\ DOMAIN call[x] = CallFields
    BY <1>2, <1>4 DEF ShapeInv, Base, Basic
  <2>. QED BY <1>2, <2>1 DEF CallFields
<1>5. ASSUME call'[c] # Idle
      PROVE  /\ call'[c].id = k.id /\ call'[c].original = k.original
             /\ Drafting(c)' => Drafting(c) /\ k.plan[1] # "insert"
             /\ Marking(c)' =>
                  /\ Ahead(k.plan, "mark")
                  /\ ~Ahead(k.plan, "look") \/ (k.plan[1] = "look" /\ Readable(c))
  <2>1. PICK q : q = call'[c] /\ Going(k, q) /\ Changing(c, k, q)
    BY <1>2, <1>5
  <2>2. q.id = k.id /\ q.original = k.original
    BY <2>1 DEF Going, Kept
  <2>3. Drafting(c)' => Drafting(c) /\ k.plan[1] # "insert"
    BY <1>1, <1>2, <2>1, StillAhead DEF Drafting
  <2>4. ASSUME Marking(c)'
        PROVE  /\ Ahead(k.plan, "mark")
               /\ ~Ahead(k.plan, "look") \/ (k.plan[1] = "look" /\ Readable(c))
    <3>1. Ahead(q.plan, "mark") /\ ~Ahead(q.plan, "look")
      BY <2>1, <2>4 DEF Marking
    <3>2. /\ Ahead(k.plan, "mark") /\ ~Back(k, q)
          /\ ~Ahead(k.plan, "look") \/ k.plan[1] = "look"
      BY <1>2, <2>1, <3>1, StillAhead
    <3>. QED BY <2>1, <3>2 DEF Changing
  <2>. QED BY <2>1, <2>2, <2>3, <2>4
<1>6. k.plan[1] = "look" => Look(c) \/ Abandon(c)
  BY <1>1 DEF Step, At, Open, Touch, Resolve, Join, Party, Insert, Mark, Again,
       Register, Profile, Supersede, Retire, Vacant, Hop, Carry, Move
<1>7. Abandon(c) => call'[c] = Idle
  BY Stopped DEF Abandon, ShapeInv
<1>8. ASSUME NEW x \in Clients, Drafting(x)'
      PROVE  Drafting(x) /\ call'[x].id = call[x].id
  BY <1>1, <1>4, <1>5, <1>8 DEF Drafting
<1>9. Insert(c) => Drafting(c) /\ ~Drafting(c)'
  <2>1. Insert(c) => k.plan[1] = "insert"
    BY <1>1 DEF Insert, At
  <2>. QED BY <1>1, <1>2, <1>3, <1>5, <2>1 DEF Drafting
<1>10. ASSUME NEW x \in Clients, Marking(x)'
       PROVE  /\ call'[x].original = call[x].original
              /\ Marking(x) \/ (x = c /\ Look(c) /\ Readable(c))
  <2>1. CASE x = c
    <3>1. call'[c] # Idle
      BY <1>10, <2>1 DEF Marking
    <3>. QED BY <1>1, <1>2, <1>5, <1>6, <1>7, <1>10, <2>1, <3>1 DEF Marking
  <2>2. CASE x # c
    BY <1>4, <1>10, <2>2 DEF Marking
  <2>. QED BY <2>1, <2>2
<1>11. Mark(c) => Marking(c)
  <2>1. Mark(c) => k.plan[1] = "mark"
    BY <1>1 DEF Mark, At
  <2>2. k.plan[1] = "mark" => ~Ahead(k.plan, "look")
    BY <1>3 DEF Follows
  <2>. QED BY <1>1, <1>2, <1>3, <2>1, <2>2 DEF Marking
<1>. QED BY <1>8, <1>9, <1>10, <1>11

\* A rename keeps track of what was consumed.
LEMMA MovedReads ==
  ASSUME NEW old, NEW new, NEW i
  PROVE  (\E r \in MoveReads(old, new) : r[1] = i) => \E r \in reads : r[1] = i
BY DEF MoveReads

LEMMA FreshStep ==
  ASSUME ShapeInv, FreshInv, NEW c \in Clients, Step(c)
  PROVE  FreshInv'
<1>1. /\ \A x \in Clients : Drafting(x)' => Drafting(x) /\ call'[x].id = call[x].id
      /\ Insert(c) => Drafting(c) /\ ~Drafting(c)'
      /\ \A x \in Clients : Marking(x)' =>
           /\ call'[x].original = call[x].original
           /\ Marking(x) \/ (x = c /\ Look(c) /\ Readable(c))
      /\ Mark(c) => Marking(c)
  BY Underway
<1>2. drafted' = drafted
  BY Unwritten
<1>3. \A r \in reads' :
        (\E s \in reads : s[1] = r[1]) \/ (Mark(c) /\ r[1] = call[c].original)
  <2>1. CASE Open(c)
    BY <2>1 DEF Open, PurgeExpired
  <2>2. CASE Mark(c)
    BY <2>2 DEF Mark
  <2>3. CASE Move(c)
    <3>1. PICK old, new : reads' = MoveReads(old, new)
      BY <2>3 DEF Move
    <3>. QED BY <3>1, MovedReads
  <2>4. CASE ~Open(c) /\ ~Mark(c) /\ ~Move(c)
    BY <2>4, Unwritten
  <2>. QED BY <2>1, <2>2, <2>3, <2>4
<1>4. \A i \in DOMAIN messages' : i \in DOMAIN messages \/ (Insert(c) /\ i = call[c].id)
  <2>1. CASE Open(c)
    BY <2>1 DEF Open, PurgeExpired, Keep
  <2>2. CASE Insert(c)
    BY <2>2 DEF Insert, Put
  <2>3. CASE Move(c)
    BY <2>3 DEF Move, MoveMail
  <2>4. CASE ~Open(c) /\ ~Insert(c) /\ ~Move(c)
    BY <2>4, Unwritten
  <2>. QED BY <2>1, <2>2, <2>3, <2>4
<1>5. \A r \in reads' : r[1] \in 1 .. drafted'
  <2>1. Mark(c) => call[c].original \in 1 .. drafted
    <3>1. Mark(c) => Marking(c)
      BY <1>1
    <3>2. Marking(c) => call[c].original \in 0 .. drafted /\ call[c].original # 0
      BY DEF Marking, ShapeInv, Base
    <3>3. drafted \in Nat
      BY DEF ShapeInv
    <3>. QED BY <3>1, <3>2, <3>3
  <2>. QED BY <1>2, <1>3, <2>1 DEF FreshInv
<1>6. ASSUME NEW x \in Clients, Drafting(x)'
      PROVE  /\ call'[x].id \notin DOMAIN messages'
             /\ \A r \in reads' : r[1] # call'[x].id
             /\ \A d \in Clients \ {x} : Drafting(d)' => call'[d].id # call'[x].id
             /\ \A d \in Clients : Marking(d)' => call'[d].original # call'[x].id
  <2>1. Drafting(x) /\ call'[x].id = call[x].id
    BY <1>1, <1>6
  <2>2. call[x].id \notin DOMAIN messages'
    <3>1. Insert(c) => x # c /\ call[c].id # call[x].id
      BY <1>1, <1>6, <2>1 DEF FreshInv
    <3>. QED BY <1>4, <2>1, <3>1 DEF FreshInv
  <2>3. \A r \in reads' : r[1] # call[x].id
    BY <1>1, <1>3, <2>1 DEF FreshInv
  <2>4. \A d \in Clients \ {x} : Drafting(d)' => call'[d].id # call[x].id
    BY <1>1, <2>1 DEF FreshInv
  <2>5. ASSUME NEW d \in Clients, Marking(d)' PROVE call'[d].original # call[x].id
    <3>1. CASE Marking(d)
      BY <1>1, <2>1, <2>5, <3>1 DEF FreshInv
    <3>2. CASE d = c /\ Look(c) /\ Readable(c)
      BY <1>1, <2>1, <2>5, <3>2 DEF FreshInv, Readable
    <3>. QED BY <1>1, <2>5, <3>1, <3>2
  <2>. QED BY <2>1, <2>2, <2>3, <2>4, <2>5
<1>. QED BY <1>5, <1>6 DEF FreshInv

LEMMA FreshRequest ==
  ASSUME ShapeInv, FreshInv, NEW c \in Clients, Request(c)
  PROVE  FreshInv'
<1>1. drafted \in Nat /\ who[c] \in Identities /\ DOMAIN call = Clients
  BY DEF ShapeInv
<1>2. /\ call[c] = Idle /\ drafted' \in Nat /\ drafted <= drafted'
      /\ \E k : Starts(c, k) /\ Begin(c, k)
  BY <1>1, Begun
<1>3. PICK k : Starts(c, k) /\ Begin(c, k)
  BY <1>2
<1>4. /\ call' = [call EXCEPT ![c] = k] /\ messages' = messages /\ reads' = reads
  BY <1>3 DEF Begin, stored
<1>5. /\ call'[c] = k /\ \A d \in Clients \ {c} : call'[d] = call[d]
  BY <1>1, <1>4
<1>6. Drafting(c)' => k.id = drafted + 1
  BY <1>3, <1>5 DEF Starts, Drafting
<1>7. ~Marking(c)'
  BY <1>3, <1>5 DEF Starts, Marking
<1>8. \A r \in reads' : r[1] \in 1 .. drafted'
  BY <1>1, <1>2, <1>4 DEF FreshInv
<1>9. \A d \in Clients \ {c} : /\ Drafting(d)' <=> Drafting(d)
                               /\ Marking(d)' <=> Marking(d)
                               /\ call'[d].id = call[d].id
                               /\ call'[d].original = call[d].original
  BY <1>5 DEF Drafting, Marking
<1>10. \A d \in Clients : /\ Drafting(d) => call[d].id \in 1 .. drafted
                          /\ Marking(d) => call[d].original \in 0 .. drafted
  BY DEF ShapeInv, Base, Drafting, Marking
<1>11. /\ drafted + 1 \notin DOMAIN messages /\ drafted + 1 \notin 0 .. drafted
       /\ \A r \in reads : r[1] # drafted + 1
  BY <1>1 DEF ShapeInv, FreshInv
<1>12. ASSUME NEW x \in Clients, Drafting(x)'
      PROVE  /\ call'[x].id \notin DOMAIN messages'
             /\ \A r \in reads' : r[1] # call'[x].id
             /\ \A d \in Clients \ {x} : Drafting(d)' => call'[d].id # call'[x].id
             /\ \A d \in Clients : Marking(d)' => call'[d].original # call'[x].id
  <2>1. CASE x = c
    BY <1>1, <1>4, <1>5, <1>6, <1>7, <1>9, <1>10, <1>11, <1>12, <2>1
  <2>2. CASE x # c
    <3>1. Drafting(x) /\ call'[x].id = call[x].id
      BY <1>9, <1>12, <2>2
    <3>2. Drafting(c)' => call'[c].id # call[x].id
      BY <1>1, <1>5, <1>6, <1>10, <3>1
    <3>. QED BY <1>4, <1>7, <1>9, <3>1, <3>2 DEF FreshInv
  <2>. QED BY <2>1, <2>2
<1>. QED BY <1>8, <1>12 DEF FreshInv

LEMMA FreshNext ==
  ASSUME ShapeInv, FreshInv, [Next]_desks
  PROVE  FreshInv'
<1>1. CASE Sleep \/ UNCHANGED desks
  BY <1>1 DEF FreshInv, Drafting, Marking, Sleep, desks, hub, stored, history
<1>. QED BY <1>1, FreshStep, FreshRequest DEF Next

LEMMA FreshInit ==
  ASSUME Init
  PROVE  FreshInv
BY DEF Init, FreshInv, Drafting

LEMMA MovedMail ==
  ASSUME NEW S, DOMAIN messages = S, \A i \in S : DOMAIN messages[i] = MessageFields,
         NEW old, NEW new, NEW mail, mail = MoveMail(old, new)
  PROVE  /\ DOMAIN mail = S
         /\ \A i \in S :
              /\ mail[i].thread = messages[i].thread /\ mail[i].root = messages[i].root
              /\ mail[i].by = messages[i].by /\ mail[i].for = messages[i].for
              /\ mail[i].created = messages[i].created /\ mail[i].late = messages[i].late
              /\ mail[i].target = IF messages[i].target = old THEN new
                                  ELSE messages[i].target
              /\ mail[i].from = IF messages[i].from = FormatAddress(old)
                                THEN FormatAddress(new) ELSE messages[i].from
<1>. HIDE DEF FormatAddress
<1>. QED BY DEF MoveMail, MessageFields

\* A step keeps the thread of a message and what it answers, or adds the message.
LEMMA ThreadsStay ==
  ASSUME ShapeInv, FreshInv, NEW c \in Clients, Step(c), NEW i \in DOMAIN messages'
  PROVE  \/ /\ i \in DOMAIN messages /\ messages'[i].thread = messages[i].thread
            /\ messages'[i].root = messages[i].root /\ messages'[i].late = messages[i].late
         \/ Insert(c) /\ i = call[c].id /\ Drafting(c)
<1>1. CASE Open(c)
  BY <1>1 DEF Open, PurgeExpired, Keep
<1>2. CASE Insert(c)
  BY <1>2, Underway DEF Insert, Put
<1>3. CASE Move(c)
  <2>1. PICK old, new : messages' = MoveMail(old, new)
    BY <1>3 DEF Move
  <2>2. PICK mail : mail = MoveMail(old, new)
    OBVIOUS
  <2>. QED BY <2>1, <2>2, MovedMail DEF ShapeInv
<1>4. CASE ~Open(c) /\ ~Insert(c) /\ ~Move(c)
  BY <1>4, Unwritten
<1>. QED BY <1>1, <1>2, <1>3, <1>4

\* What a draft answers is gone, and then for good, or on the thread the answer goes to,
\* unless that one starts a thread of its own.
OnThread(k) ==
  k.original \in DOMAIN messages => k.thread \in {k.id, messages[k.original].thread}

Rooted(k) ==
  k.original \notin {0, k.id} =>
    \/ Ahead(k.plan, "look") /\ Ahead(k.plan, "resolve")
    \/ Ahead(k.plan, "again")
    \/ /\ ~Ahead(k.plan, "open") /\ OnThread(k)
       /\ \A d \in Clients : Drafting(d) => call[d].id # k.original

\* An answer that found its original stands beside it on one thread.
Beside(i) ==
  Answers(messages[i], i) /\ ~messages[i].late =>
    /\ messages[i].root \in DOMAIN messages
    /\ messages[messages[i].root].thread = messages[i].thread

RootInv ==
  /\ \A i \in DOMAIN messages : Beside(i)
  /\ \A c \in Clients : Drafting(c) => Rooted(call[c])

LEMMA RootCall ==
  ASSUME ShapeInv, FreshInv, RootInv, NEW c \in Clients, Step(c), Drafting(c)'
  PROVE  Rooted(call[c])'
<1>1. PICK k : k = call[c]
  OBVIOUS
<1>2. /\ k # Idle /\ Base(c, k)
      /\ \/ call'[c] = Idle
         \/ \E q : q = call'[c] /\ q # Idle /\ Going(k, q) /\ Changing(c, k, q)
  BY <1>1, Rows
<1>3. PICK q : q = call'[c] /\ Going(k, q) /\ Changing(c, k, q)
  BY <1>2 DEF Drafting
<1>4. /\ k.plan # <<>> /\ Planned(Pings(k), k.plan) /\ Pings(k) \in BOOLEAN
      /\ Ahead(k.plan, k.plan[1])
      /\ \A t : Ahead(k.plan, t) => t = k.plan[1] \/ Follows(Pings(k), k.plan[1], t)
      /\ Ahead(k.plan, "again") => Ahead(k.plan, "resolve")
  BY <1>2, HeadFirst DEF Base, Basic, Pings
<1>5. /\ q.me = k.me /\ q.id = k.id /\ q.original = k.original
      /\ Ahead(q.plan, "insert") /\ ~Ahead(q.plan, "open")
      /\ Ahead(k.plan, "insert") /\ k.plan[1] # "insert"
  BY <1>2, <1>3, StillAhead DEF Going, Kept, Drafting
<1>6. SUFFICES ASSUME q.original \notin {0, q.id}
               PROVE  \/ Ahead(q.plan, "look") /\ Ahead(q.plan, "resolve")
                      \/ Ahead(q.plan, "again")
                      \/ /\ q.original \in DOMAIN messages' =>
                              q.thread \in {q.id, messages'[q.original].thread}
                         /\ \A d \in Clients : Drafting(d)' => call'[d].id # q.original
  BY <1>3, <1>5 DEF Rooted, OnThread
<1>7. Rooted(k) /\ k.original \notin {0, k.id} /\ ~Pings(k)
  BY <1>1, <1>2, <1>5, <1>6 DEF RootInv, Drafting, Pings
<1>8. Less(k, q) \/ Still(k, q) \/ Back(k, q)
  BY <1>3 DEF Going
<1>9. CASE Back(k, q)
  BY <1>9 DEF Back
<1>10. CASE k.plan[1] \in {"look", "again"} /\ ~Back(k, q)
  <2>1. Readable(c)
    BY <1>3, <1>10 DEF Changing
  <2>2. messages' = messages
    <3>1. Look(c) \/ Again(c) \/ Abandon(c)
      BY <1>1, <1>10 DEF Step, At, Open, Touch, Resolve, Join, Party, Insert, Mark,
           Register, Profile, Supersede, Retire, Vacant, Hop, Carry, Move
    <3>. QED BY <3>1 DEF Look, Again, Abandon, stored
  <2>3. k.original \in DOMAIN messages
    BY <1>1, <2>1 DEF Readable
  <2>4. \A d \in Clients : Drafting(d)' => call'[d].id # k.original
    BY <2>3, Underway DEF FreshInv
  <2>5. CASE Ahead(k.plan, "resolve")
    BY <1>3, <1>5, <1>10, <2>2, <2>4, <2>5 DEF Changing
  <2>6. CASE ~Ahead(k.plan, "resolve")
    <3>1. OnThread(k)
      BY <1>4, <1>7, <2>6 DEF Rooted
    <3>2. q.thread = k.thread
      BY <1>3, <1>10, <2>6 DEF Changing
    <3>. QED BY <1>5, <2>2, <2>4, <3>1, <3>2 DEF OnThread
  <2>. QED BY <2>5, <2>6
<1>11. CASE k.plan[1] \notin {"look", "again"} /\ ~Back(k, q)
  <2>1. ~Ahead(k.plan, "again")
    BY <1>4, <1>11 DEF Follows
  <2>2. CASE Ahead(k.plan, "look") /\ Ahead(k.plan, "resolve")
    <3>1. k.plan[1] # "resolve"
      BY <1>4, <1>7, <2>2 DEF Follows, Sending, Reading
    <3>. QED BY <1>8, <1>11, <2>2, <3>1 DEF Less, Still, Lasting
  <2>3. CASE ~(Ahead(k.plan, "look") /\ Ahead(k.plan, "resolve"))
    <3>1. /\ ~Ahead(k.plan, "open") /\ OnThread(k)
          /\ \A d \in Clients : Drafting(d) => call[d].id # k.original
      BY <1>7, <2>1, <2>3 DEF Rooted
    <3>2. k.plan[1] \notin {"open", "move"}
      BY <1>4, <1>5, <3>1 DEF Follows
    <3>3. messages' = messages
      <4>1. ~Open(c) /\ ~Insert(c) /\ ~Move(c)
        BY <1>1, <1>5, <3>2 DEF Open, Insert, Move, At
      <4>. QED BY <4>1, Unwritten
    <3>4. q.thread \in {k.thread, k.id}
      BY <1>3, <1>11 DEF Changing
    <3>5. \A d \in Clients : Drafting(d)' => call'[d].id # k.original
      BY <3>1, Underway
    <3>. QED BY <1>5, <3>1, <3>3, <3>4, <3>5 DEF OnThread
  <2>. QED BY <2>2, <2>3
<1>. QED BY <1>9, <1>10, <1>11

\* The other calls, whose drafts a step leaves alone.
LEMMA RootOthers ==
  ASSUME ShapeInv, FreshInv, RootInv, NEW c \in Clients, Step(c),
         NEW x \in Clients \ {c}, Drafting(x)'
  PROVE  Rooted(call[x])'
<1>1. PICK k, q : k = call[x] /\ q = call'[x]
  OBVIOUS
<1>2. q = [k EXCEPT !.alone = FALSE] /\ k # Idle
  BY <1>1, Rows DEF Drafting
<1>3. DOMAIN k = CallFields
  BY <1>1, <1>2 DEF ShapeInv, Base, Basic
<1>4. /\ q.plan = k.plan /\ q.original = k.original /\ q.id = k.id
      /\ q.thread = k.thread
  BY <1>2, <1>3 DEF CallFields
<1>5. Drafting(x) /\ Rooted(k)
  BY <1>1, Underway DEF RootInv
<1>6. SUFFICES ASSUME k.original \notin {0, k.id},
                      /\ ~Ahead(k.plan, "open") /\ OnThread(k)
                      /\ \A d \in Clients : Drafting(d) => call[d].id # k.original
               PROVE  /\ k.original \in DOMAIN messages' =>
                           k.thread \in {k.id, messages'[k.original].thread}
                      /\ \A d \in Clients : Drafting(d)' => call'[d].id # k.original
  BY <1>1, <1>4, <1>5 DEF Rooted, OnThread
<1>7. \A d \in Clients : Drafting(d)' => call'[d].id # k.original
  BY <1>6, Underway
<1>8. ASSUME k.original \in DOMAIN messages'
      PROVE  k.thread \in {k.id, messages'[k.original].thread}
  <2>1. /\ k.original \in DOMAIN messages
        /\ messages'[k.original].thread = messages[k.original].thread
    BY <1>6, <1>8, ThreadsStay
  <2>. QED BY <1>6, <2>1 DEF OnThread
<1>. QED BY <1>7, <1>8

\* Housekeeping takes conversations whole.
LEMMA RootOpen ==
  ASSUME RootInv, PurgeExpired, NEW i \in DOMAIN messages'
  PROVE  Beside(i)'
<1>1. PICK kept : /\ messages' = Keep(messages, kept)
                  /\ kept = IF TtlDays = 0 THEN DOMAIN messages
                            ELSE {j \in DOMAIN messages : ~Quiet(j)}
  BY DEF PurgeExpired
<1>2. /\ DOMAIN messages' = DOMAIN messages \cap kept
      /\ \A j \in DOMAIN messages' : messages'[j] = messages[j]
  BY <1>1 DEF Keep
<1>3. PICK m, root : m = messages[i] /\ root = m.root
  OBVIOUS
<1>4. SUFFICES ASSUME Answers(m, i), ~m.late
               PROVE  root \in DOMAIN messages' /\ messages'[root].thread = m.thread
  BY <1>2, <1>3 DEF Beside
<1>5. root \in DOMAIN messages /\ messages[root].thread = m.thread
  BY <1>2, <1>3, <1>4 DEF RootInv, Beside
<1>6. Quiet(root) <=> Quiet(i)
  BY <1>3, <1>5 DEF Quiet
<1>7. root \in kept
  BY <1>1, <1>2, <1>5, <1>6
<1>. QED BY <1>2, <1>5, <1>7

LEMMA RootInsert ==
  ASSUME ShapeInv, FreshInv, RootInv, NEW c \in Clients, Insert(c),
         NEW i \in DOMAIN messages'
  PROVE  Beside(i)'
<1>1. PICK k : k = call[c]
  OBVIOUS
<1>2. /\ k # Idle /\ k.plan[1] = "insert" /\ Base(c, k)
  BY <1>1 DEF Insert, At, ShapeInv
<1>3. /\ k.plan # <<>> /\ Planned(Pings(k), k.plan) /\ Pings(k) \in BOOLEAN
      /\ Ahead(k.plan, "insert")
      /\ \A t : Ahead(k.plan, t) => t = "insert" \/ Follows(Pings(k), "insert", t)
  BY <1>2, HeadFirst DEF Base, Basic, Pings
<1>4. Drafting(c) /\ k.id \notin DOMAIN messages
  BY <1>1, <1>2, <1>3 DEF Drafting, FreshInv
<1>5. CASE messages' = messages
  BY <1>5 DEF RootInv, Beside
<1>6. CASE messages' # messages
  <2>1. PICK entry : /\ messages' = Put(messages, k.id, entry)
                     /\ entry.thread = k.thread /\ entry.root = Root(k)
                     /\ entry.late = (Root(k) \notin DOMAIN messages \cup {0})
    <3>. DEFINE one == [from |-> Me(c), target |-> ParseAddress(k.to), thread |-> k.thread,
                        created |-> k.since, by |-> c,
                        for |-> IF k.alone THEN Named(k.asked) \ {c} ELSE {},
                        root |-> Root(k), late |-> Root(k) \notin DOMAIN messages \cup {0}]
    <3>1. messages' = Put(messages, k.id, one)
      BY <1>1, <1>6 DEF Insert
    <3>. QED BY <3>1
  <2>2. /\ DOMAIN messages' = DOMAIN messages \cup {k.id} /\ messages'[k.id] = entry
        /\ \A j \in DOMAIN messages : messages'[j] = messages[j]
    BY <1>4, <2>1 DEF Put
  <2>3. CASE i # k.id
    BY <1>4, <2>2, <2>3 DEF RootInv, Beside
  <2>4. CASE i = k.id
    <3>1. SUFFICES ASSUME Answers(entry, i), ~entry.late
                   PROVE  /\ entry.root \in DOMAIN messages'
                          /\ messages'[entry.root].thread = entry.thread
      BY <2>2, <2>4 DEF Beside
    <3>2. /\ entry.root = k.original /\ k.original \notin {0, k.id}
          /\ k.original \in DOMAIN messages /\ k.thread # k.id
      BY <2>1, <2>4, <3>1 DEF Answers, Root
    <3>3. Rooted(k)
      BY <1>1, <1>4 DEF RootInv
    <3>4. ~Ahead(k.plan, "look") /\ ~Ahead(k.plan, "again")
      BY <1>3, <3>2 DEF Follows, Sending, Reading, Pings
    <3>5. k.thread = messages[k.original].thread
      BY <3>2, <3>3, <3>4 DEF Rooted, OnThread
    <3>. QED BY <2>1, <2>2, <3>2, <3>5
  <2>. QED BY <2>3, <2>4
<1>. QED BY <1>5, <1>6

LEMMA RootStep ==
  ASSUME ShapeInv, FreshInv, RootInv, NEW c \in Clients, Step(c)
  PROVE  RootInv'
<1>1. ASSUME NEW i \in DOMAIN messages'
      PROVE  Beside(i)'
  <2>1. CASE Open(c)
    BY <1>1, <2>1, RootOpen DEF Open
  <2>2. CASE Insert(c)
    BY <1>1, <2>2, RootInsert
  <2>3. CASE Move(c)
    <3>1. PICK old, new : messages' = MoveMail(old, new)
      BY <2>3 DEF Move
    <3>2. PICK mail : mail = MoveMail(old, new)
      OBVIOUS
    <3>3. /\ DOMAIN mail = DOMAIN messages
          /\ \A j \in DOMAIN messages :
               mail[j].thread = messages[j].thread /\ mail[j].root = messages[j].root
      BY <3>2, MovedMail DEF ShapeInv
    <3>4. \A j \in DOMAIN messages : mail[j].late = messages[j].late
      BY <1>1, <2>3, <3>1, <3>2, <3>3, ThreadsStay DEF Move, Insert, At
    <3>. QED BY <1>1, <3>1, <3>2, <3>3, <3>4 DEF RootInv, Beside, Answers
  <2>4. CASE ~Open(c) /\ ~Insert(c) /\ ~Move(c)
    BY <1>1, <2>4, Unwritten DEF RootInv, Beside
  <2>. QED BY <2>1, <2>2, <2>3, <2>4
<1>2. ASSUME NEW x \in Clients, Drafting(x)'
      PROVE  Rooted(call[x])'
  BY <1>2, RootCall, RootOthers
<1>. QED BY <1>1, <1>2 DEF RootInv

LEMMA RootRequest ==
  ASSUME ShapeInv, RootInv, NEW c \in Clients, Request(c)
  PROVE  RootInv'
<1>1. drafted \in Nat /\ who[c] \in Identities /\ DOMAIN call = Clients
  BY DEF ShapeInv
<1>2. PICK k : Starts(c, k) /\ Begin(c, k)
  BY <1>1, Begun
<1>3. /\ call' = [call EXCEPT ![c] = k] /\ messages' = messages
  BY <1>2 DEF Begin, stored
<1>4. /\ call'[c] = k /\ \A d \in Clients \ {c} : call'[d] = call[d]
  BY <1>1, <1>3
<1>5. Drafting(c)' => k.id = drafted + 1
  BY <1>2, <1>4 DEF Starts, Drafting
<1>6. ASSUME NEW x \in Clients, Drafting(x)'
      PROVE  Rooted(call[x])'
  <2>1. CASE x = c
    BY <1>2, <1>4, <1>6, <2>1 DEF Drafting, Rooted, Starts
  <2>2. CASE x # c
    <3>1. call'[x] = call[x] /\ Drafting(x) /\ Rooted(call[x])
      BY <1>4, <1>6, <2>2 DEF Drafting, RootInv
    <3>2. call[x].original \in 0 .. drafted
      BY <3>1 DEF Drafting, ShapeInv, Base
    <3>3. ASSUME NEW d \in Clients, Drafting(d)',
                 \A e \in Clients : Drafting(e) => call[e].id # call[x].original
          PROVE  call'[d].id # call[x].original
      <4>1. CASE d = c
        BY <1>1, <1>4, <1>5, <3>2, <3>3, <4>1
      <4>2. CASE d # c
        BY <1>4, <3>3, <4>2 DEF Drafting
      <4>. QED BY <4>1, <4>2
    <3>. QED BY <1>3, <3>1, <3>3 DEF Rooted, OnThread
  <2>. QED BY <2>1, <2>2
<1>. QED BY <1>3, <1>6 DEF RootInv, Beside

LEMMA RootNext ==
  ASSUME ShapeInv, FreshInv, RootInv, [Next]_desks
  PROVE  RootInv'
<1>1. CASE Sleep \/ UNCHANGED desks
  BY <1>1 DEF RootInv, Beside, Rooted, OnThread, Drafting, Sleep, desks, hub, stored, history
<1>. QED BY <1>1, RootStep, RootRequest DEF Next

LEMMA RootInit ==
  ASSUME Init
  PROVE  RootInv
BY DEF Init, RootInv, Drafting

LEMMA Shaped == Spec => []ShapeInv
<1>. QED BY ShapeInit, ShapeNext, PTL DEF Spec

LEMMA Rooting == Spec => [](ShapeInv /\ FreshInv /\ RootInv)
<1>1. Init => ShapeInv /\ FreshInv /\ RootInv
  BY ShapeInit, FreshInit, RootInit
<1>2. ShapeInv /\ FreshInv /\ RootInv /\ [Next]_desks => (ShapeInv /\ FreshInv /\ RootInv)'
  BY ShapeNext, FreshNext, RootNext
<1>. QED BY <1>1, <1>2, PTL DEF Spec

\* An answer that was stored with its original in place has it in place as long as it is
\* kept (the purge of mailbox.py goes by the last turn of a conversation), whatever else is
\* going on while it is composed and afterwards, for any clients, calls and days.
THEOREM RepliesAreRooted == Spec => []RepliesKeepTheirRoot
<1>1. RootInv => RepliesKeepTheirRoot
  BY DEF RootInv, Beside, RepliesKeepTheirRoot
<1>. QED BY <1>1, Rooting, PTL

\* The answer to a rename spells a URL that the server, its mail check and its API all
\* take for the renamed agent.
THEOREM RenamesLeadHome == Spec => DoorsLeadHome
<1>1. ASSUME ShapeInv, [Next]_desks, NEW c \in Clients, who'[c] # who[c],
             who'[c].project \notin {"ui", "prompts"}
      PROVE  LeadHome(who'[c])
  <2>1. PICK w : w = who'[c]
    OBVIOUS
  <2>2. w \in Identities
    BY <1>1, <2>1, ShapeNext DEF ShapeInv
  <2>3. LeadHome(w)
    BY <1>1, <2>1, <2>2, HomeDoors
  <2>. QED BY <2>1, <2>3
<1>2. ShapeInv /\ [Next]_desks =>
        [\A c \in Clients :
           who'[c] # who[c] /\ who'[c].project \notin {"ui", "prompts"} =>
             LeadHome(who'[c])]_desks
  BY <1>1
<1>. QED BY <1>2, Shaped, PTL DEF Spec, DoorsLeadHome

(***************************************************************************)
(* One's own mailbox                                                       *)
(***************************************************************************)

NameInv ==
  /\ \A c \in Clients : call[c] # Idle => call[c].me = who[c]
  /\ \A c \in Clients : "mcp" \notin Desk[c] => who[c] = Settings[c]
  /\ \A c, d \in Clients : who[c] = who[d] /\ c # d => c \in sharing
  /\ \A h \in handed : h[1] \in Apart => <<h[2], FormatAddress(who[h[1]])>> \in reads
  /\ \A i \in DOMAIN messages :
       messages[i].by \in Apart => messages[i].from = FormatAddress(who[messages[i].by])

\* A rename, for whoever it leaves apart.
LEMMA Renamed ==
  ASSUME ShapeInv, NameInv, NEW c \in Clients, Move(c)
  PROVE  \E old \in Identities, new \in Identities :
           /\ old = who[c] /\ new # old /\ who' = [who EXCEPT ![c] = new]
           /\ new = call[c].as
           /\ messages' = MoveMail(old, new)
           /\ reads' = MoveReads(FormatAddress(old), FormatAddress(new))
           /\ forwards' = MoveForwards(FormatAddress(old), FormatAddress(new))
           /\ left' = Put(left, FormatAddress(old), c)
           /\ handed' = handed /\ sharing \subseteq sharing'
           /\ \A d \in Clients \ {c} : who[d] = new => d \in sharing' /\ c \in sharing'
           /\ \A d \in Clients \ {c} : d \notin sharing' =>
                /\ who'[d] = who[d]
                /\ FormatAddress(who[d]) \notin {FormatAddress(old), FormatAddress(new)}
<1>. DEFINE old == call[c].me
            new == call[c].as
<1>1. call[c] # Idle
  BY DEF Move, At
<1>2. old = who[c] /\ old \in Identities /\ new \in Identities /\ new # old
  BY <1>1, Taken DEF NameInv, ShapeInv
<1>3. /\ messages' = MoveMail(old, new)
      /\ reads' = MoveReads(FormatAddress(old), FormatAddress(new))
      /\ forwards' = MoveForwards(FormatAddress(old), FormatAddress(new))
      /\ who' = [who EXCEPT ![c] = new] /\ left' = Put(left, FormatAddress(old), c)
      /\ handed' = handed
      /\ LET taken == {d \in Clients \ {c} : who[d] = new}
         IN  sharing' = IF taken = {} THEN sharing ELSE sharing \cup taken \cup {c}
  BY DEF Move
<1>. HIDE DEF old, new
<1>4. sharing \subseteq sharing'
  BY <1>3
<1>5. ASSUME NEW d \in Clients \ {c}, who[d] = new
      PROVE  d \in sharing' /\ c \in sharing'
  <2>. DEFINE taken == {x \in Clients \ {c} : who[x] = new}
  <2>1. d \in taken
    BY <1>5
  <2>2. sharing' = sharing \cup taken \cup {c}
    BY <1>3, <2>1
  <2>. QED BY <2>1, <2>2
<1>6. ASSUME NEW d \in Clients \ {c}, d \notin sharing'
      PROVE  /\ who'[d] = who[d]
             /\ FormatAddress(who[d]) \notin {FormatAddress(old), FormatAddress(new)}
  <2>1. who[d] # new /\ who[d] # old
    BY <1>2, <1>4, <1>5, <1>6 DEF NameInv
  <2>2. who[d] \in Identities
    BY DEF ShapeInv
  <2>. QED BY <1>2, <1>3, <2>1, <2>2, FormatsDiffer
<1>7. new = call[c].as
  BY DEF new
<1>. QED BY <1>2, <1>3, <1>4, <1>5, <1>6, <1>7

LEMMA NameStep ==
  ASSUME OneSelf, ShapeInv, NameInv, NEW c \in Clients, Step(c)
  PROVE  NameInv'
<1>1. /\ call[c] # Idle
      /\ \A d \in Clients : call'[d] # Idle => call[d] # Idle /\ call'[d].me = call[d].me
      /\ Move(c) => call'[c] = Idle
  <2>1. PICK k : k = call[c]
    OBVIOUS
  <2>2. /\ k # Idle
        /\ \/ call'[c] = Idle
           \/ \E q : q = call'[c] /\ q # Idle /\ Going(k, q) /\ Changing(c, k, q)
        /\ \A d \in Clients \ {c} :
             call'[d] = IF call[d] = Idle THEN Idle ELSE [call[d] EXCEPT !.alone = FALSE]
    BY <2>1, Rows
  <2>3. call'[c] # Idle => call'[c].me = k.me
    BY <2>2 DEF Going, Kept
  <2>4. ASSUME NEW d \in Clients \ {c}, call'[d] # Idle
        PROVE  call[d] # Idle /\ call'[d].me = call[d].me
    <3>1. call[d] # Idle /\ DOMAIN call[d] = CallFields
      BY <2>2, <2>4 DEF ShapeInv, Base, Basic
    <3>. QED BY <2>2, <3>1 DEF CallFields
  <2>. QED BY <2>1, <2>2, <2>3, <2>4, Taken
<1>2. CASE ~Move(c)
  <2>1. who' = who /\ sharing' = sharing
    BY <1>2, Unwritten
  <2>2. \A d \in Clients : call'[d] # Idle => call'[d].me = who'[d]
    BY <1>1, <2>1 DEF NameInv
  <2>3. ASSUME NEW h \in handed', h[1] \in Apart
        PROVE  <<h[2], FormatAddress(who[h[1]])>> \in reads'
    <3>1. CASE Open(c)
      <4>1. h \in handed
        BY <2>3, <3>1 DEF Open, PurgeExpired
      <4>2. <<h[2], FormatAddress(who[h[1]])>> \in reads
        BY <2>3, <4>1 DEF NameInv
      <4>. QED BY <2>3, <3>1, <4>2 DEF Open, PurgeExpired
    <3>2. CASE Mark(c)
      <4>1. call[c].me = who[c]
        BY <1>1 DEF NameInv
      <4>2. reads \subseteq reads'
        BY <3>2 DEF Mark
      <4>3. CASE h \in handed
        BY <2>3, <4>2, <4>3 DEF NameInv
      <4>4. CASE h \notin handed
        <5>1. h = <<c, call[c].original>> /\ <<call[c].original, Me(c)>> \in reads'
          BY <2>3, <3>2, <4>4 DEF Mark
        <5>. QED BY <4>1, <5>1 DEF Me
      <4>. QED BY <4>3, <4>4
    <3>3. CASE ~Open(c) /\ ~Mark(c)
      BY <1>2, <2>3, <3>3, Unwritten DEF NameInv
    <3>. QED BY <3>1, <3>2, <3>3
  <2>4. ASSUME NEW i \in DOMAIN messages', messages'[i].by \in Apart
        PROVE  messages'[i].from = FormatAddress(who[messages'[i].by])
    <3>1. CASE Open(c)
      BY <2>4, <3>1 DEF Open, PurgeExpired, Keep, NameInv
    <3>2. CASE Insert(c)
      <4>1. call[c].me = who[c]
        BY <1>1 DEF NameInv
      <4>2. PICK id, entry : /\ entry.by = c /\ entry.from = Me(c)
                             /\ messages' = messages \/ messages' = Put(messages, id, entry)
        <5>. DEFINE k == call[c]
                    one == [from |-> Me(c), target |-> ParseAddress(k.to),
                            thread |-> k.thread, created |-> k.since, by |-> c,
                            for |-> IF k.alone THEN Named(k.asked) \ {c} ELSE {},
                            root |-> Root(k), late |-> Root(k) \notin DOMAIN messages \cup {0}]
        <5>1. messages' = messages \/ messages' = Put(messages, k.id, one)
          BY <3>2 DEF Insert
        <5>. QED BY <5>1
      <4>. QED BY <2>4, <4>1, <4>2 DEF Put, Me, NameInv
    <3>3. CASE ~Open(c) /\ ~Insert(c)
      BY <1>2, <2>4, <3>3, Unwritten DEF NameInv
    <3>. QED BY <3>1, <3>2, <3>3
  <2>. QED BY <2>1, <2>2, <2>3, <2>4 DEF NameInv, Apart
<1>3. CASE Move(c)
  <2>1. PICK old \in Identities, new \in Identities :
           /\ old = who[c] /\ new # old /\ who' = [who EXCEPT ![c] = new]
           /\ messages' = MoveMail(old, new)
           /\ reads' = MoveReads(FormatAddress(old), FormatAddress(new))
           /\ handed' = handed /\ sharing \subseteq sharing'
           /\ \A d \in Clients \ {c} : who[d] = new => d \in sharing' /\ c \in sharing'
           /\ \A d \in Clients \ {c} : d \notin sharing' =>
                /\ who'[d] = who[d]
                /\ FormatAddress(who[d]) \notin {FormatAddress(old), FormatAddress(new)}
    BY <1>3, Renamed
  <2>2. /\ who'[c] = new /\ \A d \in Clients \ {c} : who'[d] = who[d]
    BY <2>1 DEF ShapeInv
  <2>3. \A d \in Clients : call'[d] # Idle => call'[d].me = who'[d]
    BY <1>1, <1>3, <2>2 DEF NameInv
  <2>4. \A d \in Clients : "mcp" \notin Desk[d] => who'[d] = Settings[d]
    BY <1>3, <2>2, Taken DEF NameInv
  <2>5. \A d, e \in Clients : who'[d] = who'[e] /\ d # e => d \in sharing'
    BY <2>1, <2>2 DEF NameInv
  <2>6. ASSUME NEW h \in handed', h[1] \in Apart'
        PROVE  <<h[2], FormatAddress(who'[h[1]])>> \in reads'
    <3>1. h[1] \in Apart /\ h \in handed
      BY <2>1, <2>6 DEF Apart
    <3>2. <<h[2], FormatAddress(who[h[1]])>> \in reads
      BY <3>1 DEF NameInv
    <3>3. CASE h[1] = c
      <4>1. PICK r : r \in reads /\ r = <<h[2], FormatAddress(old)>>
        BY <2>1, <3>2, <3>3
      <4>2. <<r[1], FormatAddress(new)>> \in reads'
        BY <2>1, <4>1 DEF MoveReads
      <4>. QED BY <2>2, <3>3, <4>1, <4>2
    <3>4. CASE h[1] # c
      <4>1. /\ who'[h[1]] = who[h[1]]
            /\ FormatAddress(who[h[1]]) # FormatAddress(old)
        BY <2>1, <2>6, <3>4 DEF Apart
      <4>2. PICK r : r \in reads /\ r = <<h[2], FormatAddress(who[h[1]])>>
        BY <3>2
      <4>3. r \in reads'
        BY <2>1, <4>1, <4>2 DEF MoveReads
      <4>. QED BY <4>1, <4>2, <4>3
    <3>. QED BY <3>3, <3>4
  <2>7. ASSUME NEW i \in DOMAIN messages', messages'[i].by \in Apart'
        PROVE  messages'[i].from = FormatAddress(who'[messages'[i].by])
    <3>1. PICK mail : mail = MoveMail(old, new)
      OBVIOUS
    <3>2. /\ DOMAIN mail = DOMAIN messages
          /\ \A j \in DOMAIN messages :
               /\ mail[j].by = messages[j].by
               /\ mail[j].from = IF messages[j].from = FormatAddress(old)
                                 THEN FormatAddress(new) ELSE messages[j].from
      BY <3>1, MovedMail DEF ShapeInv
    <3>3. PICK d : d = messages[i].by
      OBVIOUS
    <3>4. i \in DOMAIN messages /\ messages'[i].by = d /\ d \in Apart'
          /\ messages[i].from = FormatAddress(who[d])
      BY <2>1, <2>7, <3>1, <3>2, <3>3 DEF NameInv, Apart
    <3>5. CASE d = c
      BY <2>1, <2>2, <3>1, <3>2, <3>4, <3>5
    <3>6. CASE d # c
      <4>1. who'[d] = who[d] /\ FormatAddress(who[d]) # FormatAddress(old)
        BY <2>1, <3>4, <3>6 DEF Apart
      <4>. QED BY <2>1, <3>1, <3>2, <3>4, <4>1
    <3>. QED BY <3>5, <3>6
  <2>. QED BY <2>3, <2>4, <2>5, <2>6, <2>7 DEF NameInv
<1>. QED BY <1>2, <1>3

LEMMA NameRequest ==
  ASSUME OneSelf, ShapeInv, NameInv, NEW c \in Clients, Request(c)
  PROVE  NameInv'
<1>1. drafted \in Nat /\ who[c] \in Identities /\ DOMAIN call = Clients
  BY DEF ShapeInv
<1>2. RoleKnown(c)
  BY DEF RoleKnown, OneSelf, NameInv
<1>3. PICK k : Starts(c, k) /\ Begin(c, k)
  BY <1>1, Begun
<1>4. /\ call' = [call EXCEPT ![c] = k]
      /\ UNCHANGED <<messages, reads, who, handed, sharing>>
  BY <1>3 DEF Begin, stored, history
<1>5. k.me = who[c]
  BY <1>2, <1>3 DEF Starts
<1>6. \A d \in Clients : call'[d] # Idle => call'[d].me = who'[d]
  BY <1>1, <1>4, <1>5 DEF NameInv
<1>. QED BY <1>4, <1>6 DEF NameInv, Apart

LEMMA NameNext ==
  ASSUME OneSelf, ShapeInv, NameInv, [Next]_desks
  PROVE  NameInv'
<1>1. CASE Sleep \/ UNCHANGED desks
  BY <1>1 DEF NameInv, Apart, Sleep, desks, hub, stored, history
<1>. QED BY <1>1, NameStep, NameRequest DEF Next

LEMMA NameInit ==
  ASSUME OneSelf, Init
  PROVE  NameInv
BY DEF Init, NameInv, OneSelf

LEMMA Naming ==
  ASSUME OneSelf
  PROVE  Spec => [](ShapeInv /\ FreshInv /\ NameInv)
<1>1. Init => ShapeInv /\ FreshInv /\ NameInv
  BY ShapeInit, FreshInit, NameInit
<1>2. ShapeInv /\ FreshInv /\ NameInv /\ [Next]_desks => (ShapeInv /\ FreshInv /\ NameInv)'
  BY ShapeNext, FreshNext, NameNext
<1>. QED BY <1>1, <1>2, PTL DEF Spec

\* "anything it had already read stays read under the new name" (mailbox.py): through any
\* renames, purges and readings by others, for whoever shares its name with nobody.
THEOREM HandedIsConsumed ==
  ASSUME OneSelf
  PROVE  Spec => []HandedStaysRead
<1>1. NameInv => HandedStaysRead
  BY DEF NameInv, HandedStaysRead
<1>. QED BY <1>1, Naming, PTL

\* Nobody is offered its own messages as new, nor loses them from its conversations,
\* whatever it has been called since it sent them.
THEOREM OwnMailStaysOwn ==
  ASSUME OneSelf
  PROVE  Spec => []OwnMailIsOwn
<1>1. NameInv => OwnMailIsOwn
  BY DEF NameInv, OwnMailIsOwn, Peek, Turns, PartyTo
<1>. QED BY <1>1, Naming, PTL

(***************************************************************************)
(* Mail that follows                                                       *)
(***************************************************************************)

\* Every former string leads to whoever moved away from it last.
LeftInv ==
  /\ DOMAIN left = DOMAIN forwards
  /\ \A s \in DOMAIN left :
       /\ DOMAIN forwards[s] = {"new", "until"}
       /\ left[s] \in Apart => forwards[s].new = FormatAddress(who[left[s]])

LEMMA LeftStep ==
  ASSUME ShapeInv, NameInv, LeftInv, NEW c \in Clients, Step(c)
  PROVE  LeftInv'
<1>1. CASE ~Move(c)
  BY <1>1, Unwritten DEF LeftInv, Apart
<1>2. CASE Move(c)
  <2>1. PICK old \in Identities, new \in Identities :
           /\ old = who[c] /\ new # old /\ who' = [who EXCEPT ![c] = new]
           /\ forwards' = MoveForwards(FormatAddress(old), FormatAddress(new))
           /\ left' = Put(left, FormatAddress(old), c)
           /\ sharing \subseteq sharing'
           /\ \A d \in Clients \ {c} : d \notin sharing' =>
                /\ who'[d] = who[d]
                /\ FormatAddress(who[d]) \notin {FormatAddress(old), FormatAddress(new)}
    BY <1>2, Renamed
  <2>2. PICK a, b : a = FormatAddress(old) /\ b = FormatAddress(new)
    OBVIOUS
  <2>3. /\ DOMAIN forwards' = DOMAIN forwards \cup {a}
        /\ \A s \in DOMAIN forwards' :
             LET one == IF s = a THEN [new |-> b, until |-> day + GraceDays]
                        ELSE forwards[s]
             IN  forwards'[s] = IF one.new = a THEN [one EXCEPT !.new = b] ELSE one
    BY <2>1, <2>2 DEF MoveForwards, Put
  <2>4. /\ DOMAIN left' = DOMAIN left \cup {a}
        /\ \A s \in DOMAIN left' : left'[s] = IF s = a THEN c ELSE left[s]
    BY <2>1, <2>2 DEF Put
  <2>5. ASSUME NEW s \in DOMAIN left'
        PROVE  /\ DOMAIN forwards'[s] = {"new", "until"}
               /\ left'[s] \in Apart' => forwards'[s].new = FormatAddress(who'[left'[s]])
    <3>1. CASE s = a
      <4>1. DOMAIN forwards'[s] = {"new", "until"} /\ forwards'[s].new = b
        BY <2>3, <3>1
      <4>2. left'[s] = c /\ who'[c] = new
        BY <2>1, <2>4, <3>1 DEF ShapeInv
      <4>. QED BY <2>2, <4>1, <4>2
    <3>2. CASE s # a
      <4>1. /\ s \in DOMAIN left /\ s \in DOMAIN forwards
            /\ DOMAIN forwards[s] = {"new", "until"} /\ left'[s] = left[s]
            /\ forwards'[s] = IF forwards[s].new = a THEN [forwards[s] EXCEPT !.new = b]
                              ELSE forwards[s]
        BY <2>3, <2>4, <2>5, <3>2 DEF LeftInv
      <4>2. /\ DOMAIN forwards'[s] = {"new", "until"}
            /\ forwards'[s].new = IF forwards[s].new = a THEN b ELSE forwards[s].new
        BY <4>1
      <4>3. ASSUME left[s] \in Apart' PROVE forwards'[s].new = FormatAddress(who'[left[s]])
        <5>1. left[s] \in Apart /\ forwards[s].new = FormatAddress(who[left[s]])
          BY <2>1, <4>1, <4>3 DEF Apart, LeftInv
        <5>2. CASE left[s] = c
          <6>1. who'[c] = new
            BY <2>1 DEF ShapeInv
          <6>. QED BY <2>1, <2>2, <4>2, <5>1, <5>2, <6>1
        <5>3. CASE left[s] # c
          <6>1. who'[left[s]] = who[left[s]] /\ FormatAddress(who[left[s]]) # a
            BY <2>1, <2>2, <4>3, <5>3 DEF Apart
          <6>. QED BY <4>2, <5>1, <6>1
        <5>. QED BY <5>2, <5>3
      <4>. QED BY <4>1, <4>2, <4>3
    <3>. QED BY <3>1, <3>2
  <2>. QED BY <2>3, <2>4, <2>5 DEF LeftInv
<1>. QED BY <1>1, <1>2

\* A draft that nothing interleaved with goes where the forwards lead.
Led(k) ==
  IF Ahead(k.plan, "resolve") THEN k.to = k.asked
  ELSE k.to = IF k.asked \in DOMAIN forwards THEN forwards[k.asked].new ELSE k.asked

AskedInv == \A c \in Clients : Drafting(c) /\ call[c].alone => Led(call[c])

LEMMA AskedStep ==
  ASSUME ShapeInv, AskedInv, NEW c \in Clients, Step(c)
  PROVE  AskedInv'
<1>1. SUFFICES ASSUME NEW x \in Clients, Drafting(x)', call'[x].alone
               PROVE  Led(call[x])'
  BY DEF AskedInv
<1>2. PICK k : k = call[c]
  OBVIOUS
<1>3. /\ k # Idle /\ Base(c, k)
      /\ \/ call'[c] = Idle
         \/ \E q : q = call'[c] /\ q # Idle /\ Going(k, q) /\ Changing(c, k, q)
      /\ \A d \in Clients \ {c} :
           call'[d] = IF call[d] = Idle THEN Idle ELSE [call[d] EXCEPT !.alone = FALSE]
  BY <1>2, Rows
<1>4. CASE x # c
  <2>1. call'[x] = [call[x] EXCEPT !.alone = FALSE] /\ call[x] # Idle
    BY <1>1, <1>3, <1>4 DEF Drafting
  <2>2. DOMAIN call[x] = CallFields
    BY <2>1 DEF ShapeInv, Base, Basic
  <2>. QED BY <1>1, <2>1, <2>2 DEF CallFields
<1>5. CASE x = c
  <2>1. PICK q : q = call'[c] /\ Going(k, q) /\ Changing(c, k, q)
    BY <1>1, <1>3, <1>5 DEF Drafting
  <2>2. /\ k.plan # <<>> /\ Planned(Pings(k), k.plan) /\ Pings(k) \in BOOLEAN
        /\ Ahead(k.plan, k.plan[1])
        /\ \A t : Ahead(k.plan, t) => t = k.plan[1] \/ Follows(Pings(k), k.plan[1], t)
        /\ Ahead(k.plan, "again") => Ahead(k.plan, "resolve")
    BY <1>3, HeadFirst DEF Base, Basic, Pings
  <2>3. k.alone /\ Ahead(k.plan, "insert") /\ k.plan[1] # "insert"
    BY <1>1, <1>3, <1>5, <2>1, StillAhead DEF Going, Kept, Drafting
  <2>4. Led(k)
    BY <1>2, <1>3, <2>3 DEF AskedInv, Drafting
  <2>5. k.plan[1] \notin Renaming
    BY <2>2, <2>3 DEF Follows, Renaming
  <2>6. forwards' = forwards
    <3>1. ~Move(c)
      BY <1>2, <2>5 DEF Move, At, Renaming
    <3>. QED BY <3>1, Unwritten
  <2>7. Less(k, q) \/ Still(k, q) \/ Back(k, q)
    BY <2>1 DEF Going
  <2>8. CASE Back(k, q)
    BY <2>1, <2>4, <2>6, <2>8, <1>5 DEF Back, Led
  <2>9. CASE ~Back(k, q)
    <3>1. Ahead(q.plan, "resolve") <=> Ahead(k.plan, "resolve") /\ k.plan[1] # "resolve"
      BY <2>7, <2>9 DEF Less, Still, Lasting
    <3>2. CASE k.plan[1] \in {"look", "again"}
      BY <1>5, <2>1, <2>4, <2>6, <2>9, <3>1, <3>2 DEF Changing, Led
    <3>3. CASE k.plan[1] = "resolve"
      <4>1. k.to = k.asked
        BY <2>2, <2>4, <3>3 DEF Led
      <4>. QED BY <1>5, <2>1, <2>6, <3>1, <3>3, <4>1 DEF Changing, Led
    <3>4. CASE k.plan[1] \notin {"look", "again", "resolve"}
      <4>1. q.to = k.to /\ q.asked = k.asked
        BY <2>1, <2>5, <3>4 DEF Changing, Renaming
      <4>. QED BY <1>5, <2>1, <2>4, <2>6, <3>1, <3>4, <4>1 DEF Led
    <3>. QED BY <3>2, <3>3, <3>4
  <2>. QED BY <2>8, <2>9
<1>. QED BY <1>4, <1>5

LEMMA AskedRequest ==
  ASSUME ShapeInv, AskedInv, NEW c \in Clients, Request(c)
  PROVE  AskedInv'
<1>1. drafted \in Nat /\ who[c] \in Identities /\ DOMAIN call = Clients
  BY DEF ShapeInv
<1>2. PICK k : Starts(c, k) /\ Begin(c, k)
  BY <1>1, Begun
<1>3. /\ call' = [call EXCEPT ![c] = k] /\ forwards' = forwards
  BY <1>2 DEF Begin, stored
<1>4. /\ call'[c] = k /\ \A d \in Clients \ {c} : call'[d] = call[d]
  BY <1>1, <1>3
<1>5. ASSUME NEW x \in Clients, Drafting(x)', call'[x].alone
      PROVE  Led(call[x])'
  <2>1. CASE x = c
    BY <1>2, <1>4, <1>5, <2>1 DEF Drafting, Led, Starts
  <2>2. CASE x # c
    BY <1>3, <1>4, <1>5, <2>2 DEF Drafting, Led, AskedInv
  <2>. QED BY <2>1, <2>2
<1>. QED BY <1>5 DEF AskedInv

\* What a message is for, and what has become of it.
Meant(i, d) ==
  /\ messages[i].target = who[d] /\ messages[i].from # FormatAddress(who[d])
  /\ \A r \in reads : r[1] = i => r[2] = FormatAddress(who[d]) /\ <<d, i>> \in handed

MeantInv ==
  /\ \A c \in Clients : who[c] \in Handles
  /\ \A i \in DOMAIN messages :
       /\ \E c \in Clients : messages[i].from = FormatAddress(who[c])
       /\ \A d \in messages[i].for \cap Apart : Meant(i, d)
  /\ \A c \in Clients : \A d \in Apart :
       /\ Marking(c) /\ call[c].original \in DOMAIN messages
       /\ d \in messages[call[c].original].for
       => d = c

\* Mail to an agent that is apart reaches nobody else.
LEMMA OneReader ==
  ASSUME HandlesApart, ShapeInv, NameInv, MeantInv, NEW c \in Clients, NEW d \in Apart,
         RoutesTo(who[d], who[c])
  PROVE  d = c
<1>1. PICK v, w : v = who[d] /\ w = who[c]
  OBVIOUS
<1>2. v \in Handles \cap Identities /\ w \in Handles \cap Identities
  BY <1>1 DEF ShapeInv, MeantInv, Apart
<1>3. v.project # None /\ v.agent # None
  BY <1>2, IdentityParts, AddressAssumption
<1>4. v.project = w.project /\ v.agent = w.agent
  BY <1>1, <1>3 DEF RoutesTo, Positions
<1>5. v = w
  BY <1>2, <1>4 DEF HandlesApart
<1>. QED BY <1>1, <1>5 DEF NameInv, Apart

\* A message that nothing interleaved with names whoever holds the string it is sent to.
LEMMA SentTo ==
  ASSUME ShapeInv, NameInv, LeftInv, NEW k, k.alone, ~Ahead(k.plan, "resolve"), Led(k),
         NEW d \in Named(k.asked), d \in Apart
  PROVE  k.to = FormatAddress(who[d])
<1>1. k.to = IF k.asked \in DOMAIN forwards THEN forwards[k.asked].new ELSE k.asked
  BY DEF Led
<1>2. CASE k.asked \in DOMAIN left
  <2>1. d = left[k.asked]
    BY <1>2 DEF Named
  <2>. QED BY <1>1, <1>2, <2>1 DEF LeftInv
<1>3. CASE k.asked \notin DOMAIN left
  <2>1. FormatAddress(who[d]) = k.asked
    BY <1>3 DEF Named
  <2>. QED BY <1>1, <1>3, <2>1 DEF LeftInv
<1>. QED BY <1>2, <1>3

LEMMA MeantInsert ==
  ASSUME ShapeInv, FreshInv, NameInv, LeftInv, AskedInv, MeantInv,
         NEW c \in Clients, Insert(c), NEW i \in DOMAIN messages'
  PROVE  /\ \E x \in Clients : messages'[i].from = FormatAddress(who[x])
         /\ \A d \in messages'[i].for \cap Apart : Meant(i, d)'
         /\ i # call[c].id => i \in DOMAIN messages /\ messages'[i] = messages[i]
<1>1. PICK k : k = call[c]
  OBVIOUS
<1>2. /\ k # Idle /\ k.plan[1] = "insert" /\ Base(c, k)
      /\ UNCHANGED <<reads, forwards, who, handed, left, sharing>>
  BY <1>1 DEF Insert, At, ShapeInv, history
<1>3. /\ k.plan # <<>> /\ Planned(Pings(k), k.plan) /\ Pings(k) \in BOOLEAN
      /\ Ahead(k.plan, "insert")
      /\ \A t : Ahead(k.plan, t) => t = "insert" \/ Follows(Pings(k), "insert", t)
  BY <1>2, HeadFirst DEF Base, Basic, Pings
<1>4. Drafting(c) /\ ~Ahead(k.plan, "resolve")
  BY <1>1, <1>2, <1>3 DEF Drafting, Follows
<1>5. k.me = who[c] /\ Me(c) = FormatAddress(who[c])
  BY <1>1, <1>2 DEF NameInv, Me
<1>6. k.id \notin DOMAIN messages /\ \A r \in reads : r[1] # k.id
  BY <1>1, <1>4 DEF FreshInv
<1>7. ASSUME i \in DOMAIN messages, messages'[i] = messages[i]
      PROVE  /\ \E x \in Clients : messages'[i].from = FormatAddress(who[x])
             /\ \A d \in messages'[i].for \cap Apart : Meant(i, d)'
  BY <1>2, <1>7 DEF MeantInv, Meant
<1>8. CASE messages' = messages
  BY <1>7, <1>8
<1>9. CASE messages' # messages
  <2>1. PICK entry : /\ messages' = Put(messages, k.id, entry)
                     /\ entry.from = Me(c) /\ entry.target = ParseAddress(k.to)
                     /\ entry.for = IF k.alone THEN Named(k.asked) \ {c} ELSE {}
    <3>. DEFINE one == [from |-> Me(c), target |-> ParseAddress(k.to), thread |-> k.thread,
                        created |-> k.since, by |-> c,
                        for |-> IF k.alone THEN Named(k.asked) \ {c} ELSE {},
                        root |-> Root(k), late |-> Root(k) \notin DOMAIN messages \cup {0}]
    <3>1. messages' = Put(messages, k.id, one)
      BY <1>1, <1>9 DEF Insert
    <3>. QED BY <3>1
  <2>2. /\ DOMAIN messages' = DOMAIN messages \cup {k.id} /\ messages'[k.id] = entry
        /\ \A j \in DOMAIN messages : messages'[j] = messages[j]
    BY <1>6, <2>1 DEF Put
  <2>3. CASE i # k.id
    BY <1>1, <1>7, <2>2, <2>3
  <2>4. CASE i = k.id
    <3>1. ASSUME NEW d \in messages'[i].for \cap Apart PROVE Meant(i, d)'
      <4>1. k.alone /\ d \in Named(k.asked) /\ d # c /\ d \in Apart /\ d \in Clients
        BY <2>1, <2>2, <2>4, <3>1 DEF Apart
      <4>2. Led(k)
        BY <1>1, <1>4, <4>1 DEF AskedInv
      <4>3. k.to = FormatAddress(who[d])
        BY <1>4, <4>1, <4>2, SentTo
      <4>4. PICK v, w : v = who[d] /\ w = who[c] /\ v \in Identities /\ w \in Identities
        BY <4>1 DEF ShapeInv
      <4>5. messages'[i].target = v
        BY <2>1, <2>2, <2>4, <4>3, <4>4, ParsedBack
      <4>6. v # w
        BY <4>1, <4>4 DEF NameInv, Apart
      <4>7. messages'[i].from # FormatAddress(v)
        BY <1>5, <2>1, <2>2, <2>4, <4>4, <4>6, FormatsDiffer
      <4>. QED BY <1>2, <1>6, <2>4, <4>4, <4>5, <4>7 DEF Meant
    <3>2. messages'[i].from = FormatAddress(who[c])
      BY <1>5, <2>1, <2>2, <2>4
    <3>. QED BY <1>1, <2>4, <3>1, <3>2
  <2>. QED BY <2>3, <2>4
<1>. QED BY <1>7, <1>8, <1>9

LEMMA MeantMove ==
  ASSUME ShapeInv, NameInv, MeantInv, NEW c \in Clients, Move(c), NEW i \in DOMAIN messages'
  PROVE  /\ i \in DOMAIN messages /\ messages'[i].for = messages[i].for
         /\ \E x \in Clients : messages'[i].from = FormatAddress(who'[x])
         /\ \A d \in messages'[i].for \cap Apart' : Meant(i, d)'
<1>1. PICK old \in Identities, new \in Identities :
         /\ old = who[c] /\ new # old /\ who' = [who EXCEPT ![c] = new]
         /\ messages' = MoveMail(old, new)
         /\ reads' = MoveReads(FormatAddress(old), FormatAddress(new))
         /\ handed' = handed /\ sharing \subseteq sharing'
         /\ \A d \in Clients \ {c} : who[d] = new => d \in sharing' /\ c \in sharing'
         /\ \A d \in Clients \ {c} : d \notin sharing' =>
              /\ who'[d] = who[d]
              /\ FormatAddress(who[d]) \notin {FormatAddress(old), FormatAddress(new)}
  BY Renamed
<1>2. /\ who'[c] = new /\ \A d \in Clients \ {c} : who'[d] = who[d]
  BY <1>1 DEF ShapeInv
<1>3. PICK a, b : a = FormatAddress(old) /\ b = FormatAddress(new)
  OBVIOUS
<1>4. a # b
  BY <1>1, <1>3, FormatsDiffer
<1>5. PICK mail : mail = MoveMail(old, new)
  OBVIOUS
<1>6. /\ DOMAIN mail = DOMAIN messages
      /\ \A j \in DOMAIN messages :
           /\ mail[j].for = messages[j].for
           /\ mail[j].target = IF messages[j].target = old THEN new ELSE messages[j].target
           /\ mail[j].from = IF messages[j].from = a THEN b ELSE messages[j].from
  BY <1>3, <1>5, MovedMail DEF ShapeInv
<1>7. /\ i \in DOMAIN messages /\ messages'[i].for = messages[i].for
      /\ messages'[i].target = IF messages[i].target = old THEN new ELSE messages[i].target
      /\ messages'[i].from = IF messages[i].from = a THEN b ELSE messages[i].from
  BY <1>1, <1>5, <1>6
<1>8. PICK x \in Clients : messages[i].from = FormatAddress(who[x])
  BY <1>7 DEF MeantInv
<1>9. \E y \in Clients : messages'[i].from = FormatAddress(who'[y])
  <2>1. CASE messages[i].from = a
    BY <1>2, <1>3, <1>7, <2>1
  <2>2. CASE messages[i].from # a
    <3>1. x # c
      BY <1>1, <1>3, <1>8, <2>2
    <3>. QED BY <1>2, <1>7, <1>8, <2>2, <3>1
  <2>. QED BY <2>1, <2>2
<1>10. \A r \in reads' :
         \/ r \in reads /\ (r[2] # a \/ <<r[1], b>> \in reads)
         \/ r[2] = b /\ \E s \in reads : s[1] = r[1] /\ s[2] = a
  BY <1>1, <1>3 DEF MoveReads
<1>11. ASSUME NEW d \in messages'[i].for \cap Apart' PROVE Meant(i, d)'
  <2>1. /\ d \in Clients /\ d \notin sharing'
        /\ messages[i].target = who[d] /\ messages[i].from # FormatAddress(who[d])
        /\ \A r \in reads : r[1] = i => r[2] = FormatAddress(who[d]) /\ <<d, i>> \in handed
    BY <1>1, <1>7, <1>11 DEF Apart, MeantInv, Meant
  <2>2. CASE d = c
    <3>1. messages'[i].target = new /\ messages'[i].from = messages[i].from
      BY <1>1, <1>3, <1>7, <2>1, <2>2
    <3>2. messages[i].from # b
      <4>1. SUFFICES ASSUME messages[i].from = b PROVE FALSE
        OBVIOUS
      <4>2. who[x] \in Identities
        BY DEF ShapeInv
      <4>3. who[x] = new
        BY <1>3, <1>8, <4>1, <4>2, FormatsDiffer
      <4>. QED BY <1>1, <2>1, <2>2, <4>3
    <3>3. ASSUME NEW r \in reads', r[1] = i PROVE r[2] = b /\ <<c, i>> \in handed
      <4>1. \A s \in reads : s[1] = i => s[2] = a /\ <<c, i>> \in handed
        BY <1>1, <1>3, <2>1, <2>2
      <4>2. CASE r \in reads /\ (r[2] # a \/ <<r[1], b>> \in reads)
        <5>1. r[2] = a /\ <<i, b>> \in reads
          BY <3>3, <4>1, <4>2
        <5>2. b = a
          BY <4>1, <5>1
        <5>. QED BY <1>4, <5>2
      <4>. QED BY <1>10, <3>3, <4>1, <4>2
    <3>. QED BY <1>1, <1>2, <1>3, <2>2, <3>1, <3>2, <3>3 DEF Meant
  <2>3. CASE d # c
    <3>1. who'[d] = who[d] /\ FormatAddress(who[d]) # a /\ FormatAddress(who[d]) # b
      BY <1>1, <1>3, <2>1, <2>3
    <3>2. messages'[i].target = who[d]
      BY <1>3, <1>7, <2>1, <3>1
    <3>3. messages'[i].from # FormatAddress(who[d])
      BY <1>7, <2>1, <3>1
    <3>4. \A r \in reads' : r[1] = i => r[2] = FormatAddress(who[d]) /\ <<d, i>> \in handed
      BY <1>10, <2>1, <3>1
    <3>. QED BY <1>1, <3>1, <3>2, <3>3, <3>4 DEF Meant
  <2>. QED BY <2>2, <2>3
<1>. QED BY <1>7, <1>9, <1>11

LEMMA MeantStep ==
  ASSUME OneSelf, HandlesApart, ShapeInv, FreshInv, NameInv, LeftInv, AskedInv, MeantInv,
         NEW c \in Clients, Step(c)
  PROVE  MeantInv'
<1>1. /\ Insert(c) => Drafting(c)
      /\ Mark(c) => Marking(c)
      /\ \A x \in Clients : Marking(x)' =>
           /\ call'[x].original = call[x].original
           /\ Marking(x) \/ (x = c /\ Look(c) /\ Readable(c))
  BY Underway
<1>2. sharing \subseteq sharing'
  BY Renamed, Unwritten
<1>3. ASSUME NEW x \in Clients PROVE who'[x] \in Handles
  <2>1. CASE Move(c)
    BY <2>1, Taken DEF Move, MeantInv, ShapeInv, Handles
  <2>2. CASE ~Move(c)
    BY <2>2, Unwritten DEF MeantInv
  <2>. QED BY <2>1, <2>2
<1>4. ASSUME NEW i \in DOMAIN messages'
      PROVE  /\ \E x \in Clients : messages'[i].from = FormatAddress(who'[x])
             /\ \A d \in messages'[i].for \cap Apart' : Meant(i, d)'
             /\ ~Insert(c) \/ i # call[c].id =>
                  i \in DOMAIN messages /\ messages'[i].for = messages[i].for
  <2>1. CASE Open(c)
    <3>1. /\ i \in DOMAIN messages /\ messages'[i] = messages[i]
          /\ reads' \subseteq reads /\ who' = who /\ sharing' = sharing
          /\ \A h \in handed : h[2] = i => h \in handed'
      BY <1>4, <2>1 DEF Open, PurgeExpired, Keep
    <3>2. \A d : <<d, i>> \in handed => <<d, i>> \in handed'
      BY <3>1
    <3>. QED BY <3>1, <3>2 DEF MeantInv, Meant, Apart
  <2>2. CASE Insert(c)
    <3>1. who' = who /\ sharing' = sharing
      BY <2>2 DEF Insert, history
    <3>. QED BY <1>4, <2>2, <3>1, MeantInsert DEF Apart
  <2>3. CASE Mark(c)
    <3>1. messages' = messages /\ who' = who /\ sharing' = sharing
      BY <2>3 DEF Mark
    <3>2. PICK k : k = call[c]
      OBVIOUS
    <3>3. \/ reads' = reads /\ handed' = handed
          \/ /\ reads' = reads \cup {<<k.original, Me(c)>>}
             /\ handed' = handed \cup {<<c, k.original>>}
      BY <2>3, <3>2 DEF Mark
    <3>4. k.me = who[c] /\ Me(c) = FormatAddress(who[c])
      BY <2>3, <3>2 DEF Mark, At, NameInv, Me
    <3>5. ASSUME NEW d \in messages[i].for \cap Apart PROVE Meant(i, d)'
      <4>1. Meant(i, d)
        BY <1>4, <3>1, <3>5 DEF MeantInv
      <4>2. i = k.original => d = c
        BY <1>1, <1>4, <2>3, <3>1, <3>2, <3>5 DEF MeantInv
      <4>3. ASSUME NEW r \in reads', r[1] = i
            PROVE  r[2] = FormatAddress(who[d]) /\ <<d, i>> \in handed'
        BY <3>3, <3>4, <4>1, <4>2, <4>3 DEF Meant
      <4>. QED BY <3>1, <4>1, <4>3 DEF Meant
    <3>. QED BY <1>4, <3>1, <3>5 DEF MeantInv, Apart
  <2>4. CASE Move(c)
    BY <1>4, <2>4, MeantMove DEF Insert, Move, At
  <2>5. CASE ~Open(c) /\ ~Insert(c) /\ ~Mark(c) /\ ~Move(c)
    BY <1>4, <2>5, Unwritten DEF MeantInv, Meant, Apart
  <2>. QED BY <2>1, <2>2, <2>3, <2>4, <2>5
<1>5. ASSUME NEW x \in Clients, NEW d \in Apart', Marking(x)',
             call'[x].original \in DOMAIN messages', d \in messages'[call'[x].original].for
      PROVE  d = x
  <2>1. PICK i : i = call[x].original
    OBVIOUS
  <2>2. call'[x].original = i /\ d \in Apart
    BY <1>1, <1>2, <1>5, <2>1 DEF Apart
  <2>3. ~Insert(c) \/ i # call[c].id
    <3>1. CASE Marking(x)
      BY <1>1, <2>1, <3>1 DEF FreshInv
    <3>2. CASE Look(c)
      BY <3>2 DEF Insert, Look, At
    <3>. QED BY <1>1, <1>5, <3>1, <3>2
  <2>4. i \in DOMAIN messages /\ d \in messages[i].for
    BY <1>4, <1>5, <2>2, <2>3
  <2>5. CASE Marking(x)
    BY <2>1, <2>2, <2>4, <2>5 DEF MeantInv
  <2>6. CASE x = c /\ Look(c) /\ Readable(c)
    <3>1. call[c].me = who[c]
      BY <2>6 DEF Look, At, NameInv
    <3>2. RoutesTo(messages[i].target, who[c])
      BY <2>1, <2>6, <3>1 DEF Readable
    <3>3. messages[i].target = who[d]
      BY <2>2, <2>4 DEF MeantInv, Meant
    <3>. QED BY <2>2, <2>6, <3>2, <3>3, OneReader
  <2>. QED BY <1>1, <1>5, <2>5, <2>6
<1>. QED BY <1>3, <1>4, <1>5 DEF MeantInv

LEMMA MeantRequest ==
  ASSUME ShapeInv, MeantInv, NEW c \in Clients, Request(c)
  PROVE  MeantInv'
<1>1. drafted \in Nat /\ who[c] \in Identities /\ DOMAIN call = Clients
  BY DEF ShapeInv
<1>2. PICK k : Starts(c, k) /\ Begin(c, k)
  BY <1>1, Begun
<1>3. /\ call' = [call EXCEPT ![c] = k]
      /\ UNCHANGED <<messages, reads, who, handed, sharing>>
  BY <1>2 DEF Begin, stored, history
<1>4. /\ call'[c] = k /\ \A d \in Clients \ {c} : call'[d] = call[d]
  BY <1>1, <1>3
<1>5. \A x \in Clients : Marking(x)' => Marking(x) /\ call'[x] = call[x]
  BY <1>2, <1>4 DEF Starts, Marking
<1>6. \A i, d : Meant(i, d)' <=> Meant(i, d)
  BY <1>3 DEF Meant
<1>. QED BY <1>3, <1>5, <1>6 DEF MeantInv, Apart

\* Everything that decides where mail for an agent is.
FollowInv == ShapeInv /\ FreshInv /\ NameInv /\ LeftInv /\ AskedInv /\ MeantInv

LEMMA FollowNext ==
  ASSUME OneSelf, HandlesApart, FollowInv, [Next]_desks
  PROVE  FollowInv'
<1>1. ShapeInv' /\ FreshInv' /\ NameInv'
  BY ShapeNext, FreshNext, NameNext DEF FollowInv
<1>2. ASSUME NEW c \in Clients, Step(c) PROVE LeftInv' /\ AskedInv' /\ MeantInv'
  BY <1>2, LeftStep, AskedStep, MeantStep DEF FollowInv
<1>3. ASSUME NEW c \in Clients, Request(c) PROVE LeftInv' /\ AskedInv' /\ MeantInv'
  <2>1. UNCHANGED <<forwards, left, who, sharing>>
    <3>1. drafted \in Nat /\ who[c] \in Identities /\ DOMAIN call = Clients
      BY DEF FollowInv, ShapeInv
    <3>2. \E k : Starts(c, k) /\ Begin(c, k)
      BY <1>3, <3>1, Begun DEF FollowInv
    <3>. QED BY <3>2 DEF Begin, stored, history
  <2>2. LeftInv'
    BY <2>1 DEF FollowInv, LeftInv, Apart
  <2>. QED BY <1>3, <2>2, AskedRequest, MeantRequest DEF FollowInv
<1>4. CASE Sleep \/ UNCHANGED desks
  <2>1. UNCHANGED <<messages, reads, forwards, call, who, handed, left, sharing>>
    BY <1>4 DEF Sleep, desks, hub, stored, history
  <2>2. LeftInv'
    BY <2>1 DEF FollowInv, LeftInv, Apart
  <2>3. AskedInv'
    BY <2>1 DEF FollowInv, AskedInv, Drafting, Led
  <2>4. MeantInv'
    BY <2>1 DEF FollowInv, MeantInv, Meant, Marking, Apart
  <2>. QED BY <1>1, <2>2, <2>3, <2>4 DEF FollowInv
<1>. QED BY <1>1, <1>2, <1>3, <1>4 DEF Next, FollowInv

LEMMA FollowInit ==
  ASSUME OneSelf, Init
  PROVE  FollowInv
<1>1. ShapeInv /\ FreshInv /\ NameInv
  BY ShapeInit, FreshInit, NameInit
<1>2. LeftInv /\ AskedInv /\ MeantInv
  BY DEF Init, LeftInv, AskedInv, MeantInv, Drafting, Marking, Handles
<1>. QED BY <1>1, <1>2 DEF FollowInv

LEMMA Following ==
  ASSUME OneSelf, HandlesApart
  PROVE  Spec => []FollowInv
<1>1. Init => FollowInv
  BY FollowInit
<1>2. FollowInv /\ [Next]_desks => FollowInv'
  BY FollowNext
<1>. QED BY <1>1, <1>2, PTL DEF Spec

\* A message sent to a present or former name of an agent stays in reach of the agent,
\* on a thread it sees and in its inbox until it is handed out: "mail already delivered to
\* the old address belongs to the same agent" (mailbox.py), through any renames.
THEOREM MailIsFollowed ==
  ASSUME OneSelf, HandlesApart
  PROVE  Spec => []MailFollows
<1>1. ASSUME FollowInv, NEW i \in DOMAIN messages, NEW c \in messages[i].for \cap Apart
      PROVE  /\ i \in Turns(messages[i].thread, who[c])
             /\ i \in Peek(who[c]) \/ <<c, i>> \in handed
  <2>1. Meant(i, c)
    BY <1>1 DEF FollowInv, MeantInv
  <2>2. RoutesTo(messages[i].target, who[c])
    BY <2>1 DEF Meant, RoutesTo
  <2>3. <<i, FormatAddress(who[c])>> \in reads => <<c, i>> \in handed
    BY <2>1 DEF Meant
  <2>. QED BY <2>1, <2>2, <2>3 DEF Turns, PartyTo, Peek, Meant
<1>2. FollowInv => MailFollows
  BY <1>1 DEF MailFollows
<1>. QED BY <1>2, Following, PTL

\* "the last word is mine and they haven't consumed it" (mailbox.py): list_threads says
\* so of a message exactly as long as the agent it was meant for has it unread.
THEOREM AwaitingIsTrue ==
  ASSUME OneSelf, HandlesApart
  PROVE  Spec => []AwaitingIsWaiting
<1>1. ASSUME FollowInv, NEW i \in DOMAIN messages, NEW c \in Apart, NEW d \in Apart,
             messages[i].by = c, messages[i].for = {d},
             \A j \in Turns(messages[i].thread, who[c]) : j <= i
      PROVE  messages[i].thread \in Awaiting(who[c]) <=> i \in Peek(who[d])
  <2>1. PICK t : t = messages[i].thread
    OBVIOUS
  <2>2. messages[i].from = FormatAddress(who[c])
    BY <1>1 DEF FollowInv, NameInv
  <2>3. i \in Turns(t, who[c])
    BY <2>1, <2>2 DEF Turns, PartyTo
  <2>4. Meant(i, d)
    BY <1>1 DEF FollowInv, MeantInv
  <2>5. RoutesTo(messages[i].target, who[d])
    BY <2>4 DEF Meant, RoutesTo
  <2>6. i \in Peek(who[d]) <=> \A r \in reads : r[1] # i
    <3>1. i \in Peek(who[d]) <=> <<i, FormatAddress(who[d])>> \notin reads
      BY <2>4, <2>5 DEF Peek, Meant
    <3>2. ASSUME NEW r \in reads, r[1] = i PROVE <<i, FormatAddress(who[d])>> \in reads
      <4>1. <<d, i>> \in handed
        BY <2>4, <3>2 DEF Meant
      <4>2. PICK h : h = <<d, i>> /\ h \in handed /\ h[1] = d /\ h[2] = i
        BY <4>1
      <4>. QED BY <1>1, <4>2 DEF FollowInv, NameInv
    <3>. QED BY <3>1, <3>2
  <2>7. \A last \in Turns(t, who[c]) : (\A j \in Turns(t, who[c]) : j <= last) => last = i
    <3>1. ASSUME NEW last \in Turns(t, who[c]), \A j \in Turns(t, who[c]) : j <= last
          PROVE  last = i
      <4>1. drafted \in Nat /\ last \in 1 .. drafted /\ i \in 1 .. drafted
        BY <1>1 DEF FollowInv, ShapeInv, Turns
      <4>2. last <= i /\ i <= last
        BY <1>1, <2>1, <2>3, <3>1
      <4>. QED BY <4>1, <4>2
    <3>. QED BY <3>1
  <2>8. t \in Awaiting(who[c]) <=> \A r \in reads : r[1] # i
    BY <1>1, <2>1, <2>2, <2>3, <2>7 DEF Awaiting
  <2>. QED BY <2>1, <2>6, <2>8
<1>2. FollowInv => AwaitingIsWaiting
  BY <1>1 DEF AwaitingIsWaiting
<1>. QED BY <1>2, Following, PTL

(***************************************************************************)
(* Forwards end somewhere                                                  *)
(***************************************************************************)

\* What the walk along the forwards has passed, and where it is: not at the caller's.
Walked(k) ==
  LET me   == FormatAddress(k.me)
      seen == ToSet(k.list) \cup {k.asked}
  IN  /\ k.list \in Seq(DOMAIN forwards) /\ me \notin seen /\ FormatAddress(k.as) \in seen
      /\ \A s \in ToSet(k.list) : forwards[s].new \in seen

\* A set of forwarded strings the new name cannot be led out of, and not to the caller's.
Elsewhere(k, W) ==
  LET me  == FormatAddress(k.me)
      new == FormatAddress(k.as)
  IN  /\ W \subseteq DOMAIN forwards /\ me \notin W
      /\ new \in DOMAIN forwards => new \in W
      /\ \A s \in W : /\ forwards[s].new # me
                      /\ forwards[s].new \in DOMAIN forwards => forwards[s].new \in W

Walk(k) ==
  Ahead(k.plan, "move") =>
    IF Ahead(k.plan, "vacant") THEN k.list = <<>> /\ Ahead(k.plan, "hop")
    ELSE IF Ahead(k.plan, "hop") THEN Walked(k)
    ELSE \E W \in SUBSET DOMAIN forwards : Elsewhere(k, W)

WalkInv == \A c \in Clients : call[c] # Idle /\ call[c].alone => Walk(call[c])

\* Which action the step of a call is.
LEMMA Which ==
  ASSUME NEW c \in Clients, Step(c), call'[c] # Idle, DOMAIN call = Clients
  PROVE  /\ call[c].plan[1] = "vacant" => Vacant(c)
         /\ call[c].plan[1] = "hop" => Hop(c)
         /\ call[c].plan[1] = "supersede" => Supersede(c)
<1>1. ~Abandon(c)
  BY Stopped DEF Abandon
<1>. QED BY <1>1 DEF Step, At, Open, Touch, Resolve, Join, Party, Insert, Look, Mark, Again,
       Register, Profile, Supersede, Retire, Vacant, Hop, Carry, Move

\* The walk starts at the new name.
LEMMA WalkVacant ==
  ASSUME ShapeInv, WalkInv, NEW c \in Clients, Vacant(c), call'[c] # Idle, call[c].alone
  PROVE  Walk(call[c])'
<1>1. PICK k : k = call[c]
  OBVIOUS
<1>2. /\ k # Idle /\ k.plan[1] = "vacant" /\ Base(c, k) /\ Basic(k) /\ DOMAIN call = Clients
  BY <1>1 DEF Vacant, At, ShapeInv, Base
<1>3. /\ DOMAIN k = CallFields /\ k.plan # <<>> /\ Planned(Pings(k), k.plan)
      /\ Pings(k) \in BOOLEAN
  BY <1>2 DEF Basic, Pings
<1>4. Ahead(k.plan, "vacant") /\ Ahead(k.plan, "move")
  BY <1>2, <1>3, HeadFirst DEF Base
<1>5. k.list = <<>> /\ Ahead(k.plan, "hop")
  BY <1>1, <1>2, <1>4 DEF WalkInv, Walk
<1>6. PICK new : new = ParseAddress(k.to)
  OBVIOUS
<1>7. PICK now : now = [k EXCEPT !.as = new, !.asked = FormatAddress(new)]
  OBVIOUS
<1>8. ~Stop(c)
  BY <1>2, Stopped
<1>9. /\ new # Malformed /\ IsSpecific(new) /\ new # k.me /\ Onward(c, now)
      /\ forwards' = forwards
  BY <1>1, <1>6, <1>7, <1>8 DEF Vacant, stored
<1>10. /\ now.plan = k.plan /\ DOMAIN now = CallFields /\ now.list = k.list
       /\ now.as = new /\ now.asked = FormatAddress(new) /\ now.me = k.me
  BY <1>3, <1>7 DEF CallFields
<1>11. PICK q : q = Done(now)
  OBVIOUS
<1>12. /\ q.plan = Tail(k.plan) /\ q.list = <<>> /\ q.as = new /\ q.me = k.me
       /\ q.asked = FormatAddress(new)
  BY <1>5, <1>10, <1>11 DEF Done, CallFields
<1>13. call'[c] = q
  BY <1>2, <1>9, <1>11, Continued DEF Onward, Done
<1>14. ~Ahead(q.plan, "vacant") /\ Ahead(q.plan, "hop")
  BY <1>2, <1>3, <1>5, <1>12, TailPlanned
<1>15. FormatAddress(new) # FormatAddress(k.me)
  BY <1>2, <1>6, <1>9, ParsesToOne, FormatsDiffer DEF Base
<1>16. Walked(q)
  <2>1. ToSet(q.list) = {} /\ q.list \in Seq(DOMAIN forwards)
    BY <1>12 DEF ToSet
  <2>. HIDE DEF FormatAddress
  <2>. QED BY <1>12, <1>15, <2>1 DEF Walked
<1>17. Walked(q)'
  BY <1>9, <1>16 DEF Walked
<1>. QED BY <1>13, <1>14, <1>17 DEF Walk

LEMMA AppendSet ==
  ASSUME NEW S, NEW list \in Seq(S), NEW x \in S
  PROVE  Append(list, x) \in Seq(S) /\ ToSet(Append(list, x)) = ToSet(list) \cup {x}
<1>1. /\ Append(list, x) \in Seq(S) /\ Len(Append(list, x)) = Len(list) + 1
      /\ \A i \in 1 .. Len(list) : Append(list, x)[i] = list[i]
      /\ Append(list, x)[Len(list) + 1] = x
  BY AppendProperties
<1>2. /\ DOMAIN list = 1 .. Len(list) /\ Len(list) \in Nat
      /\ DOMAIN Append(list, x) = 1 .. Len(list) + 1
  BY <1>1
<1>3. ASSUME NEW y \in ToSet(Append(list, x)) PROVE y \in ToSet(list) \cup {x}
  <2>1. PICK i \in 1 .. Len(list) + 1 : y = Append(list, x)[i]
    BY <1>2, <1>3 DEF ToSet
  <2>2. i = Len(list) + 1 \/ i \in 1 .. Len(list)
    BY <1>2
  <2>. QED BY <1>1, <1>2, <2>1, <2>2 DEF ToSet
<1>4. ASSUME NEW y \in ToSet(list) \cup {x} PROVE y \in ToSet(Append(list, x))
  <2>1. CASE y = x
    <3>1. Len(list) + 1 \in DOMAIN Append(list, x)
      BY <1>2
    <3>. QED BY <1>1, <2>1, <3>1 DEF ToSet
  <2>2. CASE y \in ToSet(list)
    <3>1. PICK i \in 1 .. Len(list) : y = list[i]
      BY <1>2, <2>2 DEF ToSet
    <3>2. i \in DOMAIN Append(list, x)
      BY <1>2
    <3>. QED BY <1>1, <3>1, <3>2 DEF ToSet
  <2>. QED BY <1>4, <2>1, <2>2
<1>. QED BY <1>1, <1>3, <1>4

\* A hop on the way, and the end of the walk.
LEMMA WalkHop ==
  ASSUME ShapeInv, WalkInv, NEW c \in Clients, Hop(c), call'[c] # Idle, call[c].alone
  PROVE  Walk(call[c])'
<1>1. PICK k : k = call[c]
  OBVIOUS
<1>2. /\ k # Idle /\ k.plan[1] = "hop" /\ Base(c, k) /\ Basic(k) /\ DOMAIN call = Clients
      /\ forwards' = forwards
  BY <1>1 DEF Hop, At, ShapeInv, Base, stored
<1>3. /\ DOMAIN k = CallFields /\ k.plan # <<>> /\ Planned(Pings(k), k.plan)
      /\ Pings(k) \in BOOLEAN
  BY <1>2 DEF Basic, Pings
<1>4. Ahead(k.plan, "hop") /\ Walk(k)
  BY <1>1, <1>2, <1>3, HeadFirst DEF WalkInv
<1>5. CASE Onward(c, [k EXCEPT !.list = <<>>])
           /\ (k.asked \notin DOMAIN forwards \/ k.asked \in ToSet(k.list))
  <2>1. PICK now : now = [k EXCEPT !.list = <<>>]
    OBVIOUS
  <2>2. PICK q : q = Done(now)
    OBVIOUS
  <2>3. now.plan = k.plan /\ DOMAIN now = CallFields /\ now.as = k.as /\ now.me = k.me
        /\ now.list = <<>>
    BY <1>3, <2>1 DEF CallFields
  <2>4. q.plan = Tail(k.plan) /\ q.as = k.as /\ q.me = k.me /\ q.list = <<>>
    BY <2>2, <2>3 DEF Done, CallFields
  <2>5. call'[c] = q
    BY <1>2, <1>5, <2>1, <2>2, Continued DEF Onward, Done
  <2>6. /\ Ahead(q.plan, "move") <=> Ahead(k.plan, "move")
        /\ Ahead(q.plan, "vacant") <=> Ahead(k.plan, "vacant")
        /\ ~Ahead(q.plan, "hop")
    BY <1>2, <1>3, <2>4, TailPlanned
  <2>7. ~Ahead(q.plan, "vacant")
    BY <1>2, <1>3, <2>6, HeadFirst DEF Follows
  <2>8. ASSUME Ahead(k.plan, "move")
        PROVE  \E W \in SUBSET DOMAIN forwards : Elsewhere(q, W)
    <3>1. Walked(k)
      BY <1>4, <2>6, <2>7, <2>8 DEF Walk
    <3>2. ToSet(k.list) \subseteq DOMAIN forwards
      BY <3>1 DEF Walked, ToSet
    <3>. HIDE DEF FormatAddress
    <3>3. Elsewhere(q, ToSet(k.list))
      BY <1>5, <2>4, <3>1, <3>2 DEF Elsewhere, Walked
    <3>. QED BY <3>2, <3>3
  <2>9. \E W \in SUBSET DOMAIN forwards' : Ahead(q.plan, "move") => Elsewhere(q, W)'
    BY <1>2, <2>6, <2>8 DEF Elsewhere
  <2>. QED BY <2>5, <2>6, <2>7, <2>9 DEF Walk
<1>6. CASE /\ k.asked \in DOMAIN forwards /\ forwards[k.asked].new # Me(c)
           /\ Continue(c, [k EXCEPT !.list = Append(@, k.asked),
                                    !.asked = forwards[k.asked].new])
  <2>1. PICK to : to = forwards[k.asked].new
    OBVIOUS
  <2>2. PICK q : q = [k EXCEPT !.list = Append(@, k.asked), !.asked = to]
    OBVIOUS
  <2>3. /\ q.plan = k.plan /\ q.as = k.as /\ q.me = k.me /\ q.asked = to
        /\ q.list = Append(k.list, k.asked)
    BY <1>3, <2>2 DEF CallFields
  <2>4. call'[c] = q
    BY <1>2, <1>3, <1>6, <2>1, <2>2, <2>3, Continued
  <2>5. Ahead(k.plan, "move") /\ ~Ahead(k.plan, "vacant") => Walked(q)
    <3>1. SUFFICES ASSUME Ahead(k.plan, "move"), ~Ahead(k.plan, "vacant")
                   PROVE  Walked(q)
      OBVIOUS
    <3>2. Walked(k)
      BY <1>4, <3>1 DEF Walk
    <3>3. k.list \in Seq(DOMAIN forwards)
      BY <3>2 DEF Walked
    <3>4. /\ q.list \in Seq(DOMAIN forwards)
          /\ ToSet(q.list) = ToSet(k.list) \cup {k.asked}
      BY <1>6, <2>3, <3>3, AppendSet
    <3>5. to # FormatAddress(k.me)
      BY <1>1, <1>6, <2>1 DEF Me
    <3>. HIDE DEF FormatAddress
    <3>. QED BY <2>1, <2>3, <3>2, <3>4, <3>5 DEF Walked
  <2>6. ~Ahead(k.plan, "vacant")
    BY <1>2, <1>3, HeadFirst DEF Follows
  <2>7. Ahead(k.plan, "move") => Walked(q)'
    BY <1>2, <2>5, <2>6 DEF Walked
  <2>. QED BY <1>4, <2>3, <2>4, <2>6, <2>7 DEF Walk
<1>7. CASE Stop(c)
  BY <1>2, <1>7, Stopped
<1>. QED BY <1>1, <1>5, <1>6, <1>7 DEF Hop

LEMMA WalkStep ==
  ASSUME ShapeInv, WalkInv, NEW c \in Clients, Step(c)
  PROVE  WalkInv'
<1>1. ASSUME NEW x \in Clients \ {c}, call'[x] # Idle PROVE call'[x].alone = FALSE
  <2>1. call'[x] = [call[x] EXCEPT !.alone = FALSE] /\ call[x] # Idle
    BY <1>1, Rows
  <2>2. DOMAIN call[x] = CallFields
    BY <2>1 DEF ShapeInv, Base, Basic
  <2>. QED BY <2>1, <2>2 DEF CallFields
<1>2. ASSUME call'[c] # Idle, call'[c].alone PROVE Walk(call[c])'
  <2>1. PICK k : k = call[c]
    OBVIOUS
  <2>2. /\ k # Idle /\ Base(c, k)
        /\ \E q : q = call'[c] /\ Going(k, q) /\ Changing(c, k, q)
    BY <1>2, <2>1, Rows
  <2>3. PICK q : q = call'[c] /\ Going(k, q) /\ Changing(c, k, q)
    BY <2>2
  <2>4. /\ k.plan # <<>> /\ Planned(Pings(k), k.plan) /\ Pings(k) \in BOOLEAN
        /\ Ahead(k.plan, k.plan[1])
        /\ \A t : Ahead(k.plan, t) => t = k.plan[1] \/ Follows(Pings(k), k.plan[1], t)
    BY <2>2, HeadFirst DEF Base, Basic, Pings
  <2>5. q.me = k.me /\ k.alone /\ Walk(k)
    BY <1>2, <2>1, <2>2, <2>3 DEF Going, Kept, WalkInv
  <2>6. CASE k.plan[1] = "vacant"
    BY <1>2, <2>1, <2>5, <2>6, Which, WalkVacant DEF ShapeInv
  <2>7. CASE k.plan[1] = "hop"
    BY <1>2, <2>1, <2>5, <2>7, Which, WalkHop DEF ShapeInv
  <2>8. CASE k.plan[1] \notin {"vacant", "hop"}
    <3>1. SUFFICES ASSUME Ahead(q.plan, "move") PROVE Walk(q)'
      BY <2>3 DEF Walk
    <3>2. /\ Less(k, q) \/ Still(k, q) \/ Back(k, q)
          /\ ~Back(k, q)
      BY <2>3, <3>1 DEF Going, Back
    <3>3. Ahead(k.plan, "move") /\ k.plan[1] # "move"
      BY <3>1, <3>2 DEF Less, Still, Lasting
    <3>4. k.plan[1] \in {"open", "carry"}
      BY <2>4, <2>8, <3>3 DEF Follows, Renaming
    <3>5. /\ Ahead(q.plan, "vacant") <=> Ahead(k.plan, "vacant")
          /\ Ahead(q.plan, "hop") <=> Ahead(k.plan, "hop")
      BY <3>2, <3>4 DEF Less, Still, Lasting
    <3>6. q.as = k.as /\ q.asked = k.asked /\ q.list = k.list
      BY <2>3, <3>4 DEF Changing
    <3>7. forwards' = forwards
      <4>1. ~Move(c)
        BY <2>1, <3>3 DEF Move, At
      <4>. QED BY <4>1, Unwritten
    <3>8. Walk(q)
      BY <2>5, <3>1, <3>3, <3>5, <3>6 DEF Walk, Walked, Elsewhere
    <3>. QED BY <3>7, <3>8 DEF Walk, Walked, Elsewhere
  <2>. QED BY <2>6, <2>7, <2>8
<1>. QED BY <1>1, <1>2 DEF WalkInv

LEMMA WalkRequest ==
  ASSUME ShapeInv, WalkInv, NEW c \in Clients, Request(c)
  PROVE  WalkInv'
<1>1. drafted \in Nat /\ who[c] \in Identities /\ DOMAIN call = Clients
  BY DEF ShapeInv
<1>2. PICK k : Starts(c, k) /\ Begin(c, k)
  BY <1>1, Begun
<1>3. /\ call' = [call EXCEPT ![c] = k] /\ forwards' = forwards
  BY <1>2 DEF Begin, stored
<1>4. /\ call'[c] = k /\ \A d \in Clients \ {c} : call'[d] = call[d]
  BY <1>1, <1>3
<1>5. Walk(k)'
  BY <1>2 DEF Walk, Starts
<1>6. ASSUME NEW x \in Clients \ {c}, call'[x] # Idle, call'[x].alone PROVE Walk(call[x])'
  BY <1>3, <1>4, <1>6 DEF WalkInv, Walk, Walked, Elsewhere
<1>. QED BY <1>4, <1>5, <1>6 DEF WalkInv

LEMMA WalkNext ==
  ASSUME ShapeInv, WalkInv, [Next]_desks
  PROVE  WalkInv'
<1>1. CASE Sleep \/ UNCHANGED desks
  <2>1. call' = call /\ forwards' = forwards
    BY <1>1 DEF Sleep, desks, hub, stored
  <2>. QED BY <2>1 DEF WalkInv, Walk, Walked, Elsewhere
<1>. QED BY <1>1, WalkStep, WalkRequest DEF Next

LEMMA WalkInit ==
  ASSUME Init
  PROVE  WalkInv
BY DEF Init, WalkInv

\* Nothing that leads to the new name leads back to the old one, so that no circle passes
\* both.
LEMMA NoCircle ==
  ASSUME NEW k, NEW W, Elsewhere(k, W), FormatAddress(k.me) # FormatAddress(k.as),
         forwards' = MoveForwards(FormatAddress(k.me), FormatAddress(k.as)), Cyclic'
  PROVE  Cyclic
<1>1. PICK a, b : a = FormatAddress(k.me) /\ b = FormatAddress(k.as)
  OBVIOUS
<1>2. /\ W \subseteq DOMAIN forwards /\ a \notin W /\ a # b
      /\ b \in DOMAIN forwards => b \in W
      /\ \A s \in W : /\ forwards[s].new # a
                      /\ forwards[s].new \in DOMAIN forwards => forwards[s].new \in W
  BY <1>1 DEF Elsewhere
<1>3. /\ DOMAIN forwards' = DOMAIN forwards \cup {a}
      /\ forwards'[a].new = b
      /\ \A s \in DOMAIN forwards \ {a} :
           forwards'[s].new = IF forwards[s].new = a THEN b ELSE forwards[s].new
  <2>. DEFINE all == Put(forwards, a, [new |-> b, until |-> day + GraceDays])
  <2>1. /\ DOMAIN all = DOMAIN forwards \cup {a}
        /\ all[a] = [new |-> b, until |-> day + GraceDays]
        /\ \A s \in DOMAIN forwards \ {a} : all[s] = forwards[s]
    BY DEF Put
  <2>2. forwards' = [s \in DOMAIN all |-> IF all[s].new = a THEN [all[s] EXCEPT !.new = b]
                                          ELSE all[s]]
    BY <1>1 DEF MoveForwards
  <2>. HIDE DEF all
  <2>. QED BY <2>1, <2>2
<1>4. PICK S \in SUBSET (DOMAIN forwards \cup {a}) :
        S # {} /\ \A s \in S : forwards'[s].new \in S
  BY <1>3 DEF Cyclic
<1>5. CASE b \in S
  <2>. DEFINE T == S \cap W
  <2>1. b \in T
    BY <1>2, <1>4, <1>5
  <2>2. ASSUME NEW s \in T PROVE forwards[s].new \in T
    <3>1. s \in DOMAIN forwards \ {a} /\ s \in W /\ forwards[s].new # a
      BY <1>2
    <3>2. forwards[s].new = forwards'[s].new
      BY <1>3, <3>1
    <3>3. forwards[s].new \in DOMAIN forwards
      BY <1>4, <3>1, <3>2
    <3>. QED BY <1>2, <1>4, <3>1, <3>2, <3>3
  <2>3. T \in SUBSET DOMAIN forwards
    BY <1>2
  <2>. QED BY <2>1, <2>2, <2>3 DEF Cyclic
<1>6. CASE b \notin S
  <2>1. a \notin S
    BY <1>3, <1>4, <1>6
  <2>2. ASSUME NEW s \in S PROVE forwards[s].new \in S
    <3>1. s \in DOMAIN forwards \ {a}
      BY <1>4, <2>1
    <3>2. forwards[s].new # a
      BY <1>3, <1>4, <1>6, <3>1
    <3>. QED BY <1>3, <1>4, <3>1, <3>2
  <2>3. S \in SUBSET DOMAIN forwards
    BY <1>4, <2>1
  <2>. QED BY <1>4, <2>2, <2>3 DEF Cyclic
<1>. QED BY <1>5, <1>6

\* Whose step it is that nobody else has worked since.
LEMMA Alone ==
  ASSUME ShapeInv, NEW c \in Clients, AloneStep(c), [Next]_desks
  PROVE  Step(c)
<1>1. call[c] # Idle /\ call[c].alone /\ call'[c].plan # call[c].plan
  BY DEF AloneStep
<1>2. CASE Sleep \/ UNCHANGED desks
  BY <1>1, <1>2 DEF Sleep, desks, hub
<1>3. ASSUME NEW d \in Clients, Step(d), d # c PROVE FALSE
  <2>1. call'[c] = [call[c] EXCEPT !.alone = FALSE]
    BY <1>1, <1>3, Rows
  <2>2. DOMAIN call[c] = CallFields
    BY <1>1 DEF ShapeInv, Base, Basic
  <2>. QED BY <1>1, <2>1, <2>2 DEF CallFields
<1>4. ASSUME NEW d \in Clients, Request(d) PROVE FALSE
  <2>1. drafted \in Nat /\ who[d] \in Identities /\ DOMAIN call = Clients
    BY DEF ShapeInv
  <2>2. PICK k : call[d] = Idle /\ Begin(d, k)
    BY <1>4, <2>1, Begun
  <2>3. call' = [call EXCEPT ![d] = k] /\ d # c
    BY <1>1, <2>2 DEF Begin
  <2>. QED BY <1>1, <2>1, <2>3
<1>. QED BY <1>2, <1>3, <1>4 DEF Next

\* A rename that nothing interleaves with never closes a circle of forwards: it has walked
\* from the new name (_resolves_to in mailbox.py) and did not come to the old one.
THEOREM ForwardsLeadOn == Spec => ForwardsEnd
<1>1. ASSUME ShapeInv, WalkInv, [Next]_desks, NEW c \in Clients, AloneStep(c),
             forwards' # forwards, ~Cyclic
      PROVE  ~Cyclic'
  <2>1. Step(c)
    BY <1>1, Alone
  <2>2. Move(c)
    BY <1>1, <2>1, Unwritten
  <2>3. PICK k : k = call[c]
    OBVIOUS
  <2>4. /\ k # Idle /\ k.plan[1] = "move" /\ k.alone /\ Base(c, k) /\ Basic(k)
        /\ k.as \in Identities /\ k.as # k.me /\ k.me \in Identities
    BY <1>1, <2>2, <2>3, Taken DEF Move, At, ShapeInv, Base, AloneStep
  <2>5. /\ Ahead(k.plan, "move") /\ ~Ahead(k.plan, "vacant") /\ ~Ahead(k.plan, "hop")
    <3>1. k.plan # <<>> /\ Planned(Pings(k), k.plan) /\ Pings(k) \in BOOLEAN
      BY <2>4 DEF Basic, Pings
    <3>. QED BY <2>4, <3>1, HeadFirst DEF Follows
  <2>6. PICK W \in SUBSET DOMAIN forwards : Elsewhere(k, W)
    BY <1>1, <2>3, <2>4, <2>5 DEF WalkInv, Walk
  <2>7. FormatAddress(k.me) # FormatAddress(k.as)
    BY <2>4, FormatsDiffer
  <2>8. forwards' = MoveForwards(FormatAddress(k.me), FormatAddress(k.as))
    BY <2>2, <2>3 DEF Move
  <2>. QED BY <1>1, <2>6, <2>7, <2>8, NoCircle
<1>2. ShapeInv /\ WalkInv /\ [Next]_desks =>
        [\A c \in Clients :
           AloneStep(c) /\ forwards' # forwards /\ ~Cyclic => ~Cyclic']_desks
  BY <1>1
<1>3. Init => ShapeInv /\ WalkInv
  BY ShapeInit, WalkInit
<1>4. ShapeInv /\ WalkInv /\ [Next]_desks => (ShapeInv /\ WalkInv)'
  BY ShapeNext, WalkNext
<1>. QED BY <1>2, <1>3, <1>4, PTL DEF Spec, ForwardsEnd

(***************************************************************************)
(* The directory                                                           *)
(***************************************************************************)

LEMMA NatMin ==
  ASSUME NEW T, T \subseteq Nat, T # {}
  PROVE  \E m \in T : \A n \in T : m <= n
<1>1. PICK R : R = {ss \in Nat \X Nat : ss[1] < ss[2]}
  OBVIOUS
<1>2. ASSUME NEW x \in Nat, NEW y \in Nat PROVE <<y, x>> \in R <=> y < x
  <2>1. PICK ss : ss = <<y, x>>
    OBVIOUS
  <2>2. ss \in Nat \X Nat /\ ss[1] = y /\ ss[2] = x
    BY <2>1
  <2>3. ss \in R <=> ss[1] < ss[2]
    BY <1>1, <2>2
  <2>. QED BY <2>1, <2>2, <2>3
<1>3. IsWellFoundedOn(R, Nat)
  BY <1>1, NatLessThanWellFounded DEF OpToRel
<1>4. PICK x \in T : \A y \in T : ~(<<y, x>> \in R)
  BY <1>3, WFMin
<1>5. ASSUME NEW y \in T PROVE x <= y
  <2>1. x \in Nat /\ y \in Nat
    OBVIOUS
  <2>2. ~(y < x)
    BY <1>2, <1>4, <2>1
  <2>. QED BY <2>1, <2>2
<1>. QED BY <1>5

LEMMA Least ==
  ASSUME NEW T, T \subseteq Nat, T # {}
  PROVE  Min(T) \in T /\ \A n \in T : Min(T) <= n
BY NatMin DEF Min

\* An entry that a name stands for.
Matches(e, name) ==
  /\ e.who.project = name.project /\ e.who.agent = name.agent
  /\ name.role \in {None, e.who.role}

\* whois answers with the first of them.
LEMMA FirstMatch ==
  ASSUME NEW name
  PROVE  LET found == {i \in 1 .. Len(agents) : Matches(agents[i], name)}
         IN  \/ found = {} /\ Held(name) = 0
             \/ /\ Held(name) \in found /\ Held(name) # 0
                /\ \A j \in found : Held(name) <= j
<1>. DEFINE found == {i \in 1 .. Len(agents) : Matches(agents[i], name)}
<1>1. Held(name) = IF found # {} THEN Min(found) ELSE 0
  BY DEF Held, SelectInSeq, Matches
<1>2. CASE found = {}
  BY <1>1, <1>2
<1>3. CASE found # {}
  <2>1. found \subseteq Nat /\ 0 \notin found
    OBVIOUS
  <2>2. PICK i : i = Min(found)
    OBVIOUS
  <2>3. i \in found /\ \A j \in found : i <= j
    BY <1>3, <2>1, <2>2, Least
  <2>4. Held(name) = i /\ i # 0
    BY <1>1, <1>3, <2>1, <2>2, <2>3
  <2>. QED BY <2>3, <2>4
<1>. QED BY <1>2, <1>3

\* One entry to a name, the most recently seen first.
Directory(entries) ==
  /\ entries \in Seq(ToSet(entries))
  /\ \A e \in ToSet(entries) : e.who \in Identities /\ e.seen \in Nat /\ e.seen <= day
  /\ \A m, n \in 1 .. Len(entries) :
       m < n => entries[m].who # entries[n].who /\ entries[n].seen <= entries[m].seen

LEMMA Elements ==
  ASSUME NEW S, NEW s \in Seq(S)
  PROVE  /\ \A i \in 1 .. Len(s) : s[i] \in ToSet(s)
         /\ \A e \in ToSet(s) : \E i \in 1 .. Len(s) : e = s[i]
         /\ s \in Seq(ToSet(s))
<1>1. DOMAIN s = 1 .. Len(s) /\ Len(s) \in Nat
  OBVIOUS
<1>2. \A i \in 1 .. Len(s) : s[i] \in ToSet(s)
  BY <1>1 DEF ToSet
<1>3. \A e \in ToSet(s) : \E i \in 1 .. Len(s) : e = s[i]
  BY <1>1 DEF ToSet
<1>4. s \in Seq(ToSet(s))
  BY <1>1, <1>2, SeqDef
<1>. QED BY <1>2, <1>3, <1>4

\* What is left without one of the entries.
LEMMA Removed ==
  ASSUME NEW S, NEW s \in Seq(S), NEW i \in 1 .. Len(s), NEW t, t = RemoveAt(s, i)
  PROVE  /\ t \in Seq(S) /\ Len(t) = Len(s) - 1
         /\ \A n \in 1 .. Len(t) : t[n] = IF n < i THEN s[n] ELSE s[n + 1]
<1>. DEFINE u == SubSeq(s, 1, i - 1)
            v == SubSeq(s, i + 1, Len(s))
<1>1. Len(s) \in Nat /\ i \in Nat /\ \A n \in 1 .. Len(s) : s[n] \in S
  OBVIOUS
<1>2. u \in Seq(S) /\ Len(u) = i - 1 /\ \A n \in 1 .. i - 1 : u[n] = s[n]
  <2>1. /\ u \in Seq(S) /\ Len(u) = IF 1 <= i - 1 THEN (i - 1) - 1 + 1 ELSE 0
        /\ \A n \in 1 .. (i - 1) - 1 + 1 : u[n] = s[1 + n - 1]
    BY <1>1, SubSeqProperties
  <2>. HIDE DEF u
  <2>. QED BY <1>1, <2>1
<1>3. v \in Seq(S) /\ Len(v) = Len(s) - i /\ \A n \in 1 .. Len(s) - i : v[n] = s[i + n]
  <2>1. /\ v \in Seq(S) /\ Len(v) = IF i + 1 <= Len(s) THEN Len(s) - (i + 1) + 1 ELSE 0
        /\ \A n \in 1 .. Len(s) - (i + 1) + 1 : v[n] = s[(i + 1) + n - 1]
    BY <1>1, SubSeqProperties
  <2>. HIDE DEF v
  <2>2. \A n \in 1 .. Len(s) - i :
          (i + 1) + n - 1 = i + n /\ n \in 1 .. Len(s) - (i + 1) + 1
    BY <1>1
  <2>3. \A n \in 1 .. Len(s) - i : v[n] = s[i + n]
    BY <2>1, <2>2
  <2>. QED BY <1>1, <2>1, <2>3
<1>4. t = u \o v
  BY DEF RemoveAt
<1>. HIDE DEF u, v
<1>5. /\ t \in Seq(S) /\ Len(t) = Len(u) + Len(v)
      /\ \A n \in 1 .. Len(u) + Len(v) : t[n] = IF n <= Len(u) THEN u[n] ELSE v[n - Len(u)]
  <2>1. u \in Seq(S) /\ v \in Seq(S)
    BY <1>2, <1>3
  <2>2. /\ u \o v \in Seq(S) /\ Len(u \o v) = Len(u) + Len(v)
        /\ \A n \in 1 .. Len(u) + Len(v) :
             (u \o v)[n] = IF n <= Len(u) THEN u[n] ELSE v[n - Len(u)]
    BY <2>1, ConcatProperties, Zenon
  <2>. QED BY <1>4, <2>2, Zenon
<1>6. Len(t) = Len(s) - 1
  BY <1>1, <1>2, <1>3, <1>5
<1>7. ASSUME NEW n \in 1 .. Len(t) PROVE t[n] = IF n < i THEN s[n] ELSE s[n + 1]
  <2>1. CASE n < i
    <3>1. n \in 1 .. i - 1 /\ n <= Len(u) /\ n \in 1 .. Len(u) + Len(v)
      BY <1>1, <1>2, <1>3, <1>5, <1>7, <2>1
    <3>. QED BY <1>2, <1>5, <2>1, <3>1
  <2>2. CASE ~(n < i)
    <3>1. /\ n - Len(u) \in 1 .. Len(s) - i /\ ~(n <= Len(u)) /\ n \in 1 .. Len(u) + Len(v)
          /\ i + (n - Len(u)) = n + 1
      BY <1>1, <1>2, <1>3, <1>5, <1>7, <2>2
    <3>2. t[n] = v[n - Len(u)]
      BY <1>5, <3>1
    <3>3. v[n - Len(u)] = s[i + (n - Len(u))]
      BY <1>3, <3>1
    <3>. QED BY <2>2, <3>1, <3>2, <3>3
  <2>. QED BY <2>1, <2>2
<1>. QED BY <1>5, <1>6, <1>7

\* DELETE takes the one entry of that name.
LEMMA Deleted ==
  ASSUME NEW entries, Directory(entries), NEW name, NEW out, out = Without(entries, name)
  PROVE  /\ Directory(out)
         /\ \A e \in ToSet(out) : e \in ToSet(entries) /\ e.who # name
         /\ \A e \in ToSet(entries) : e.who # name => e \in ToSet(out)
<1>. DEFINE found == {i \in 1 .. Len(entries) : entries[i].who = name}
<1>1. /\ entries \in Seq(ToSet(entries)) /\ Len(entries) \in Nat
      /\ \A i \in 1 .. Len(entries) : entries[i] \in ToSet(entries)
      /\ \A e \in ToSet(entries) : \E i \in 1 .. Len(entries) : e = entries[i]
      /\ \A m, n \in 1 .. Len(entries) :
           m < n => /\ entries[m].who # entries[n].who
                    /\ entries[n].seen <= entries[m].seen
  <2>1. PICK S : S = ToSet(entries)
    OBVIOUS
  <2>2. entries \in Seq(S)
    BY <2>1 DEF Directory
  <2>3. /\ \A i \in 1 .. Len(entries) : entries[i] \in ToSet(entries)
        /\ \A e \in ToSet(entries) : \E i \in 1 .. Len(entries) : e = entries[i]
    BY <2>2, Elements, Zenon
  <2>4. Len(entries) \in Nat
    BY <2>2
  <2>. QED BY <2>3, <2>4 DEF Directory
<1>2. CASE found = {}
  <2>1. out = entries
    BY <1>2 DEF Without, RemoveFirstMatch
  <2>2. \A i \in 1 .. Len(entries) : entries[i].who # name
    BY <1>2
  <2>. HIDE DEF found
  <2>3. ASSUME NEW e \in ToSet(entries) PROVE e.who # name
    <3>1. PICK i \in 1 .. Len(entries) : e = entries[i]
      BY <1>1
    <3>. QED BY <2>2, <3>1
  <2>. QED BY <2>1, <2>3
<1>3. CASE found # {}
  <2>1. PICK i : i = Min(found)
    OBVIOUS
  <2>2. i \in found
    BY <1>3, <2>1, Least
  <2>3. out = RemoveAt(entries, i)
    BY <1>3, <2>1 DEF Without, RemoveFirstMatch, SelectInSeq
  <2>4. i \in 1 .. Len(entries) /\ entries[i].who = name
    BY <2>2
  <2>5. /\ out \in Seq(ToSet(entries)) /\ Len(out) = Len(entries) - 1
        /\ \A n \in 1 .. Len(out) : out[n] = IF n < i THEN entries[n] ELSE entries[n + 1]
    <3>1. PICK S : S = ToSet(entries)
      OBVIOUS
    <3>2. entries \in Seq(S) /\ i \in 1 .. Len(entries)
      BY <1>1, <2>4, <3>1
    <3>3. /\ out \in Seq(S) /\ Len(out) = Len(entries) - 1
          /\ \A n \in 1 .. Len(out) : out[n] = IF n < i THEN entries[n] ELSE entries[n + 1]
      <4>. HIDE DEF found
      <4>. QED BY <2>3, <3>2, Removed
    <3>. QED BY <3>1, <3>3
  <2>6. /\ \A n \in 1 .. Len(out) : out[n] \in ToSet(out)
        /\ \A e \in ToSet(out) : \E n \in 1 .. Len(out) : e = out[n]
        /\ out \in Seq(ToSet(out))
    BY <2>5, Elements
  <2>. HIDE DEF found
  <2>7. ASSUME NEW n \in 1 .. Len(out)
        PROVE  \E j \in 1 .. Len(entries) :
                 /\ out[n] = entries[j] /\ j # i /\ j = IF n < i THEN n ELSE n + 1
    <3>1. n \in 1 .. Len(entries) /\ n + 1 \in 1 .. Len(entries) /\ n \in Nat /\ i \in Nat
      BY <1>1, <2>4, <2>5
    <3>2. CASE n < i
      BY <2>5, <3>1, <3>2
    <3>3. CASE ~(n < i)
      BY <2>5, <3>1, <3>3
    <3>. QED BY <3>2, <3>3
  <2>8. \A j \in 1 .. Len(entries) : j # i => entries[j].who # name
    <3>1. ASSUME NEW j \in 1 .. Len(entries), j # i PROVE entries[j].who # entries[i].who
      <4>1. j < i \/ i < j
        BY <1>1, <2>4, <3>1
      <4>. QED BY <1>1, <2>4, <4>1, Zenon
    <3>. QED BY <2>4, <3>1
  <2>9. ASSUME NEW e \in ToSet(out) PROVE e \in ToSet(entries) /\ e.who # name
    <3>1. PICK n \in 1 .. Len(out) : e = out[n]
      BY <2>6
    <3>2. PICK j \in 1 .. Len(entries) : out[n] = entries[j] /\ j # i
      BY <2>7
    <3>. QED BY <1>1, <2>8, <3>1, <3>2
  <2>10. ASSUME NEW e \in ToSet(entries), e.who # name PROVE e \in ToSet(out)
    <3>1. PICK j \in 1 .. Len(entries) : e = entries[j]
      BY <1>1
    <3>2. j # i /\ j \in Nat /\ i \in Nat
      BY <1>1, <2>4, <2>10, <3>1
    <3>3. CASE j < i
      <4>1. j \in 1 .. Len(out)
        BY <1>1, <2>4, <2>5, <3>2, <3>3
      <4>2. out[j] = e
        BY <2>5, <3>1, <3>3, <4>1
      <4>. QED BY <2>6, <4>1, <4>2
    <3>4. CASE j > i
      <4>1. j - 1 \in 1 .. Len(out) /\ ~(j - 1 < i) /\ (j - 1) + 1 = j
        BY <1>1, <2>4, <2>5, <3>2, <3>4
      <4>2. out[j - 1] = entries[(j - 1) + 1]
        BY <2>5, <4>1
      <4>. QED BY <2>6, <3>1, <4>1, <4>2
    <3>. QED BY <3>2, <3>3, <3>4
  <2>11. ASSUME NEW m \in 1 .. Len(out), NEW n \in 1 .. Len(out), m < n
         PROVE  out[m].who # out[n].who /\ out[n].seen <= out[m].seen
    <3>1. PICK a \in 1 .. Len(entries) :
            out[m] = entries[a] /\ a = IF m < i THEN m ELSE m + 1
      BY <2>7
    <3>2. PICK b \in 1 .. Len(entries) :
            out[n] = entries[b] /\ b = IF n < i THEN n ELSE n + 1
      BY <2>7
    <3>3. a < b
      BY <2>4, <2>11, <3>1, <3>2
    <3>. QED BY <1>1, <3>1, <3>2, <3>3
  <2>12. \A e \in ToSet(out) : e.who \in Identities /\ e.seen \in Nat /\ e.seen <= day
    BY <2>9 DEF Directory
  <2>. QED BY <2>6, <2>9, <2>10, <2>11, <2>12 DEF Directory
<1>. QED BY <1>2, <1>3

\* An upsert puts its entry in front.
LEMMA Upserted ==
  ASSUME NEW others, Directory(others), NEW name \in Identities, NEW card, day \in Nat,
         \A e \in ToSet(others) : e.who # name, NEW out, out = Seen(name, card, others)
  PROVE  Directory(out) /\ ToSet(others) \subseteq ToSet(out)
<1>1. PICK one : one = [who |-> name, seen |-> day, card |-> card]
  OBVIOUS
<1>2. one.who = name /\ one.seen = day
  BY <1>1
<1>3. /\ others \in Seq(ToSet(others)) /\ Len(others) \in Nat
      /\ \A i \in 1 .. Len(others) : others[i] \in ToSet(others)
      /\ \A e \in ToSet(others) : \E i \in 1 .. Len(others) : e = others[i]
      /\ \A m, n \in 1 .. Len(others) :
           m < n => /\ others[m].who # others[n].who
                    /\ others[n].seen <= others[m].seen
      /\ \A e \in ToSet(others) : e.who \in Identities /\ e.seen \in Nat /\ e.seen <= day
  BY Elements DEF Directory
<1>. DEFINE S == ToSet(others) \cup {one}
<1>4. <<one>> \in Seq(S) /\ Len(<<one>>) = 1 /\ <<one>>[1] = one
  OBVIOUS
<1>5. others \in Seq(S)
  BY <1>3, SeqDef
<1>. HIDE DEF S
<1>6. /\ out \in Seq(S) /\ Len(out) = 1 + Len(others)
      /\ \A n \in 1 .. 1 + Len(others) :
           out[n] = IF n <= 1 THEN <<one>>[n] ELSE others[n - 1]
  <2>1. PICK head : head = <<one>>
    OBVIOUS
  <2>2. out = head \o others
    BY <1>1, <2>1 DEF Seen
  <2>3. head \in Seq(S) /\ Len(head) = 1
    BY <1>4, <2>1
  <2>5. head \in Seq(S)
    BY <2>3
  <2>4. /\ head \o others \in Seq(S) /\ Len(head \o others) = Len(head) + Len(others)
        /\ \A n \in 1 .. Len(head) + Len(others) :
             (head \o others)[n] = IF n <= Len(head) THEN head[n] ELSE others[n - Len(head)]
    BY <1>5, <2>5, ConcatProperties, Zenon
  <2>. QED BY <2>1, <2>2, <2>3, <2>4
<1>7. /\ \A n \in 1 .. Len(out) : out[n] \in ToSet(out)
      /\ \A e \in ToSet(out) : \E n \in 1 .. Len(out) : e = out[n]
      /\ out \in Seq(ToSet(out))
  BY <1>6, Elements
<1>8. /\ out[1] = one /\ 1 \in 1 .. Len(out)
      /\ \A n \in 1 .. Len(out) : n # 1 => /\ n - 1 \in 1 .. Len(others)
                                          /\ out[n] = others[n - 1]
  BY <1>3, <1>4, <1>6
<1>9. ASSUME NEW e \in ToSet(out)
      PROVE  e = one \/ e \in ToSet(others)
  <2>1. PICK n \in 1 .. Len(out) : e = out[n]
    BY <1>7
  <2>. QED BY <1>3, <1>8, <2>1
<1>10. ASSUME NEW e \in ToSet(others) PROVE e \in ToSet(out)
  <2>1. PICK i \in 1 .. Len(others) : e = others[i]
    BY <1>3
  <2>2. i + 1 \in 1 .. Len(out) /\ i + 1 # 1 /\ (i + 1) - 1 = i
    BY <1>3, <1>6
  <2>3. out[i + 1] = others[(i + 1) - 1]
    BY <1>8, <2>2
  <2>. QED BY <1>7, <2>1, <2>2, <2>3
<1>11. ASSUME NEW m \in 1 .. Len(out), NEW n \in 1 .. Len(out), m < n
       PROVE  out[m].who # out[n].who /\ out[n].seen <= out[m].seen
  <2>1. m < n
    BY <1>11
  <2>2. n # 1
    BY <1>3, <1>6, <2>1
  <2>3. n - 1 \in 1 .. Len(others) /\ out[n] = others[n - 1]
    BY <1>8, <2>2
  <2>4. /\ n # 1 /\ n - 1 \in 1 .. Len(others) /\ out[n] = others[n - 1]
        /\ out[n] \in ToSet(others)
    BY <1>3, <2>2, <2>3
  <2>5. CASE m = 1
    BY <1>2, <1>3, <1>8, <2>4, <2>5
  <2>6. CASE m # 1
    <3>1. m - 1 \in 1 .. Len(others) /\ out[m] = others[m - 1] /\ m - 1 < n - 1
      BY <1>3, <1>6, <1>8, <1>11, <2>6
    <3>. QED BY <1>3, <2>4, <3>1
  <2>. QED BY <2>5, <2>6
<1>12. \A e \in ToSet(out) : e.who \in Identities /\ e.seen \in Nat /\ e.seen <= day
  BY <1>2, <1>3, <1>9
<1>. QED BY <1>7, <1>10, <1>11, <1>12 DEF Directory

\* Replaced by itself, seen now.
LEMMA Announcing ==
  ASSUME NEW entries, Directory(entries), NEW name \in Identities, NEW card, day \in Nat,
         NEW out, out = Seen(name, card, Without(entries, name))
  PROVE  /\ Directory(out)
         /\ \A e \in ToSet(entries) : e.who # name => e \in ToSet(out)
<1>1. PICK others : others = Without(entries, name)
  OBVIOUS
<1>2. /\ Directory(others) /\ \A e \in ToSet(others) : e.who # name
      /\ \A e \in ToSet(entries) : e.who # name => e \in ToSet(others)
  BY <1>1, Deleted
<1>. QED BY <1>1, <1>2, Upserted

\* An entry that goes stale stays so.
LEMMA StaleStays ==
  ASSUME NEW e, e.seen \in Nat, day \in Nat, day' \in Nat, day <= day', Stale(e)
  PROVE  Stale(e)'
<1>1. StaleDays \in Nat
  BY HubAssumption
<1>. QED BY <1>1 DEF Stale

LEMMA Unlisted ==
  ASSUME NEW c \in Clients, Step(c), ~Touch(c), ~Register(c), ~Retire(c), ~Move(c)
  PROVE  agents' = agents
BY DEF Step, Abandon, Open, Resolve, Join, Party, Insert, Look, Mark, Again, Profile,
       Supersede, Vacant, Hop, Carry, stored

\* What a step does to the directory.
LEMMA Listed ==
  ASSUME ShapeInv, Directory(agents), NEW c \in Clients, Step(c), NEW k, k = call[c]
  PROVE  /\ Directory(agents')
         /\ \A e \in ToSet(agents) :
              \/ e \in ToSet(agents')
              \/ Touch(c) /\ e.who = k.me
              \/ Register(c) /\ e.who = k.as
              \/ Retire(c) /\ e.who = Ghost(k)
              \/ Move(c) /\ e.who \in {k.as, k.me}
<1>1. day \in Nat /\ k.me \in Identities /\ k.as \in Identities
  BY Rows DEF ShapeInv, Base
<1>2. CASE Touch(c)
  <2>1. PICK card : agents' = Seen(k.me, card, Without(agents, k.me))
    BY <1>2 DEF Touch
  <2>. QED BY <1>1, <1>2, <2>1, Announcing
<1>3. CASE Register(c)
  <2>1. PICK card : agents' = Seen(k.as, card, Without(agents, k.as))
    BY <1>3 DEF Register
  <2>. QED BY <1>1, <1>3, <2>1, Announcing
<1>4. CASE Retire(c)
  <2>1. PICK name : name = Ghost(k)
    OBVIOUS
  <2>2. agents' = Without(agents, name)
    BY <1>4, <2>1 DEF Retire
  <2>. QED BY <1>4, <2>1, <2>2, Deleted
<1>5. CASE Move(c) /\ agents' # agents
  <2>1. PICK card : agents' = Seen(k.as, card, Without(Without(agents, k.as), k.me))
    BY <1>5 DEF Move
  <2>2. PICK some : some = Without(agents, k.as)
    OBVIOUS
  <2>3. /\ Directory(some) /\ \A e \in ToSet(some) : e.who # k.as
        /\ \A e \in ToSet(agents) : e.who # k.as => e \in ToSet(some)
    BY <2>2, Deleted
  <2>4. PICK others : others = Without(some, k.me)
    OBVIOUS
  <2>5. /\ Directory(others) /\ \A e \in ToSet(others) : e \in ToSet(some)
        /\ \A e \in ToSet(some) : e.who # k.me => e \in ToSet(others)
    BY <2>3, <2>4, Deleted
  <2>6. agents' = Seen(k.as, card, others) /\ \A e \in ToSet(others) : e.who # k.as
    BY <2>1, <2>2, <2>3, <2>4, <2>5
  <2>7. Directory(agents') /\ ToSet(others) \subseteq ToSet(agents')
    BY <1>1, <2>5, <2>6, Upserted
  <2>. QED BY <1>5, <2>3, <2>5, <2>7
<1>6. CASE agents' = agents
  BY <1>6
<1>. QED BY <1>2, <1>3, <1>4, <1>5, <1>6, Unlisted

DirInv == Directory(agents)

LEMMA DirNext ==
  ASSUME ShapeInv, DirInv, [Next]_desks
  PROVE  DirInv'
<1>1. day \in Nat /\ day' \in Nat /\ day <= day'
  <2>1. day \in Nat /\ day' \in Nat
    BY ShapeNext DEF ShapeInv
  <2>2. day' = day \/ day' > day
    BY Begun, Unwritten DEF ShapeInv, Next, Sleep, Begin, desks, hub
  <2>. QED BY <2>1, <2>2
<1>2. Directory(agents')
  <2>1. ASSUME NEW c \in Clients, Step(c) PROVE Directory(agents')
    BY <2>1, Listed DEF DirInv
  <2>2. ASSUME NEW c \in Clients, Request(c) PROVE agents' = agents
    BY <2>2, Begun DEF ShapeInv, Begin, stored
  <2>3. Sleep \/ UNCHANGED desks => agents' = agents
    BY DEF Sleep, desks, hub, stored
  <2>. QED BY <2>1, <2>2, <2>3 DEF DirInv, Next
<1>3. ASSUME NEW list, Directory(list) PROVE Directory(list)'
  <2>1. \A e \in ToSet(list) : e.who \in Identities /\ e.seen \in Nat /\ e.seen <= day
    BY <1>3 DEF Directory
  <2>2. \A e \in ToSet(list) : e.who \in Identities /\ e.seen \in Nat /\ e.seen <= day'
    BY <1>1, <2>1
  <2>. QED BY <1>3, <2>2 DEF Directory
<1>. QED BY <1>2, <1>3 DEF DirInv, Directory

LEMMA DirInit ==
  ASSUME Init
  PROVE  DirInv
<1>1. agents = <<>> /\ ToSet(agents) = {} /\ Len(agents) = 0
  BY DEF Init, ToSet
<1>. QED BY <1>1 DEF DirInv, Directory

\* Whom a call that nobody has come in between is about to replace is not around.
Free(k) ==
  /\ Ahead(k.plan, "move") /\ ~Ahead(k.plan, "vacant") => VacantName(k.as)
  /\ Ahead(k.plan, "retire") => Held(Ghost(k)) # 0 /\ Stale(Whois(Ghost(k)))

FreeInv == \A c \in Clients : call[c] # Idle /\ call[c].alone => Free(call[c])

\* Whoever whois answers with was seen on some day.
LEMMA WhoisSeen ==
  ASSUME DirInv, NEW name, Held(name) # 0
  PROVE  Whois(name).seen \in Nat
<1>1. Held(name) \in 1 .. Len(agents)
  BY FirstMatch
<1>2. Whois(name) \in ToSet(agents)
  BY <1>1, Elements DEF DirInv, Directory, Whois
<1>. QED BY <1>2 DEF DirInv, Directory

\* All that a name stands for is as stale as what whois answers with.
LEMMA AllStale ==
  ASSUME DirInv, day \in Nat, NEW name, VacantName(name),
         NEW e \in ToSet(agents), Matches(e, name)
  PROVE  Stale(e)
<1>. DEFINE found == {i \in 1 .. Len(agents) : Matches(agents[i], name)}
<1>1. PICK j \in 1 .. Len(agents) : e = agents[j]
  BY Elements DEF DirInv, Directory
<1>2. j \in found
  BY <1>1
<1>3. PICK i : i = Held(name)
  OBVIOUS
<1>4. i \in 1 .. Len(agents) /\ i <= j /\ i # 0
  BY <1>2, <1>3, FirstMatch
<1>5. agents[i].seen \in Nat /\ e.seen \in Nat /\ e.seen <= agents[i].seen
  <2>1. agents[i] \in ToSet(agents)
    BY <1>4, Elements DEF DirInv, Directory
  <2>2. i = j \/ i < j
    BY <1>1, <1>4
  <2>. QED BY <1>1, <1>4, <2>1, <2>2 DEF DirInv, Directory
<1>6. Stale(agents[i])
  BY <1>3, <1>4 DEF VacantName, Whois
<1>7. StaleDays \in Nat
  BY HubAssumption
<1>. QED BY <1>5, <1>6, <1>7 DEF Stale

\* What is free stays so as long as nobody registers.
LEMMA FreeStays ==
  ASSUME DirInv, day \in Nat, day' \in Nat, day <= day', agents' = agents, NEW k, Free(k)
  PROVE  Free(k)'
<1>1. ASSUME NEW name PROVE Held(name)' = Held(name) /\ Whois(name)' = Whois(name)
  <2>1. Held(name)' = Held(name)
    BY Zenon DEF Held, SelectInSeq
  <2>. QED BY <2>1 DEF Whois
<1>2. ASSUME NEW name, Held(name) # 0, Stale(Whois(name)) PROVE Stale(Whois(name))'
  <2>1. PICK e : e = Whois(name)
    OBVIOUS
  <2>2. Stale(e)'
    BY <1>2, <2>1, WhoisSeen, StaleStays
  <2>. QED BY <1>1, <2>1, <2>2
<1>3. ASSUME NEW name, VacantName(name) PROVE VacantName(name)'
  BY <1>1, <1>2, <1>3 DEF VacantName
<1>. QED BY <1>1, <1>2, <1>3 DEF Free, Ghost

\* The name is looked up before it is taken, or retired.
LEMMA FreeVacant ==
  ASSUME NEW c \in Clients, DOMAIN call = Clients, Vacant(c), call'[c] # Idle
  PROVE  VacantName(ParseAddress(call[c].to))
BY Stopped DEF Vacant

LEMMA FreeSupersede ==
  ASSUME NEW c \in Clients, DOMAIN call = Clients, NEW k, k = call[c], Basic(k),
         Supersede(c), NEW q, q = call'[c], q # Idle, Ahead(q.plan, "retire")
  PROVE  Held(Ghost(k)) # 0 /\ Stale(Whois(Ghost(k))) /\ q.list = k.list
<1>1. /\ k.plan[1] = "supersede" /\ k.plan # <<>> /\ Planned(Pings(k), k.plan)
      /\ Pings(k) \in BOOLEAN /\ DOMAIN k = CallFields
  BY DEF Supersede, At, Basic, Pings
<1>2. \A t : Ahead(k.plan, t) => t = "supersede"
  BY <1>1, HeadFirst DEF Follows
<1>3. ~Continue(c, NextName(k))
  <2>1. SUFFICES ASSUME Continue(c, NextName(k)) PROVE FALSE
    OBVIOUS
  <2>2. q = NextName(k)
    BY <2>1, Continued
  <2>3. q.plan \in {k.plan, Tail(k.plan)}
    BY <1>1, <2>2 DEF NextName, CallFields
  <2>4. Ahead(Tail(k.plan), "retire") => Ahead(k.plan, "retire")
    BY <1>1, TailPlanned
  <2>. QED BY <1>2, <2>3, <2>4
<1>4. ~Stop(c)
  BY Stopped
<1>5. /\ Continue(c, [k EXCEPT !.plan = <<"retire">> \o @])
      /\ Held(Ghost(k)) # 0 /\ Stale(Whois(Ghost(k)))
  BY <1>3, <1>4 DEF Supersede
<1>6. PICK now : now = [k EXCEPT !.plan = <<"retire">> \o @]
  OBVIOUS
<1>7. now.list = k.list
  BY <1>1, <1>6 DEF CallFields
<1>8. q = now
  BY <1>5, <1>6, Continued
<1>. QED BY <1>5, <1>7, <1>8

LEMMA FreeStep ==
  ASSUME ShapeInv, DirInv, FreeInv, NEW c \in Clients, Step(c)
  PROVE  FreeInv'
<1>1. ASSUME NEW x \in Clients \ {c}, call'[x] # Idle PROVE call'[x].alone = FALSE
  <2>1. call'[x] = [call[x] EXCEPT !.alone = FALSE] /\ call[x] # Idle
    BY <1>1, Rows
  <2>2. DOMAIN call[x] = CallFields
    BY <2>1 DEF ShapeInv, Base, Basic
  <2>. QED BY <2>1, <2>2 DEF CallFields
<1>2. ASSUME call'[c] # Idle, call'[c].alone PROVE Free(call[c])'
  <2>1. PICK k : k = call[c]
    OBVIOUS
  <2>2. /\ k # Idle /\ Base(c, k)
        /\ \E q : q = call'[c] /\ q # Idle /\ Going(k, q) /\ Changing(c, k, q)
    BY <1>2, <2>1, Rows
  <2>3. PICK q : q = call'[c] /\ q # Idle /\ Going(k, q) /\ Changing(c, k, q)
    BY <2>2
  <2>4. /\ k.plan # <<>> /\ Planned(Pings(k), k.plan) /\ Pings(k) \in BOOLEAN
        /\ \A t : Ahead(k.plan, t) => t = k.plan[1] \/ Follows(Pings(k), k.plan[1], t)
    BY <2>2, HeadFirst DEF Base, Basic, Pings
  <2>5. k.alone /\ Free(k) /\ Basic(k)
    BY <1>2, <2>1, <2>2, <2>3 DEF Going, Kept, FreeInv, Base
  <2>6. day' = day /\ day \in Nat /\ DOMAIN call = Clients
    BY Unwritten DEF ShapeInv
  <2>7. ASSUME Ahead(q.plan, "move"), ~Ahead(q.plan, "vacant")
        PROVE  VacantName(q.as) /\ k.plan[1] \in {"vacant", "open", "hop", "carry"}
    <3>1. /\ Less(k, q) \/ Still(k, q) \/ Back(k, q)
          /\ ~Back(k, q)
      BY <2>3, <2>7 DEF Going, Back
    <3>2. Ahead(k.plan, "move") /\ k.plan[1] # "move"
      BY <2>7, <3>1 DEF Less, Still, Lasting
    <3>3. k.plan[1] \in {"vacant", "open", "hop", "carry"}
      BY <2>4, <3>2 DEF Follows, Renaming
    <3>4. CASE k.plan[1] = "vacant"
      <4>1. Vacant(c)
        BY <2>1, <2>3, <2>6, <3>4, Which
      <4>2. VacantName(ParseAddress(k.to))
        BY <2>1, <2>3, <2>6, <4>1, FreeVacant
      <4>. QED BY <2>3, <3>3, <3>4, <4>2 DEF Changing
    <3>5. CASE k.plan[1] # "vacant"
      <4>1. ~Ahead(k.plan, "vacant")
        BY <2>7, <3>1, <3>3, <3>5 DEF Less, Still, Lasting
      <4>2. q.as = k.as
        BY <2>3, <3>5 DEF Changing
      <4>. QED BY <2>5, <3>2, <3>3, <4>1, <4>2 DEF Free
    <3>. QED BY <3>4, <3>5
  <2>8. ASSUME Ahead(q.plan, "retire")
        PROVE  Held(Ghost(q)) # 0 /\ Stale(Whois(Ghost(q))) /\ k.plan[1] = "supersede"
    <3>1. k.plan[1] = "supersede"
      BY <2>3, <2>8 DEF Going
    <3>2. Supersede(c)
      BY <2>1, <2>3, <2>6, <3>1, Which
    <3>3. Held(Ghost(k)) # 0 /\ Stale(Whois(Ghost(k))) /\ q.list = k.list
      BY <2>1, <2>3, <2>5, <2>6, <2>8, <3>2, FreeSupersede
    <3>4. Ghost(q) = Ghost(k)
      BY <3>3 DEF Ghost
    <3>. QED BY <3>1, <3>3, <3>4
  <2>9. Free(q)
    BY <2>7, <2>8 DEF Free
  <2>10. CASE k.plan[1] \in {"vacant", "open", "hop", "carry", "supersede"}
    <3>1. ~Touch(c) /\ ~Register(c) /\ ~Retire(c) /\ ~Move(c)
      BY <2>1, <2>10 DEF Touch, Register, Retire, Move, At
    <3>2. agents' = agents
      BY <3>1, Unlisted
    <3>3. Free(q)'
      BY <2>6, <2>9, <3>2, FreeStays
    <3>. QED BY <2>3, <3>3
  <2>11. CASE k.plan[1] \notin {"vacant", "open", "hop", "carry", "supersede"}
    <3>1. Free(q)'
      BY <2>7, <2>8, <2>11 DEF Free
    <3>. QED BY <2>3, <3>1
  <2>. QED BY <2>10, <2>11
<1>. QED BY <1>1, <1>2 DEF FreeInv

LEMMA FreeRequest ==
  ASSUME ShapeInv, DirInv, FreeInv, NEW c \in Clients, Request(c)
  PROVE  FreeInv'
<1>1. drafted \in Nat /\ who[c] \in Identities /\ DOMAIN call = Clients /\ day \in Nat
  BY DEF ShapeInv
<1>2. PICK k : Starts(c, k) /\ Begin(c, k)
  BY <1>1, Begun
<1>3. /\ call' = [call EXCEPT ![c] = k] /\ agents' = agents /\ day' = day
  BY <1>2 DEF Begin, stored
<1>4. /\ call'[c] = k /\ \A d \in Clients \ {c} : call'[d] = call[d]
  BY <1>1, <1>3
<1>5. Free(k)'
  BY <1>2 DEF Free, Starts
<1>6. ASSUME NEW x \in Clients \ {c}, call'[x] # Idle, call'[x].alone PROVE Free(call[x])'
  <2>1. PICK k1 : k1 = call[x]
    OBVIOUS
  <2>2. Free(k1)
    BY <1>4, <1>6, <2>1 DEF FreeInv
  <2>3. Free(k1)'
    BY <1>1, <1>3, <2>2, FreeStays
  <2>. QED BY <1>4, <1>6, <2>1, <2>3
<1>. QED BY <1>4, <1>5, <1>6 DEF FreeInv

LEMMA FreeNext ==
  ASSUME ShapeInv, DirInv, FreeInv, [Next]_desks
  PROVE  FreeInv'
<1>1. CASE Sleep \/ UNCHANGED desks
  <2>1. call' = call /\ agents' = agents
    BY <1>1 DEF Sleep, desks, hub, stored
  <2>2. day \in Nat /\ day' \in Nat
    BY ShapeNext DEF ShapeInv
  <2>3. day' = day \/ day' > day
    BY <1>1 DEF Sleep, desks, hub
  <2>4. day <= day'
    BY <2>2, <2>3
  <2>5. ASSUME NEW x \in Clients, call'[x] # Idle, call'[x].alone PROVE Free(call[x])'
    <3>1. PICK k : k = call[x]
      OBVIOUS
    <3>2. Free(k)
      BY <2>1, <2>5, <3>1 DEF FreeInv
    <3>3. Free(k)'
      BY <2>1, <2>2, <2>4, <3>2, FreeStays
    <3>. QED BY <2>1, <3>1, <3>3
  <2>. QED BY <2>5 DEF FreeInv
<1>. QED BY <1>1, FreeStep, FreeRequest DEF Next

LEMMA FreeInit ==
  ASSUME Init
  PROVE  FreeInv
BY DEF Init, FreeInv

\* An agent that is around keeps its entry: only a call that others come in between
\* replaces or removes the entry of another agent that is not stale (rename and supersede
\* of mailbox.py look before they write).
THEOREM LiveEntriesStay == Spec => LiveAreLeftAlone
<1>1. ASSUME ShapeInv, DirInv, FreeInv, [Next]_desks, NEW c \in Clients, AloneStep(c),
             NEW e \in ToSet(agents), e \notin ToSet(agents')
      PROVE  \/ Stale(e)
             \/ e.who.project = call[c].me.project /\ e.who.agent = call[c].me.agent
  <2>1. Step(c)
    BY <1>1, Alone
  <2>2. PICK k : k = call[c]
    OBVIOUS
  <2>3. /\ k # Idle /\ k.alone /\ Base(c, k) /\ Basic(k) /\ Free(k) /\ day \in Nat
    BY <1>1, <2>2 DEF AloneStep, ShapeInv, FreeInv, Base
  <2>4. /\ k.plan # <<>> /\ Planned(Pings(k), k.plan) /\ Pings(k) \in BOOLEAN
        /\ Ahead(k.plan, k.plan[1])
        /\ \A t : Ahead(k.plan, t) => t = k.plan[1] \/ Follows(Pings(k), k.plan[1], t)
    BY <2>3, HeadFirst DEF Basic, Pings
  <2>5. \/ Touch(c) /\ e.who = k.me
        \/ Register(c) /\ e.who = k.as
        \/ Retire(c) /\ e.who = Ghost(k)
        \/ Move(c) /\ e.who \in {k.as, k.me}
    BY <1>1, <2>1, <2>2, Listed DEF DirInv
  <2>6. CASE e.who = k.me
    BY <2>2, <2>6
  <2>7. CASE Register(c) /\ e.who = k.as
    <3>1. k.plan[1] = "register"
      BY <2>2, <2>7 DEF Register, At
    <3>2. ~Ahead(k.plan, "move")
      BY <2>4, <3>1 DEF Follows, Renaming
    <3>. QED BY <2>2, <2>3, <2>7, <3>2 DEF Base, SameAgent
  <2>8. CASE Retire(c) /\ e.who = Ghost(k)
    <3>1. k.plan[1] = "retire"
      BY <2>2, <2>8 DEF Retire, At
    <3>2. PICK name : name = Ghost(k)
      OBVIOUS
    <3>3. VacantName(name) /\ name.role = None
      BY <2>3, <2>4, <3>1, <3>2 DEF Free, VacantName, Ghost
    <3>4. Matches(e, name)
      BY <2>8, <3>2, <3>3 DEF Matches
    <3>. QED BY <1>1, <2>3, <3>3, <3>4, AllStale
  <2>9. CASE Move(c) /\ e.who = k.as
    <3>1. k.plan[1] = "move"
      BY <2>2, <2>9 DEF Move, At
    <3>2. Ahead(k.plan, "move") /\ ~Ahead(k.plan, "vacant")
      BY <2>4, <3>1 DEF Follows
    <3>3. VacantName(k.as)
      BY <2>3, <3>2 DEF Free
    <3>4. Matches(e, k.as)
      BY <2>9 DEF Matches
    <3>. QED BY <1>1, <2>3, <3>3, <3>4, AllStale
  <2>. QED BY <2>5, <2>6, <2>7, <2>8, <2>9
<1>2. ShapeInv /\ DirInv /\ FreeInv /\ [Next]_desks =>
        [\A c \in Clients : AloneStep(c) /\ agents' # agents =>
           \A e \in ToSet(agents) :
             \/ Stale(e) \/ e \in ToSet(agents')
             \/ /\ e.who.project = call[c].me.project
                /\ e.who.agent = call[c].me.agent]_desks
  BY <1>1
<1>3. Init => ShapeInv /\ DirInv /\ FreeInv
  BY ShapeInit, DirInit, FreeInit
<1>4. ShapeInv /\ DirInv /\ FreeInv /\ [Next]_desks => (ShapeInv /\ DirInv /\ FreeInv)'
  BY ShapeNext, DirNext, FreeNext
<1>. QED BY <1>2, <1>3, <1>4, PTL DEF Spec, LiveAreLeftAlone

(***************************************************************************)
(* What is stored                                                          *)
(***************************************************************************)

LEMMA ParsesToTarget ==
  ASSUME NEW raw, ParseAddress(raw) # Malformed
  PROVE  ParseAddress(raw) \in Targets
<1>. DEFINE part(i) == IF i <= Len(raw) THEN ParsePart(raw[i]) ELSE None
<1>1. \A i \in 1 .. 3 : part(i) \in Literals \cup {None, Malformed}
  BY DEF ParsePart
<1>2. \A i \in 1 .. 3 : part(i) # Malformed
  BY DEF ParseAddress
<1>3. ParseAddress(raw) = [project |-> part(1), agent |-> part(2), role |-> part(3)]
  BY DEF ParseAddress
<1>4. /\ part(1) \in Literals \cup {None} /\ part(2) \in Literals \cup {None}
      /\ part(3) \in Literals \cup {None}
  BY <1>1, <1>2
<1>. HIDE DEF part
<1>. QED BY <1>3, <1>4 DEF Targets, Positions

\* A stored message is on a thread that was begun, to an address that parsed, from a day
\* that has been.
Mail(m) ==
  /\ m.thread \in 1 .. drafted /\ m.target \in Targets
  /\ m.created \in Nat /\ m.created <= day

\* A draft has its thread, or has yet to look up the thread of what it answers.
Threaded(k) ==
  \/ k.thread \in 1 .. drafted
  \/ /\ ~Pings(k)
     /\ (Ahead(k.plan, "look") /\ Ahead(k.plan, "resolve")) \/ Ahead(k.plan, "again")

MailInv ==
  /\ \A i \in DOMAIN messages : Mail(messages[i])
  /\ \A c \in Clients : Drafting(c) => Threaded(call[c])

LEMMA ThreadedCall ==
  ASSUME ShapeInv, MailInv, NEW c \in Clients, Step(c), Drafting(c)'
  PROVE  Threaded(call[c])'
<1>1. PICK k : k = call[c]
  OBVIOUS
<1>2. /\ k # Idle /\ Base(c, k)
      /\ \/ call'[c] = Idle
         \/ \E q : q = call'[c] /\ q # Idle /\ Going(k, q) /\ Changing(c, k, q)
  BY <1>1, Rows
<1>3. PICK q : q = call'[c] /\ Going(k, q) /\ Changing(c, k, q)
  BY <1>2 DEF Drafting
<1>4. /\ k.plan # <<>> /\ Planned(Pings(k), k.plan) /\ Pings(k) \in BOOLEAN
      /\ Ahead(k.plan, k.plan[1])
      /\ \A t : Ahead(k.plan, t) => t = k.plan[1] \/ Follows(Pings(k), k.plan[1], t)
      /\ Ahead(k.plan, "again") => Ahead(k.plan, "resolve")
  BY <1>2, HeadFirst DEF Base, Basic, Pings
<1>5. /\ Pings(q) <=> Pings(k)
      /\ Ahead(k.plan, "insert") /\ k.plan[1] # "insert" /\ drafted' = drafted
  BY <1>2, <1>3, StillAhead, Unwritten DEF Going, Kept, Drafting, Pings
<1>6. Threaded(k) /\ k.id \in 1 .. drafted
  BY <1>1, <1>2, <1>5 DEF MailInv, Drafting, Base
<1>7. Less(k, q) \/ Still(k, q) \/ Back(k, q)
  BY <1>3 DEF Going
<1>8. CASE Back(k, q)
  <2>1. ~Pings(k)
    BY <1>4, <1>8 DEF Back, Reading, Sending, Follows
  <2>. QED BY <1>3, <1>5, <1>8, <2>1 DEF Threaded, Back
<1>9. CASE k.plan[1] \in {"look", "again"} /\ ~Back(k, q)
  <2>1. CASE Ahead(k.plan, "resolve")
    <3>1. Readable(c) /\ q.thread = messages[k.original].thread
      BY <1>3, <1>9, <2>1 DEF Changing
    <3>2. q.thread \in 1 .. drafted
      BY <1>1, <3>1 DEF Readable, MailInv, Mail
    <3>. QED BY <1>3, <1>5, <3>2 DEF Threaded
  <2>2. CASE ~Ahead(k.plan, "resolve")
    <3>1. q.thread = k.thread
      BY <1>3, <1>9, <2>2 DEF Changing
    <3>. QED BY <1>3, <1>4, <1>5, <1>6, <2>2, <3>1 DEF Threaded
  <2>. QED BY <2>1, <2>2
<1>10. CASE k.plan[1] \notin {"look", "again"} /\ ~Back(k, q)
  <2>1. CASE k.thread \in 1 .. drafted
    <3>1. q.thread \in {k.thread, k.id}
      BY <1>3, <1>10 DEF Changing
    <3>. QED BY <1>3, <1>5, <1>6, <2>1, <3>1 DEF Threaded
  <2>2. CASE k.thread \notin 1 .. drafted
    <3>1. ~Ahead(k.plan, "again")
      BY <1>4, <1>10 DEF Follows
    <3>2. ~Pings(k) /\ Ahead(k.plan, "look") /\ Ahead(k.plan, "resolve")
      BY <1>6, <2>2, <3>1 DEF Threaded
    <3>3. k.plan[1] # "resolve"
      BY <1>4, <3>2 DEF Follows, Sending, Reading
    <3>4. Ahead(q.plan, "look") /\ Ahead(q.plan, "resolve")
      BY <1>7, <1>10, <3>2, <3>3 DEF Less, Still, Lasting
    <3>. QED BY <1>3, <1>5, <3>2, <3>4 DEF Threaded
  <2>. QED BY <2>1, <2>2
<1>. QED BY <1>8, <1>9, <1>10

LEMMA MailInsert ==
  ASSUME ShapeInv, MailInv, NEW c \in Clients, Insert(c), NEW i \in DOMAIN messages'
  PROVE  Mail(messages'[i])
<1>1. PICK k : k = call[c]
  OBVIOUS
<1>2. /\ k # Idle /\ k.plan[1] = "insert" /\ Base(c, k) /\ drafted \in Nat
  BY <1>1 DEF Insert, At, ShapeInv
<1>3. /\ k.plan # <<>> /\ Planned(Pings(k), k.plan) /\ Pings(k) \in BOOLEAN
      /\ Ahead(k.plan, "insert")
      /\ \A t : Ahead(k.plan, t) => t = "insert" \/ Follows(Pings(k), "insert", t)
  BY <1>2, HeadFirst DEF Base, Basic, Pings
<1>4. k.thread \in 1 .. drafted
  <2>1. Threaded(k)
    BY <1>1, <1>2, <1>3 DEF MailInv, Drafting
  <2>2. Ahead(k.plan, "look") => Pings(k)
    BY <1>3 DEF Follows, Sending, Reading
  <2>3. ~Ahead(k.plan, "again")
    BY <1>3 DEF Follows
  <2>. QED BY <2>1, <2>2, <2>3 DEF Threaded
<1>5. k.since \in Nat /\ k.since <= day
  BY <1>2 DEF Base
<1>6. CASE messages' = messages
  BY <1>6 DEF MailInv
<1>7. CASE messages' # messages
  <2>. DEFINE entry == [from |-> Me(c), target |-> ParseAddress(k.to), thread |-> k.thread,
                        created |-> k.since, by |-> c,
                        for |-> IF k.alone THEN Named(k.asked) \ {c} ELSE {},
                        root |-> Root(k), late |-> Root(k) \notin DOMAIN messages \cup {0}]
  <2>1. messages' = Put(messages, k.id, entry) /\ ParseAddress(k.to) # Malformed
    BY <1>1, <1>7 DEF Insert
  <2>2. entry.target \in Targets
    BY <2>1, ParsesToTarget
  <2>3. Mail(entry)
    BY <1>4, <1>5, <2>2 DEF Mail
  <2>. HIDE DEF entry
  <2>4. \/ messages'[i] = entry
        \/ i \in DOMAIN messages /\ messages'[i] = messages[i]
    BY <2>1 DEF Put
  <2>. QED BY <2>3, <2>4 DEF MailInv
<1>. QED BY <1>6, <1>7

LEMMA MailStep ==
  ASSUME ShapeInv, MailInv, NEW c \in Clients, Step(c)
  PROVE  MailInv'
<1>1. drafted' = drafted /\ day' = day
  BY Unwritten
<1>2. ASSUME NEW i \in DOMAIN messages' PROVE Mail(messages'[i])
  <2>1. CASE Open(c)
    <3>1. i \in DOMAIN messages /\ messages'[i] = messages[i]
      BY <1>2, <2>1 DEF Open, PurgeExpired, Keep
    <3>. QED BY <3>1 DEF MailInv
  <2>2. CASE Insert(c)
    BY <1>2, <2>2, MailInsert
  <2>3. CASE Move(c)
    <3>1. PICK old, new : messages' = MoveMail(old, new) /\ new = call[c].as
      BY <2>3 DEF Move
    <3>2. PICK mail : mail = MoveMail(old, new)
      OBVIOUS
    <3>3. /\ DOMAIN mail = DOMAIN messages
          /\ \A j \in DOMAIN messages :
               /\ mail[j].thread = messages[j].thread
               /\ mail[j].created = messages[j].created
               /\ mail[j].target = IF messages[j].target = old THEN new
                                   ELSE messages[j].target
      BY <3>2, MovedMail DEF ShapeInv
    <3>4. new \in Targets
      BY <2>3, <3>1, Taken, IdentityParts
    <3>5. i \in DOMAIN messages /\ messages'[i] = mail[i]
      BY <1>2, <3>1, <3>2, <3>3
    <3>. QED BY <3>3, <3>4, <3>5 DEF MailInv, Mail
  <2>4. CASE ~Open(c) /\ ~Insert(c) /\ ~Move(c)
    BY <1>2, <2>4, Unwritten DEF MailInv
  <2>. QED BY <2>1, <2>2, <2>3, <2>4
<1>3. \A i \in DOMAIN messages' : Mail(messages[i])'
  BY <1>1, <1>2 DEF Mail
<1>4. ASSUME NEW x \in Clients, Drafting(x)' PROVE Threaded(call[x])'
  <2>1. CASE x = c
    BY <1>4, <2>1, ThreadedCall
  <2>2. CASE x # c
    <3>1. PICK k : k = call[x]
      OBVIOUS
    <3>2. call'[x] = [k EXCEPT !.alone = FALSE] /\ k # Idle
      BY <1>4, <2>2, <3>1, Rows DEF Drafting
    <3>3. DOMAIN k = CallFields
      BY <3>1, <3>2 DEF ShapeInv, Base, Basic
    <3>4. PICK q : q = call'[x]
      OBVIOUS
    <3>5. q.plan = k.plan /\ q.thread = k.thread /\ q.id = k.id /\ q.original = k.original
      BY <3>2, <3>3, <3>4 DEF CallFields
    <3>6. Threaded(k)
      BY <1>4, <3>1, <3>2, <3>4, <3>5 DEF MailInv, Drafting
    <3>7. Threaded(q)'
      BY <1>1, <3>5, <3>6 DEF Threaded, Pings
    <3>. QED BY <3>4, <3>7
  <2>. QED BY <2>1, <2>2
<1>. QED BY <1>3, <1>4 DEF MailInv

LEMMA MailRequest ==
  ASSUME ShapeInv, MailInv, NEW c \in Clients, Request(c)
  PROVE  MailInv'
<1>1. drafted \in Nat /\ who[c] \in Identities /\ DOMAIN call = Clients
  BY DEF ShapeInv
<1>2. PICK k : Starts(c, k) /\ Begin(c, k)
  BY <1>1, Begun
<1>3. /\ call' = [call EXCEPT ![c] = k] /\ messages' = messages /\ day' = day
      /\ drafted' \in Nat /\ drafted <= drafted'
  BY <1>1, <1>2, Begun DEF Begin, stored
<1>4. /\ call'[c] = k /\ \A d \in Clients \ {c} : call'[d] = call[d]
  BY <1>1, <1>3
<1>5. Drafting(c)' => Threaded(k)'
  BY <1>2, <1>4 DEF Threaded, Starts, Drafting, Pings
<1>6. ASSUME NEW x \in Clients \ {c}, Drafting(x)' PROVE Threaded(call[x])'
  <2>1. PICK q : q = call[x]
    OBVIOUS
  <2>2. Threaded(q)
    BY <1>4, <1>6, <2>1 DEF MailInv, Drafting
  <2>3. Threaded(q)'
    BY <1>1, <1>3, <2>2 DEF Threaded, Pings
  <2>. QED BY <1>4, <1>6, <2>1, <2>3
<1>7. \A i \in DOMAIN messages' : Mail(messages[i])'
  BY <1>1, <1>3 DEF MailInv, Mail
<1>. QED BY <1>4, <1>5, <1>6, <1>7 DEF MailInv

LEMMA MailNext ==
  ASSUME ShapeInv, MailInv, [Next]_desks
  PROVE  MailInv'
<1>1. CASE Sleep \/ UNCHANGED desks
  <2>1. call' = call /\ messages' = messages /\ drafted' = drafted
    BY <1>1 DEF Sleep, desks, hub, stored
  <2>2. day \in Nat /\ day' \in Nat /\ (day' = day \/ day' > day)
    BY <1>1, ShapeNext DEF ShapeInv, Sleep, desks, hub
  <2>3. \A i \in DOMAIN messages' : Mail(messages[i])'
    BY <2>1, <2>2 DEF MailInv, Mail
  <2>4. \A x \in Clients : Drafting(x)' => Threaded(call[x])'
    BY <2>1 DEF MailInv, Drafting, Threaded
  <2>. QED BY <2>3, <2>4 DEF MailInv
<1>. QED BY <1>1, MailStep, MailRequest DEF Next

LEMMA MailInit ==
  ASSUME Init
  PROVE  MailInv
BY DEF Init, MailInv, Drafting

\* The rows are well formed through every interleaving of calls: a message is on a thread
\* that was begun, to an address, of a day that has been; what was consumed was composed;
\* and the directory has one entry to a name (its primary key), also while agents rename
\* themselves and are superseded.
THEOREM OldRows == Spec => []OldTypeOK
<1>1. ShapeInv /\ FreshInv /\ DirInv /\ MailInv => OldTypeOK
  <2>1. SUFFICES ASSUME ShapeInv, FreshInv, DirInv, MailInv PROVE OldTypeOK
    OBVIOUS
  <2>2. \A i \in DOMAIN messages :
          /\ i \in 1 .. drafted /\ messages[i].thread \in 1 .. drafted
          /\ messages[i].target \in Targets /\ messages[i].created <= day
    BY <2>1 DEF ShapeInv, MailInv, Mail
  <2>3. \A r \in reads : r[1] \in 1 .. drafted
    BY <2>1 DEF FreshInv
  <2>4. ASSUME NEW e \in DOMAIN agents, NEW f \in DOMAIN agents,
               agents[e].who = agents[f].who
        PROVE  e = f
    <3>1. DOMAIN agents = 1 .. Len(agents) /\ Len(agents) \in Nat
      BY <2>1 DEF DirInv, Directory
    <3>2. e \in Nat /\ f \in Nat /\ ~(e < f) /\ ~(f < e)
      BY <2>1, <2>4, <3>1 DEF DirInv, Directory
    <3>. QED BY <3>2
  <2>5. \A e \in ToSet(agents) : e.who \in Identities /\ e.seen <= day
    BY <2>1 DEF DirInv, Directory
  <2>. QED BY <2>1, <2>2, <2>3, <2>4, <2>5 DEF OldTypeOK, ShapeInv
<1>2. Init => ShapeInv /\ FreshInv /\ DirInv /\ MailInv
  BY ShapeInit, FreshInit, DirInit, MailInit
<1>3. ShapeInv /\ FreshInv /\ DirInv /\ MailInv /\ [Next]_desks =>
        (ShapeInv /\ FreshInv /\ DirInv /\ MailInv)'
  BY ShapeNext, FreshNext, DirNext, MailNext
<1>. QED BY <1>1, <1>2, <1>3, PTL DEF Spec
=============================================================================
