----------------------------- MODULE DualBootProofs ----------------------------
(***************************************************************************)
(* Proofs about the two images, for any files and any number of power      *)
(* failures: what is launched is what was asked for, the settings that are *)
(* taken for valid are complete, and the button ends in the menu.          *)
(*                                                                         *)
(* The invariant says which writes are still to be made, in which place,   *)
(* and what those before them have already made permanent.                 *)
(***************************************************************************)
EXTENDS DualBoot, SequenceTheorems, TLAPS

--------------------------------------------------------------------------------
(* Lists of writes.                                                           *)

\* A list that agrees with two others, one after the other, is their join.
LEMMA JoinIs ==
  ASSUME NEW S, NEW s \in Seq(S), NEW t \in Seq(S), NEW u \in Seq(S),
         Len(u) = Len(s) + Len(t),
         \A i \in 1..Len(s) : u[i] = s[i],
         \A i \in 1..Len(t) : u[Len(s) + i] = t[i]
  PROVE  s \o t = u
<1>1. /\ s \o t \in Seq(S) /\ Len(s \o t) = Len(s) + Len(t)
      /\ \A i \in 1..Len(s) + Len(t) : (s \o t)[i] =
           IF i <= Len(s) THEN s[i] ELSE t[i - Len(s)]
  BY ConcatProperties, Zenon
<1>2. \A i \in 1..Len(u) : (s \o t)[i] = u[i]
  <2> SUFFICES ASSUME NEW i \in 1..Len(u) PROVE (s \o t)[i] = u[i]
    OBVIOUS
  <2>1. Len(s) \in Nat /\ Len(t) \in Nat
    OBVIOUS
  <2>2. CASE i <= Len(s)
    BY <1>1, <2>1, <2>2
  <2>3. CASE i > Len(s)
    <3>1. i - Len(s) \in 1..Len(t) /\ Len(s) + (i - Len(s)) = i
      BY <2>1, <2>3
    <3>2. u[i] = t[i - Len(s)]
      BY <3>1
    <3>3. QED
      BY <1>1, <2>1, <2>3, <3>2
  <2>4. QED
    BY <2>1, <2>2, <2>3
<1>3. QED
  BY <1>1, <1>2, SeqEqual

\* Two writes of a name, and one more.
LEMMA JoinTwoOne ==
  ASSUME NEW a, NEW b, NEW c
  PROVE  <<a, b>> \o <<c>> = <<a, b, c>>
<1> DEFINE S == {a, b, c}
           s == <<a, b>>
           t == <<c>>
           u == <<a, b, c>>
<1>1. s \in Seq(S) /\ t \in Seq(S) /\ u \in Seq(S)
  OBVIOUS
<1>2. Len(s) = 2 /\ Len(t) = 1 /\ Len(u) = 3
  OBVIOUS
<1>3. /\ \A i \in 1..2 : u[i] = s[i]
      /\ \A i \in 1..1 : u[2 + i] = t[i]
  OBVIOUS
<1> HIDE DEF S, s, t, u
<1>4. /\ Len(u) = Len(s) + Len(t)
      /\ \A i \in 1..Len(s) : u[i] = s[i]
      /\ \A i \in 1..Len(t) : u[Len(s) + i] = t[i]
  BY <1>2, <1>3
<1>5. s \o t = u
  BY <1>1, <1>4, JoinIs, Zenon
<1>6. QED
  BY <1>5 DEF s, t, u

\* Three writes of a name that does not fit, and one more.
LEMMA JoinThreeOne ==
  ASSUME NEW a, NEW b, NEW c, NEW d
  PROVE  <<a, b, c>> \o <<d>> = <<a, b, c, d>>
<1> DEFINE S == {a, b, c, d}
           s == <<a, b, c>>
           t == <<d>>
           u == <<a, b, c, d>>
<1>1. s \in Seq(S) /\ t \in Seq(S) /\ u \in Seq(S)
  OBVIOUS
<1>2. Len(s) = 3 /\ Len(t) = 1 /\ Len(u) = 4
  OBVIOUS
<1>3. /\ \A i \in 1..3 : u[i] = s[i]
      /\ \A i \in 1..1 : u[3 + i] = t[i]
  OBVIOUS
<1> HIDE DEF S, s, t, u
<1>4. /\ Len(u) = Len(s) + Len(t)
      /\ \A i \in 1..Len(s) : u[i] = s[i]
      /\ \A i \in 1..Len(t) : u[Len(s) + i] = t[i]
  BY <1>2, <1>3
<1>5. s \o t = u
  BY <1>1, <1>4, JoinIs, Zenon
<1>6. QED
  BY <1>5 DEF s, t, u

\* Two writes of the record, two of the marker.
LEMMA JoinTwoTwo ==
  ASSUME NEW a, NEW b, NEW c, NEW d
  PROVE  <<a, b>> \o <<c, d>> = <<a, b, c, d>>
<1> DEFINE S == {a, b, c, d}
           s == <<a, b>>
           t == <<c, d>>
           u == <<a, b, c, d>>
<1>1. s \in Seq(S) /\ t \in Seq(S) /\ u \in Seq(S)
  OBVIOUS
<1>2. Len(s) = 2 /\ Len(t) = 2 /\ Len(u) = 4
  OBVIOUS
<1>3. /\ \A i \in 1..2 : u[i] = s[i]
      /\ \A i \in 1..2 : u[2 + i] = t[i]
  OBVIOUS
<1> HIDE DEF S, s, t, u
<1>4. /\ Len(u) = Len(s) + Len(t)
      /\ \A i \in 1..Len(s) : u[i] = s[i]
      /\ \A i \in 1..Len(t) : u[Len(s) + i] = t[i]
  BY <1>2, <1>3
<1>5. s \o t = u
  BY <1>1, <1>4, JoinIs, Zenon
<1>6. QED
  BY <1>5 DEF s, t, u

\* These four and one more.
LEMMA JoinFourOne ==
  ASSUME NEW a, NEW b, NEW c, NEW d, NEW e
  PROVE  <<a, b, c, d>> \o <<e>> = <<a, b, c, d, e>>
<1> DEFINE S == {a, b, c, d, e}
           s == <<a, b, c, d>>
           t == <<e>>
           u == <<a, b, c, d, e>>
<1>1. s \in Seq(S) /\ t \in Seq(S) /\ u \in Seq(S)
  OBVIOUS
<1>2. Len(s) = 4 /\ Len(t) = 1 /\ Len(u) = 5
  OBVIOUS
<1>3. /\ \A i \in 1..4 : u[i] = s[i]
      /\ \A i \in 1..1 : u[4 + i] = t[i]
  OBVIOUS
<1> HIDE DEF S, s, t, u
<1>4. /\ Len(u) = Len(s) + Len(t)
      /\ \A i \in 1..Len(s) : u[i] = s[i]
      /\ \A i \in 1..Len(t) : u[Len(s) + i] = t[i]
  BY <1>2, <1>3
<1>5. s \o t = u
  BY <1>1, <1>4, JoinIs, Zenon
<1>6. QED
  BY <1>5 DEF s, t, u

\* The next write of a list, and the rest.
LEMMA NextWrite ==
  ASSUME NEW a, NEW b, NEW c, NEW d, NEW e
  PROVE  /\ Head(<<a>>) = a /\ Tail(<<a>>) = <<>> /\ <<a>> # <<>>
         /\ Head(<<a, b>>) = a /\ Tail(<<a, b>>) = <<b>> /\ <<a, b>> # <<>>
         /\ Head(<<a, b, c>>) = a /\ Tail(<<a, b, c>>) = <<b, c>>
         /\ <<a, b, c>> # <<>>
         /\ Head(<<a, b, c, d>>) = a /\ Tail(<<a, b, c, d>>) = <<b, c, d>>
         /\ <<a, b, c, d>> # <<>>
         /\ Head(<<a, b, c, d, e>>) = a
         /\ Tail(<<a, b, c, d, e>>) = <<b, c, d, e>>
         /\ <<a, b, c, d, e>> # <<>>
OBVIOUS
--------------------------------------------------------------------------------
(* The invariant.                                                             *)

\* What becomes of the end of a name.
Fitting(n) == IF n \in LongNames THEN "none" ELSE n

NameIs(n) == name.head = n /\ name.tail = Fitting(n)

\* A name is being written, and then e; what was written of it is there.
Naming(n, e) ==
  \/ todo = <<W("ind", Blank), W("tail", Fitting(n)), W("head", n), e>>
  \/ todo = <<W("tail", Fitting(n)), W("head", n), e>>
  \/ todo = <<W("head", n), e>> /\ name.tail = Fitting(n)
  \/ todo = <<e>> /\ NameIs(n)

\* The minimal image would find what was asked for.
Committed ==
  /\ asked \in Crts \cup Vms
  /\ IF asked \in Vms THEN record = asked /\ NameIs("@VM1") ELSE NameIs(asked)

\* What the minimal image writes of a name: of one that does not fit its end
\* stays that of the name before.
Sent(n) == name.head = n /\ (n \notin LongNames => name.tail = n)

Sending(n, e) ==
  \/ /\ todo = <<W("head", "none"), W("tail", n), W("head", n), e>>
     /\ n \notin LongNames
  \/ todo = <<W("tail", n), W("head", n), e>> /\ n \notin LongNames
  \/ todo = <<W("head", "none"), W("head", n), e>> /\ n \in LongNames
  \/ todo = <<W("head", n), e>> /\ (n \notin LongNames => name.tail = n)
  \/ todo = <<e>> /\ Sent(n)

\* The full image would find what a terminal asked for.
Handed == asked \in Programs /\ Sent(asked)

\* No image would launch anything.
Calm == ind \notin {ExecuteMin, LaunchFull}

RecordWrites(n) ==
  \/ todo = <<W("record", "none"), W("record", n), W("tail", "@VM1"),
              W("head", "@VM1"), W("ind", ExecuteMin)>>
  \/ todo = <<W("record", n), W("tail", "@VM1"), W("head", "@VM1"),
              W("ind", ExecuteMin)>>

Committing ==
  /\ at \in {"settled", "launch", "menu"} /\ goto = "reset" /\ Calm
  /\ asked \in Crts \cup Vms
  /\ IF asked \in Vms
     THEN \/ RecordWrites(asked)
          \/ record = asked /\ Naming("@VM1", W("ind", ExecuteMin))
     ELSE Naming(asked, W("ind", ExecuteMin))

Handing ==
  /\ at = "crt" /\ goto \in ToMain /\ asked \in Programs
  /\ Sending(asked, W("ind", LaunchFull))

\* The indicator is cleared before what it asks for is tried, or because it
\* asks for nothing the image knows.
Clearing ==
  /\ todo = <<W("ind", SkipMin)>>
  /\ \/ at = "settled" /\ goto = "launch" /\ ind = LaunchFull
     \/ at = "settled" /\ goto = "menu"
     \/ at = "reset" /\ goto = "load" /\ ind = ExecuteMin /\ magic

Returning ==
  /\ at \in {"load", "crt"} /\ goto \in ToMain
  /\ todo = <<W("ind", FromMin)>>

MagicWrite == W("magic", TRUE)

Defaulting ==
  /\ \/ at = "main" /\ goto = "settled"
     \/ at = "menu" /\ goto = "reset"
  /\ \/ todo = <<W("settings", "mixed"), W("ind", SkipMin),
                 W("settings", "default"), MagicWrite>>
     \/ todo = <<W("ind", SkipMin), W("settings", "default"), MagicWrite>>
     \/ todo = <<W("settings", "default"), MagicWrite>>
     \/ todo = <<MagicWrite>> /\ settings = "default"

Resting ==
  /\ todo = <<>>
  /\ at = "load" => Committed /\ ind = SkipMin
  /\ at = "launch" => Handed
  /\ at = "vm" => ind = SkipMin

Progress ==
  Resting \/ Committing \/ Handing \/ Clearing \/ Returning \/ Defaulting

\* The indicator asks only for what can be found, also after a power failure.
IndInv ==
  /\ ind = ExecuteMin => Committed
  /\ ind = LaunchFull => Handed
  /\ at \in {"load", "launch", "menu", "crt", "vm"} => Calm
  /\ at \in {"load", "crt", "vm"} => magic

\* From the button to the menu nothing is launched.
LeaveInv ==
  leaving =>
    /\ magic
    /\ \/ at = "crt" /\ todo = <<W("ind", FromMin)>>
       \/ /\ at \in {"reset", "main", "settled"} /\ todo = <<>>
          /\ \/ ind = FromMin
             \/ ind = SkipMin /\ auto \notin Crts \cup Vms
       \/ at = "settled" /\ todo = <<W("ind", SkipMin)>> /\ goto = "menu"
       \/ at = "menu" /\ todo = <<>>

BootTypes ==
  /\ ind \in {SkipMin, ExecuteMin, FromMin, LaunchFull, Blank}
  /\ name \in [head : Names, tail : Names]
  /\ settings \in {"blank", "default", "user", "mixed"}
  /\ record \in Vms \cup {"none"}
  /\ at \in Places /\ goto \in Places
  /\ magic \in BOOLEAN /\ button \in BOOLEAN /\ pressed \in BOOLEAN
  /\ leaving \in BOOLEAN
  /\ auto \in Programs \cup {"none"} /\ asked \in Programs \cup {"none"}
  /\ losses \in 0..MaxLosses

BootInv == BootTypes /\ Progress /\ IndInv /\ LeaveInv

--------------------------------------------------------------------------------
(* The lists that the two images write.                                       *)

LEMMA NameList ==
  ASSUME NEW n, NEW e
  PROVE  NameWrites(n) \o <<e>> =
           IF n \in LongNames
           THEN <<W("ind", Blank), W("tail", Fitting(n)), W("head", n), e>>
           ELSE <<W("tail", Fitting(n)), W("head", n), e>>
<1>1. CASE n \in LongNames
  <2>1. NameWrites(n) = <<W("ind", Blank), W("tail", "none"), W("head", n)>>
    BY <1>1 DEF NameWrites
  <2>2. NameWrites(n) \o <<e>> =
          <<W("ind", Blank), W("tail", "none"), W("head", n), e>>
    BY <2>1, JoinThreeOne, Zenon
  <2>3. QED
    BY <1>1, <2>2 DEF Fitting
<1>2. CASE n \notin LongNames
  <2>1. NameWrites(n) = <<W("tail", n), W("head", n)>>
    BY <1>2 DEF NameWrites
  <2>2. NameWrites(n) \o <<e>> = <<W("tail", n), W("head", n), e>>
    BY <2>1, JoinTwoOne, Zenon
  <2>3. QED
    BY <1>2, <2>2 DEF Fitting
<1>3. QED
  BY <1>1, <1>2

LEMMA CommitList ==
  ASSUME NEW n \in Vms
  PROVE  Commit(n) = <<W("record", "none"), W("record", n), W("tail", "@VM1"),
                       W("head", "@VM1"), W("ind", ExecuteMin)>>
<1>1. "@VM1" \notin LongNames
  BY DualBootAssumption
<1>2. NameWrites("@VM1") = <<W("tail", "@VM1"), W("head", "@VM1")>>
  BY <1>1 DEF NameWrites
<1>3. <<W("record", "none"), W("record", n)>> \o NameWrites("@VM1") =
        <<W("record", "none"), W("record", n), W("tail", "@VM1"),
          W("head", "@VM1")>>
  BY <1>2, JoinTwoTwo, Zenon
<1>4. Commit(n) = (<<W("record", "none"), W("record", n)>> \o NameWrites("@VM1"))
                  \o <<W("ind", ExecuteMin)>>
  BY DEF Commit
<1>5. QED
  BY <1>3, <1>4, JoinFourOne, Zenon

\* A launch by way of the minimal image begins with all its writes to be made.
LEMMA CommitStarts ==
  ASSUME NEW n \in Crts \cup Vms, todo' = Commit(n)
  PROVE  IF n \in Vms THEN RecordWrites(n)'
         ELSE Naming(n, W("ind", ExecuteMin))'
<1>1. CASE n \in Vms
  BY <1>1, CommitList DEF RecordWrites
<1>2. CASE n \notin Vms
  <2>1. Commit(n) = NameWrites(n) \o <<W("ind", ExecuteMin)>>
    BY <1>2 DEF Commit
  <2>2. QED
    BY <1>2, <2>1, NameList DEF Naming
<1>3. QED
  BY <1>1, <1>2

--------------------------------------------------------------------------------
(* One write.                                                                 *)

\* What a write of w does, when it is the next one.
Written(w) ==
  /\ ind' = IF w.cell = "ind" THEN w.value ELSE ind
  /\ name' = IF w.cell \in {"head", "tail"}
             THEN [name EXCEPT ![w.cell] = w.value] ELSE name
  /\ magic' = (magic \/ w.cell = "magic")
  /\ settings' = IF w.cell # "settings" \/ (w.value = "mixed" /\ settings = "default")
                 THEN settings ELSE w.value
  /\ record' = IF w.cell = "record" THEN w.value ELSE record
  /\ UNCHANGED <<goto, pressed, user, asked, leaving, losses>>

\* The writes of the last place are made: the processor goes on.
LEMMA LastWrite ==
  ASSUME Write, NEW w, todo = <<w>>
  PROVE  Written(w) /\ todo' = <<>> /\ at' = goto
<1>1. Head(todo) = w /\ Tail(todo) = <<>>
  BY NextWrite
<1>2. QED
  BY <1>1 DEF Write, Written

\* A write of a name or of the indicator keeps the types and the rest.
LEMMA NameWriteKeeps ==
  ASSUME BootTypes, NEW w, Written(w), at' \in {at, goto},
         \/ w.cell = "ind" /\ w.value \in {Blank, ExecuteMin, LaunchFull}
         \/ w.cell \in {"head", "tail"} /\ w.value \in Names
  PROVE  /\ UNCHANGED <<goto, magic, record, settings, asked, auto, leaving>>
         /\ BootTypes'
<1>1. UNCHANGED <<goto, magic, record, settings, asked, auto, leaving, button,
                  pressed, losses>>
  BY DEF Written, user, BootTypes
<1>2. name' \in [head : Names, tail : Names]
  BY DEF Written, BootTypes
<1>3. ind' \in {SkipMin, ExecuteMin, FromMin, LaunchFull, Blank}
  BY DEF Written, BootTypes
<1>4. QED
  BY <1>1, <1>2, <1>3 DEF BootTypes

\* The next write of a name keeps the list one of those of a name, or is that
\* of the indicator.
LEMMA NamingWrite ==
  ASSUME BootTypes, Write, NEW n \in Names, NEW x \in {ExecuteMin, LaunchFull},
         Naming(n, W("ind", x))
  PROVE  /\ UNCHANGED <<goto, magic, record, settings, asked, auto, leaving>>
         /\ BootTypes'
         /\ \/ /\ at' = at /\ ind' \in {ind, Blank}
               /\ Naming(n, W("ind", x))'
            \/ /\ todo' = <<>> /\ at' = goto /\ ind' = x /\ NameIs(n)'
<1> DEFINE e == W("ind", x)
<1>9. Fitting(n) \in Names
  BY DEF Fitting, Names
<1>1. CASE todo = <<W("ind", Blank), W("tail", Fitting(n)), W("head", n), e>>
  <2>1. /\ Written(W("ind", Blank)) /\ at' = at
        /\ todo' = <<W("tail", Fitting(n)), W("head", n), e>>
    <3> HIDE DEF e
    <3>1. /\ Head(todo) = W("ind", Blank)
          /\ Tail(todo) = <<W("tail", Fitting(n)), W("head", n), e>>
          /\ <<W("tail", Fitting(n)), W("head", n), e>> # <<>>
      BY <1>1, NextWrite
    <3>2. QED
      BY <3>1 DEF Write, Written
  <2>2. QED
    BY NameWriteKeeps, <2>1 DEF Written, W, Naming
<1>2. CASE todo = <<W("tail", Fitting(n)), W("head", n), e>>
  <2>1. /\ Written(W("tail", Fitting(n))) /\ at' = at
        /\ todo' = <<W("head", n), e>>
    <3> HIDE DEF e
    <3>1. /\ Head(todo) = W("tail", Fitting(n))
          /\ Tail(todo) = <<W("head", n), e>> /\ <<W("head", n), e>> # <<>>
      BY <1>2, NextWrite
    <3>2. QED
      BY <3>1 DEF Write, Written
  <2>2. name'.tail = Fitting(n) /\ ind' = ind
    BY <2>1 DEF Written, W, BootTypes
  <2>3. /\ UNCHANGED <<goto, magic, record, settings, asked, auto, leaving>>
        /\ BootTypes'
    BY NameWriteKeeps, <1>9, <2>1 DEF W
  <2>4. QED
    BY <2>1, <2>2, <2>3 DEF Naming
<1>3. CASE todo = <<W("head", n), e>> /\ name.tail = Fitting(n)
  <2>1. Written(W("head", n)) /\ at' = at /\ todo' = <<e>>
    <3> HIDE DEF e
    <3>1. /\ Head(todo) = W("head", n)
          /\ Tail(todo) = <<e>> /\ <<e>> # <<>>
      BY <1>3, NextWrite
    <3>2. QED
      BY <3>1 DEF Write, Written
  <2>2. name'.tail = Fitting(n) /\ name'.head = n /\ ind' = ind
    BY <1>3, <2>1 DEF Written, W, BootTypes
  <2>3. /\ UNCHANGED <<goto, magic, record, settings, asked, auto, leaving>>
        /\ BootTypes'
    BY NameWriteKeeps, <1>9, <2>1 DEF W
  <2>4. QED
    BY <2>1, <2>2, <2>3 DEF Naming, NameIs
<1>4. CASE todo = <<e>> /\ NameIs(n)
  <2>1. Written(e) /\ at' = goto /\ todo' = <<>>
    BY <1>4, LastWrite
  <2>2. name' = name /\ ind' = x
    BY <2>1 DEF Written, W
  <2>3. /\ UNCHANGED <<goto, magic, record, settings, asked, auto, leaving>>
        /\ BootTypes'
    BY NameWriteKeeps, <1>9, <2>1 DEF W
  <2>4. QED
    BY <1>4, <2>1, <2>2, <2>3 DEF NameIs
<1>5. QED
  BY <1>1, <1>2, <1>3, <1>4 DEF Naming

\* The same of a name that a terminal sends.
LEMMA SendingWrite ==
  ASSUME BootTypes, Write, NEW n \in Names, NEW x \in {ExecuteMin, LaunchFull},
         Sending(n, W("ind", x))
  PROVE  /\ UNCHANGED <<goto, magic, record, settings, asked, auto, leaving>>
         /\ BootTypes'
         /\ \/ /\ at' = at /\ ind' = ind /\ Sending(n, W("ind", x))'
            \/ /\ todo' = <<>> /\ at' = goto /\ ind' = x /\ Sent(n)'
<1> DEFINE e == W("ind", x)
<1>0. "none" \in Names
  BY DEF Names
<1>1. CASE /\ todo = <<W("head", "none"), W("tail", n), W("head", n), e>>
           /\ n \notin LongNames
  <2>1. /\ Written(W("head", "none")) /\ at' = at
        /\ todo' = <<W("tail", n), W("head", n), e>>
    <3> HIDE DEF e
    <3>1. /\ Head(todo) = W("head", "none")
          /\ Tail(todo) = <<W("tail", n), W("head", n), e>>
          /\ <<W("tail", n), W("head", n), e>> # <<>>
      BY <1>1, NextWrite
    <3>2. QED
      BY <3>1 DEF Write, Written
  <2>2. ind' = ind
    BY <2>1 DEF Written, W
  <2>3. /\ UNCHANGED <<goto, magic, record, settings, asked, auto, leaving>>
        /\ BootTypes'
    BY NameWriteKeeps, <1>0, <2>1 DEF W
  <2>4. QED
    BY <1>1, <2>1, <2>2, <2>3 DEF Sending
<1>2. CASE todo = <<W("tail", n), W("head", n), e>> /\ n \notin LongNames
  <2>1. Written(W("tail", n)) /\ at' = at /\ todo' = <<W("head", n), e>>
    <3> HIDE DEF e
    <3>1. /\ Head(todo) = W("tail", n)
          /\ Tail(todo) = <<W("head", n), e>> /\ <<W("head", n), e>> # <<>>
      BY <1>2, NextWrite
    <3>2. QED
      BY <3>1 DEF Write, Written
  <2>2. name'.tail = n /\ ind' = ind
    BY <2>1 DEF Written, W, BootTypes
  <2>3. /\ UNCHANGED <<goto, magic, record, settings, asked, auto, leaving>>
        /\ BootTypes'
    BY NameWriteKeeps, <2>1 DEF W
  <2>4. QED
    BY <2>1, <2>2, <2>3 DEF Sending
<1>3. CASE todo = <<W("head", "none"), W("head", n), e>> /\ n \in LongNames
  <2>1. Written(W("head", "none")) /\ at' = at /\ todo' = <<W("head", n), e>>
    <3> HIDE DEF e
    <3>1. /\ Head(todo) = W("head", "none")
          /\ Tail(todo) = <<W("head", n), e>> /\ <<W("head", n), e>> # <<>>
      BY <1>3, NextWrite
    <3>2. QED
      BY <3>1 DEF Write, Written
  <2>2. ind' = ind
    BY <2>1 DEF Written, W
  <2>3. /\ UNCHANGED <<goto, magic, record, settings, asked, auto, leaving>>
        /\ BootTypes'
    BY NameWriteKeeps, <1>0, <2>1 DEF W
  <2>4. QED
    BY <1>3, <2>1, <2>2, <2>3 DEF Sending
<1>4. CASE todo = <<W("head", n), e>> /\ (n \notin LongNames => name.tail = n)
  <2>1. Written(W("head", n)) /\ at' = at /\ todo' = <<e>>
    <3> HIDE DEF e
    <3>1. Head(todo) = W("head", n) /\ Tail(todo) = <<e>> /\ <<e>> # <<>>
      BY <1>4, NextWrite
    <3>2. QED
      BY <3>1 DEF Write, Written
  <2>2. name'.tail = name.tail /\ name'.head = n /\ ind' = ind
    BY <2>1 DEF Written, W, BootTypes
  <2>3. /\ UNCHANGED <<goto, magic, record, settings, asked, auto, leaving>>
        /\ BootTypes'
    BY NameWriteKeeps, <2>1 DEF W
  <2>4. QED
    BY <1>4, <2>1, <2>2, <2>3 DEF Sending, Sent
<1>5. CASE todo = <<e>> /\ Sent(n)
  <2>1. Written(e) /\ at' = goto /\ todo' = <<>>
    BY <1>5, LastWrite
  <2>2. name' = name /\ ind' = x
    BY <2>1 DEF Written, W
  <2>3. /\ UNCHANGED <<goto, magic, record, settings, asked, auto, leaving>>
        /\ BootTypes'
    BY NameWriteKeeps, <2>1 DEF W
  <2>4. QED
    BY <1>5, <2>1, <2>2, <2>3 DEF Sent
<1>6. QED
  BY <1>1, <1>2, <1>3, <1>4, <1>5 DEF Sending

\* While a launch or the defaults are being written the button has not left a
\* program.
LEMMA NotLeaving ==
  ASSUME BootTypes, LeaveInv, Committing \/ Handing \/ Defaulting
  PROVE  leaving = FALSE
<1> DEFINE Single(v) == todo = <<W("ind", v)>>
<1>1. \A n, x, v : (Naming(n, W("ind", x)) \/ Sending(n, W("ind", x)))
                   /\ Single(v) => x = v
  BY DEF Naming, Sending, W
<1>2. \A n, v : RecordWrites(n) => ~Single(v) /\ todo # <<>>
  BY DEF RecordWrites, W
<1>3. \A n, x : Naming(n, W("ind", x)) \/ Sending(n, W("ind", x)) => todo # <<>>
  BY DEF Naming, Sending
<1>4. CASE Committing
  <2>1. todo # <<>> /\ at \in {"settled", "launch", "menu"}
    BY <1>2, <1>3, <1>4 DEF Committing
  <2>2. ~Single(SkipMin)
    <3>1. ExecuteMin # SkipMin
      BY DEF ExecuteMin, SkipMin
    <3>2. CASE Naming("@VM1", W("ind", ExecuteMin))
      BY <1>1, <3>1, <3>2
    <3>3. CASE Naming(asked, W("ind", ExecuteMin))
      BY <1>1, <3>1, <3>3
    <3>4. CASE RecordWrites(asked)
      BY <1>2, <3>4
    <3>5. \/ RecordWrites(asked)
          \/ Naming("@VM1", W("ind", ExecuteMin))
          \/ Naming(asked, W("ind", ExecuteMin))
      BY <1>4 DEF Committing
    <3>6. QED
      BY <3>2, <3>3, <3>4, <3>5
  <2>3. QED
    BY <2>1, <2>2 DEF LeaveInv, BootTypes
<1>5. CASE Handing
  <2>1. todo # <<>> /\ at = "crt"
    BY <1>3, <1>5 DEF Handing
  <2>2. ~Single(FromMin)
    BY <1>1, <1>5 DEF Handing, LaunchFull, FromMin
  <2>3. QED
    BY <2>1, <2>2 DEF LeaveInv, BootTypes
<1>6. CASE Defaulting
  <2>1. todo # <<>> /\ at \in {"main", "menu"}
    BY <1>6 DEF Defaulting
  <2>2. QED
    BY <2>1 DEF LeaveInv, BootTypes
<1>7. QED
  BY <1>4, <1>5, <1>6

\* The writes before a launch by way of the minimal image.
LEMMA CommittingWrite ==
  ASSUME BootInv, Write, Committing
  PROVE  BootInv'
<1> USE DEF BootInv
<1>1. leaving = FALSE
  BY NotLeaving
<1>2. Fitting("@VM1") = "@VM1" /\ "@VM1" \in Names
  BY DualBootAssumption DEF Fitting, Names
<1>3. CASE asked \in Vms /\ RecordWrites(asked)
  <2>1. /\ UNCHANGED <<ind, name, magic, settings, goto, pressed, user, asked,
                       leaving, losses, at>>
        /\ record' \in {"none", asked}
        /\ \/ RecordWrites(asked)'
           \/ record' = asked /\ Naming("@VM1", W("ind", ExecuteMin))'
    <3>1. CASE todo = <<W("record", "none"), W("record", asked),
                        W("tail", "@VM1"), W("head", "@VM1"),
                        W("ind", ExecuteMin)>>
      <4>1. /\ Head(todo) = W("record", "none")
            /\ Tail(todo) = <<W("record", asked), W("tail", "@VM1"),
                               W("head", "@VM1"), W("ind", ExecuteMin)>>
            /\ Tail(todo) # <<>>
        BY <3>1, NextWrite
      <4>2. Written(W("record", "none")) /\ at' = at /\ todo' = Tail(todo)
        BY <4>1 DEF Write, Written
      <4>3. UNCHANGED asked
        BY <4>2 DEF Written
      <4>4. RecordWrites(asked)'
        BY <4>1, <4>2, <4>3 DEF RecordWrites
      <4>5. QED
        BY <4>2, <4>4 DEF Written, W, BootTypes
    <3>2. CASE todo = <<W("record", asked), W("tail", "@VM1"),
                        W("head", "@VM1"), W("ind", ExecuteMin)>>
      <4>1. /\ Head(todo) = W("record", asked)
            /\ Tail(todo) = <<W("tail", "@VM1"), W("head", "@VM1"),
                               W("ind", ExecuteMin)>>
            /\ Tail(todo) # <<>>
        BY <3>2, NextWrite
      <4>2. Written(W("record", asked)) /\ at' = at /\ todo' = Tail(todo)
        BY <4>1 DEF Write, Written
      <4>3. Naming("@VM1", W("ind", ExecuteMin))'
        BY <1>2, <4>1, <4>2 DEF Naming
      <4>4. QED
        BY <4>2, <4>3 DEF Written, W, BootTypes
    <3>3. QED
      BY <1>3, <3>1, <3>2 DEF RecordWrites
  <2>2. Committing'
    BY <1>3, <2>1 DEF Committing, Calm
  <2>3. BootTypes'
    BY <1>3, <2>1 DEF BootTypes, user
  <2>4. IndInv'
    BY <2>1 DEF Committing, Calm, IndInv
  <2>5. QED
    BY <1>1, <2>1, <2>2, <2>3, <2>4 DEF Progress, LeaveInv
<1>4. ASSUME NEW n \in Names, Naming(n, W("ind", ExecuteMin)),
             n = IF asked \in Vms THEN "@VM1" ELSE asked,
             asked \in Vms => record = asked
      PROVE  BootInv'
  <2>1. /\ UNCHANGED <<goto, magic, record, settings, asked, auto, leaving>>
        /\ BootTypes'
        /\ \/ /\ at' = at /\ ind' \in {ind, Blank}
              /\ Naming(n, W("ind", ExecuteMin))'
           \/ /\ todo' = <<>> /\ at' = goto /\ ind' = ExecuteMin /\ NameIs(n)'
    BY <1>4, NamingWrite
  <2>2. BootTypes'
    BY <2>1
  <2>3. CASE at' = at /\ ind' \in {ind, Blank} /\ Naming(n, W("ind", ExecuteMin))'
    <3>1. Committing'
      BY <1>4, <2>1, <2>3 DEF Committing, Calm, Blank, ExecuteMin, LaunchFull
    <3>2. IndInv'
      BY <2>3, <3>1 DEF Committing, Calm, IndInv
    <3>3. QED
      BY <1>1, <2>1, <2>2, <3>1, <3>2 DEF Progress, LeaveInv
  <2>4. CASE todo' = <<>> /\ at' = goto /\ ind' = ExecuteMin /\ NameIs(n)'
    <3>1. at' = "reset" /\ Resting'
      BY <2>4 DEF Committing, Resting
    <3>2. Committed'
      BY <1>4, <2>1, <2>4 DEF Committing, Committed
    <3>3. IndInv'
      BY <2>4, <3>1, <3>2 DEF IndInv, ExecuteMin, LaunchFull
    <3>4. QED
      BY <1>1, <2>1, <2>2, <3>1, <3>3 DEF Progress, LeaveInv
  <2>5. QED
    BY <2>1, <2>3, <2>4
<1>5. asked \in Names
  BY DEF BootTypes, Names
<1>6. QED
  BY <1>2, <1>3, <1>4, <1>5 DEF Committing

\* The writes of a program that a terminal asks for.
LEMMA HandingWrite ==
  ASSUME BootInv, Write, Handing
  PROVE  BootInv'
<1> USE DEF BootInv
<1>1. leaving = FALSE
  BY NotLeaving
<1>2. asked \in Names
  BY DEF Handing, Names
<1>3. /\ UNCHANGED <<goto, magic, record, settings, asked, auto, leaving>>
      /\ BootTypes'
      /\ \/ /\ at' = at /\ ind' = ind
            /\ Sending(asked, W("ind", LaunchFull))'
         \/ /\ todo' = <<>> /\ at' = goto /\ ind' = LaunchFull /\ Sent(asked)'
  BY <1>2, SendingWrite DEF Handing
<1>4. CASE /\ at' = at /\ ind' = ind
           /\ Sending(asked, W("ind", LaunchFull))'
  <2>1. Handing'
    BY <1>3, <1>4 DEF Handing
  <2>2. IndInv'
    BY <1>3, <1>4 DEF Handing, Calm, IndInv, ExecuteMin, LaunchFull
  <2>3. QED
    BY <1>1, <1>3, <2>1, <2>2 DEF Progress, LeaveInv
<1>5. CASE /\ todo' = <<>> /\ at' = goto /\ ind' = LaunchFull
           /\ Sent(asked)'
  <2>1. at' \in {"main", "reset"} /\ Resting'
    BY <1>5 DEF Handing, Resting, ToMain
  <2>2. Handed'
    BY <1>3, <1>5 DEF Handing, Handed, Sent
  <2>3. IndInv'
    BY <1>5, <2>1, <2>2 DEF IndInv, ExecuteMin, LaunchFull
  <2>4. QED
    BY <1>1, <1>3, <2>1, <2>3 DEF Progress, LeaveInv
<1>6. QED
  BY <1>3, <1>4, <1>5

\* The one write that clears the indicator.
LEMMA ClearingWrite ==
  ASSUME BootInv, Write, Clearing
  PROVE  BootInv'
<1> USE DEF BootInv
<1>1. Written(W("ind", SkipMin)) /\ todo' = <<>> /\ at' = goto
  BY LastWrite DEF Clearing
<1>2. /\ UNCHANGED <<name, magic, settings, record, goto, pressed, user, asked,
                     leaving, losses>>
      /\ ind' = SkipMin
  BY <1>1 DEF Written, W, BootTypes
<1>3. BootTypes' /\ Calm'
  BY <1>1, <1>2 DEF BootTypes, user, Calm, SkipMin, ExecuteMin, LaunchFull
<1>4. CASE at = "settled" /\ goto = "launch" /\ ind = LaunchFull
  <2>1. Handed'
    BY <1>2, <1>4 DEF IndInv, Handed, NameIs, Sent
  <2>2. leaving = FALSE
    BY <1>4 DEF LeaveInv, BootTypes, Clearing
  <2>3. QED
    BY <1>1, <1>2, <1>3, <1>4, <2>1, <2>2
    DEF Progress, Resting, IndInv, LeaveInv, Calm
<1>5. CASE at = "settled" /\ goto = "menu"
  BY <1>1, <1>2, <1>3, <1>5 DEF Progress, Resting, IndInv, LeaveInv, Calm
<1>6. CASE at = "reset" /\ goto = "load" /\ ind = ExecuteMin /\ magic
  <2>1. Committed'
    BY <1>2, <1>6 DEF IndInv, Committed, NameIs
  <2>2. leaving = FALSE
    BY <1>6 DEF LeaveInv, BootTypes, Clearing, ExecuteMin, FromMin, SkipMin
  <2>3. QED
    BY <1>1, <1>2, <1>3, <1>6, <2>1, <2>2
    DEF Progress, Resting, IndInv, LeaveInv, Calm
<1>7. QED
  BY <1>4, <1>5, <1>6 DEF Clearing

\* The one write that leads back to the full image.
LEMMA ReturningWrite ==
  ASSUME BootInv, Write, Returning
  PROVE  BootInv'
<1> USE DEF BootInv
<1>1. Written(W("ind", FromMin)) /\ todo' = <<>> /\ at' = goto
  BY LastWrite DEF Returning
<1>2. /\ UNCHANGED <<name, magic, settings, record, goto, pressed, user, asked,
                     leaving, losses>>
      /\ ind' = FromMin
  BY <1>1 DEF Written, W, BootTypes
<1>3. BootTypes' /\ at' \in {"main", "reset"} /\ magic
  BY <1>1, <1>2 DEF BootTypes, user, Returning, ToMain, IndInv
<1>4. QED
  BY <1>1, <1>2, <1>3
  DEF Progress, Resting, IndInv, LeaveInv, Calm, FromMin, ExecuteMin, LaunchFull

\* The settings, and last the magic number.
LEMMA DefaultingWrite ==
  ASSUME BootInv, Write, Defaulting
  PROVE  BootInv' /\ (~magic /\ magic' => settings = "default")
<1> USE DEF BootInv
<1>1. leaving = FALSE
  BY NotLeaving
<1>2. CASE todo = <<W("settings", "mixed"), W("ind", SkipMin),
                    W("settings", "default"), MagicWrite>>
  <2>1. /\ Head(todo) = W("settings", "mixed")
        /\ Tail(todo) = <<W("ind", SkipMin), W("settings", "default"),
                          MagicWrite>>
        /\ Tail(todo) # <<>>
    BY <1>2, NextWrite
  <2>2. Written(W("settings", "mixed")) /\ at' = at /\ todo' = Tail(todo)
    BY <2>1 DEF Write, Written
  <2>3. /\ UNCHANGED <<ind, name, magic, record, goto, pressed, user, asked,
                       leaving, losses>>
        /\ settings' \in {"mixed", settings}
    BY <2>2 DEF Written, W, BootTypes
  <2>4. Defaulting'
    BY <2>1, <2>2, <2>3 DEF Defaulting
  <2>5. BootTypes' /\ IndInv'
    BY <2>2, <2>3 DEF BootTypes, user, IndInv, Calm, Committed, Handed, NameIs, Sent
  <2>6. QED
    BY <1>1, <2>3, <2>4, <2>5 DEF Progress, LeaveInv
<1>3. CASE todo = <<W("ind", SkipMin), W("settings", "default"), MagicWrite>>
  <2>1. /\ Head(todo) = W("ind", SkipMin)
        /\ Tail(todo) = <<W("settings", "default"), MagicWrite>>
        /\ Tail(todo) # <<>>
    BY <1>3, NextWrite
  <2>2. Written(W("ind", SkipMin)) /\ at' = at /\ todo' = Tail(todo)
    BY <2>1 DEF Write, Written
  <2>3. /\ UNCHANGED <<name, magic, settings, record, goto, pressed, user,
                       asked, leaving, losses>>
        /\ ind' = SkipMin
    BY <2>2 DEF Written, W, BootTypes
  <2>4. Defaulting'
    BY <2>1, <2>2, <2>3 DEF Defaulting
  <2>5. BootTypes' /\ IndInv'
    BY <2>2, <2>3 DEF BootTypes, user, IndInv, Calm, SkipMin, ExecuteMin,
                      LaunchFull
  <2>6. QED
    BY <1>1, <2>3, <2>4, <2>5 DEF Progress, LeaveInv
<1>4. CASE todo = <<W("settings", "default"), MagicWrite>>
  <2>1. /\ Head(todo) = W("settings", "default")
        /\ Tail(todo) = <<MagicWrite>> /\ Tail(todo) # <<>>
    BY <1>4, NextWrite
  <2>2. Written(W("settings", "default")) /\ at' = at /\ todo' = Tail(todo)
    BY <2>1 DEF Write, Written
  <2>3. /\ UNCHANGED <<ind, name, magic, record, goto, pressed, user, asked,
                       leaving, losses>>
        /\ settings' = "default"
    BY <2>2 DEF Written, W, BootTypes
  <2>4. Defaulting'
    BY <2>1, <2>2, <2>3 DEF Defaulting
  <2>5. BootTypes' /\ IndInv'
    BY <2>2, <2>3 DEF BootTypes, user, IndInv, Calm, Committed, Handed, NameIs, Sent
  <2>6. QED
    BY <1>1, <2>3, <2>4, <2>5 DEF Progress, LeaveInv
<1>5. CASE todo = <<MagicWrite>> /\ settings = "default"
  <2>1. Written(MagicWrite) /\ todo' = <<>> /\ at' = goto
    BY <1>5, LastWrite
  <2>2. /\ UNCHANGED <<ind, name, settings, record, goto, pressed, user, asked,
                       leaving, losses>>
        /\ magic' = TRUE
    BY <2>1 DEF MagicWrite, Written, W, BootTypes
  <2>3. at' \in {"settled", "reset"}
    BY <2>1 DEF Defaulting
  <2>4. BootTypes' /\ IndInv' /\ Resting'
    BY <2>1, <2>2, <2>3 DEF BootTypes, user, IndInv, Calm, Committed, Handed, Sent,
                            NameIs, Resting
  <2>5. QED
    BY <1>1, <1>5, <2>2, <2>4 DEF Progress, LeaveInv
<1>6. QED
  BY <1>2, <1>3, <1>4, <1>5 DEF Defaulting

\* Whatever is written next.
LEMMA WriteStep ==
  ASSUME BootInv, Write
  PROVE  BootInv' /\ (~magic /\ magic' => settings = "default")
<1>1. todo # <<>>
  BY DEF Write
<1>2. CASE Defaulting
  BY <1>2, DefaultingWrite
<1>3. CASE ~Defaulting
  <2>1. Committing \/ Handing \/ Clearing \/ Returning
    BY <1>1, <1>3 DEF BootInv, Progress, Resting
  <2>2. BootInv'
    BY <2>1, CommittingWrite, HandingWrite, ClearingWrite, ReturningWrite
  <2>3. Head(todo).cell # "magic"
    <3>1. \A n, x : Naming(n, W("ind", x)) \/ Sending(n, W("ind", x)) =>
                     Head(todo).cell # "magic"
      BY NextWrite DEF Naming, Sending, W
    <3>2. \A n : RecordWrites(n) => Head(todo).cell # "magic"
      BY NextWrite DEF RecordWrites, W
    <3>3. Clearing \/ Returning => Head(todo).cell # "magic"
      BY NextWrite DEF Clearing, Returning, W
    <3>4. Committing \/ Handing => Head(todo).cell # "magic"
      BY <3>1, <3>2 DEF Committing, Handing
    <3>5. QED
      BY <2>1, <3>3, <3>4
  <2>4. magic' = magic
    BY <2>3 DEF Write, BootInv, BootTypes
  <2>5. QED
    BY <2>2, <2>4
<1>4. QED
  BY <1>2, <1>3
--------------------------------------------------------------------------------
(* The other steps, which are taken when nothing is left to be written.       *)

\* Then the machine rests.
LEMMA AtRest == BootInv /\ todo = <<>> => Resting
<1> SUFFICES ASSUME BootInv, todo = <<>> PROVE Resting
  OBVIOUS
<1>1. \A n, e : ~Naming(n, e) /\ ~Sending(n, e)
  BY DEF Naming, Sending
<1>2. \A n : ~RecordWrites(n)
  BY DEF RecordWrites
<1>3. ~Committing /\ ~Handing
  BY <1>1, <1>2 DEF Committing, Handing
<1>4. ~Clearing /\ ~Returning /\ ~Defaulting
  BY DEF Clearing, Returning, Defaulting
<1>5. QED
  BY <1>3, <1>4 DEF BootInv, Progress

\* A launch that the full image begins, or refuses.
LEMMA ExecuteStep ==
  ASSUME BootInv, todo = <<>>, at \in {"settled", "launch", "menu"}, Calm,
         NEW n \in Programs \cup {"none"}, Execute(n),
         UNCHANGED <<eeprom, record, user, leaving, losses>>,
         pressed' \in BOOLEAN, leaving => n \notin Crts \cup Vms
  PROVE  BootInv'
<1> USE DEF BootInv, eeprom, user
<1>1. CASE Go("menu") /\ asked' = "none"
  BY <1>1 DEF Go, Calm, BootTypes, Places, Progress, Resting, IndInv, LeaveInv
<1>2. CASE /\ n \in Crts \cup Vms
           /\ WriteThen(Commit(n), "reset") /\ asked' = n
  <2>1. /\ UNCHANGED <<at, record>> /\ goto' = "reset" /\ todo' = Commit(n)
        /\ asked' = n /\ leaving = FALSE
    BY <1>2 DEF WriteThen, BootTypes
  <2>2. IF n \in Vms THEN RecordWrites(n)' ELSE Naming(n, W("ind", ExecuteMin))'
    BY <1>2, <2>1, CommitStarts
  <2>3. Committing'
    BY <1>2, <2>1, <2>2 DEF Committing, Calm
  <2>4. BootTypes' /\ IndInv' /\ LeaveInv'
    BY <2>1 DEF BootTypes, Places, IndInv, LeaveInv, Calm
  <2>5. QED
    BY <2>3, <2>4 DEF Progress
<1>3. QED
  BY <1>1, <1>2 DEF Execute

\* The minimal image, at a reset.
LEMMA MinBootStep == BootInv /\ MinBoot => BootInv'
<1> SUFFICES ASSUME BootInv, MinBoot PROVE BootInv'
  OBVIOUS
<1> USE DEF BootInv, eeprom, user
<1>1. Resting /\ at = "reset" /\ todo = <<>>
  BY AtRest DEF MinBoot, Idle
<1>2. UNCHANGED <<ind, name, magic, settings, record, button, auto, asked,
                  leaving, losses>>
  BY DEF MinBoot
<1>3. pressed' \in BOOLEAN
  BY DEF MinBoot
<1>4. /\ Committed => Committed'
      /\ Handed => Handed'
  BY <1>2 DEF Committed, Handed, NameIs, Sent
<1>5. CASE ind # ExecuteMin \/ button \/ ~magic
  <2>1. at' = "main" /\ todo' = <<>> /\ goto' = goto
    BY <1>1, <1>5 DEF MinBoot, Go
  <2>2. BootTypes' /\ Resting'
    BY <1>2, <1>3, <2>1 DEF BootTypes, Places, Resting
  <2>3. IndInv'
    BY <1>2, <1>4, <2>1 DEF IndInv
  <2>4. LeaveInv'
    BY <1>1, <1>2, <2>1 DEF LeaveInv
  <2>5. QED
    BY <2>2, <2>3, <2>4 DEF Progress
<1>6. CASE ~(ind # ExecuteMin \/ button \/ ~magic)
  <2>1. todo' = <<W("ind", SkipMin)>> /\ goto' = "load" /\ at' = at
    BY <1>6 DEF MinBoot, ClearIndicator, WriteThen
  <2>2. Clearing'
    BY <1>1, <1>2, <1>6, <2>1 DEF Clearing
  <2>3. leaving = FALSE
    BY <1>1, <1>6 DEF LeaveInv, BootTypes, ExecuteMin, FromMin, SkipMin
  <2>4. BootTypes'
    BY <1>2, <1>3, <2>1 DEF BootTypes, Places
  <2>5. IndInv'
    BY <1>1, <1>2, <1>4, <2>1 DEF IndInv
  <2>6. QED
    BY <1>2, <2>2, <2>3, <2>4, <2>5 DEF Progress, LeaveInv
<1>7. QED
  BY <1>5, <1>6

\* The setup of the full image.
LEMMA MainStep == BootInv /\ (MainSetup \/ MainSwitch \/ MainLaunch) => BootInv'
<1> SUFFICES ASSUME BootInv, MainSetup \/ MainSwitch \/ MainLaunch PROVE BootInv'
  OBVIOUS
<1> USE DEF BootInv, eeprom, user
<1>1. Resting /\ todo = <<>>
  BY AtRest DEF MainSetup, MainSwitch, MainLaunch, Idle
<1>2. CASE MainSetup
  <2>1. /\ UNCHANGED <<ind, name, magic, settings, record, pressed, button, auto,
                       asked, leaving, losses>>
        /\ at = "main"
    BY <1>2 DEF MainSetup, Idle
  <2>2. CASE magic
    BY <1>1, <1>2, <2>1, <2>2
    DEF MainSetup, Go, BootTypes, Places, Progress, Resting, IndInv, LeaveInv,
        Calm, Committed, Handed, NameIs, Sent
  <2>3. CASE ~magic
    <3>1. todo' = Defaults /\ goto' = "settled" /\ at' = at
      BY <1>2, <2>3 DEF MainSetup, WriteThen
    <3>2. Defaulting'
      BY <2>1, <3>1 DEF Defaulting, Defaults, MagicWrite
    <3>3. leaving = FALSE
      BY <2>3 DEF LeaveInv, BootTypes
    <3>4. BootTypes' /\ IndInv'
      BY <2>1, <3>1 DEF BootTypes, Places, IndInv, Calm, Committed, Handed, NameIs, Sent
    <3>5. QED
      BY <2>1, <3>2, <3>3, <3>4 DEF Progress, LeaveInv
  <2>4. QED
    BY <2>2, <2>3
<1>3. CASE MainSwitch
  <2>1. /\ UNCHANGED <<ind, name, magic, settings, record, button, auto,
                       leaving, losses>>
        /\ at = "settled" /\ pressed' \in BOOLEAN
    BY <1>3 DEF MainSwitch, Idle, BootTypes
  <2>2. CASE ind = SkipMin /\ ~(button \/ auto = "none")
    <3>1. Execute(auto) /\ auto \in Programs
      BY <1>3, <2>2 DEF MainSwitch, BootTypes, SkipMin, LaunchFull
    <3>2. Calm
      BY <2>2 DEF Calm, SkipMin, ExecuteMin, LaunchFull
    <3>3. leaving => auto \notin Crts \cup Vms
      BY <1>1, <2>1, <2>2 DEF LeaveInv, SkipMin, FromMin
    <3>4. QED
      BY <1>1, <2>1, <3>1, <3>2, <3>3, ExecuteStep
  <2>3. CASE ind = SkipMin /\ (button \/ auto = "none")
    <3>1. Go("menu") /\ UNCHANGED asked
      BY <1>3, <2>3 DEF MainSwitch, SkipMin, LaunchFull
    <3>2. QED
      BY <1>1, <2>1, <2>3, <3>1
      DEF Go, BootTypes, Places, Progress, Resting, IndInv, LeaveInv, Calm,
          SkipMin, ExecuteMin, LaunchFull
  <2>4. CASE ind # SkipMin
    <3>1. /\ todo' = <<W("ind", SkipMin)>> /\ at' = at /\ UNCHANGED asked
          /\ goto' = IF ind = LaunchFull THEN "launch" ELSE "menu"
      BY <1>3, <2>4 DEF MainSwitch, WriteThen
    <3>2. Clearing'
      BY <2>1, <3>1 DEF Clearing
    <3>3. BootTypes' /\ IndInv'
      BY <2>1, <3>1 DEF BootTypes, Places, IndInv, Calm, Committed, Handed, NameIs, Sent
    <3>4. LeaveInv'
      BY <1>1, <2>1, <2>4, <3>1 DEF LeaveInv, FromMin, SkipMin, LaunchFull
    <3>5. QED
      BY <3>2, <3>3, <3>4 DEF Progress
  <2>5. QED
    BY <2>2, <2>3, <2>4
<1>4. CASE MainLaunch
  <2>1. /\ UNCHANGED <<ind, name, magic, settings, record, button, auto,
                       leaving, losses>>
        /\ at = "launch" /\ pressed' = button /\ Handed /\ Calm /\ ~leaving
    BY <1>1, <1>4 DEF MainLaunch, Idle, Resting, IndInv, LeaveInv
  <2>2. PICK n \in Programs \cup {"none"} : Execute(n)
    BY <1>4, <2>1 DEF MainLaunch, ReadName, Handed, Sent
  <2>3. QED
    BY <1>1, <2>1, <2>2, ExecuteStep DEF BootTypes
<1>5. QED
  BY <1>2, <1>3, <1>4

\* The menu: its loop, a launch, a setting, the defaults.
LEMMA MenuStep ==
  ASSUME BootInv,
         \/ MenuLoop \/ MenuSetting \/ RestoreDefaults
         \/ \E n \in Programs : MenuLaunch(n)
  PROVE  BootInv'
<1> USE DEF BootInv, eeprom, user
<1>1. Resting /\ at = "menu" /\ todo = <<>> /\ Calm
  BY AtRest DEF MenuLoop, MenuSetting, RestoreDefaults, MenuLaunch, Idle, IndInv
<1>2. CASE MenuLoop
  BY <1>1, <1>2
  DEF MenuLoop, where, BootTypes, Progress, Resting, IndInv, LeaveInv, Calm
<1>3. CASE MenuSetting
  BY <1>1, <1>3
  DEF MenuSetting, where, BootTypes, Progress, Resting, IndInv, LeaveInv, Calm
<1>4. CASE RestoreDefaults
  <2>1. /\ todo' = Defaults /\ goto' = "reset" /\ at' = at
        /\ UNCHANGED <<ind, name, magic, settings, record, pressed, button, auto,
                       asked, losses>>
    BY <1>4 DEF RestoreDefaults, WriteThen
  <2>2. leaving' \in BOOLEAN /\ LeaveInv'
    BY <1>4 DEF RestoreDefaults, LeaveInv
  <2>3. BootTypes'
    BY <2>1, <2>2 DEF BootTypes, Places
  <2>4. Defaulting'
    BY <1>1, <2>1 DEF Defaulting, Defaults, MagicWrite
  <2>5. IndInv'
    BY <1>1, <2>1 DEF IndInv, Calm
  <2>6. QED
    BY <2>2, <2>3, <2>4, <2>5 DEF Progress
<1>5. ASSUME NEW n \in Programs, MenuLaunch(n)
      PROVE  BootInv'
  <2>1. /\ Execute(n) /\ ~leaving /\ pressed' \in BOOLEAN
        /\ UNCHANGED <<eeprom, record, user, leaving, losses>>
    BY <1>5 DEF MenuLaunch, BootTypes
  <2>2. QED
    BY <1>1, <2>1, ExecuteStep
<1>6. QED
  BY <1>2, <1>3, <1>4, <1>5

\* The minimal image tries what was asked for, and leaves it.
LEMMA MinStep ==
  ASSUME BootInv, MinLoad \/ MinButton \/ MinReset
  PROVE  BootInv'
<1> USE DEF BootInv, eeprom, user
<1>1. /\ Resting /\ todo = <<>> /\ at \in {"load", "crt", "vm"}
      /\ Calm /\ magic /\ leaving = FALSE
  BY AtRest DEF MinLoad, MinButton, MinReset, Idle, IndInv, LeaveInv, BootTypes
<1>2. /\ UNCHANGED <<ind, name, magic, settings, record, button, auto, losses>>
      /\ pressed' \in BOOLEAN /\ asked' \in {asked, "none"}
      /\ leaving' \in BOOLEAN
      /\ leaving' => MinButton
  BY <1>1 DEF MinLoad, MinButton, MinReset, BootTypes
<1>3. ASSUME WriteThen(ReturnWrites, "main") \/ WriteThen(ReturnWrites, "reset"),
             at \in {"load", "crt"}, leaving' => at = "crt"
      PROVE  BootInv'
  <2>1. /\ todo' = <<W("ind", FromMin)>> /\ goto' \in {"main", "reset"}
        /\ at' = at
    BY <1>3 DEF WriteThen, ReturnWrites
  <2>2. Returning'
    BY <1>3, <2>1 DEF Returning, ToMain
  <2>3. BootTypes'
    BY <1>2, <2>1 DEF BootTypes, Places
  <2>4. IndInv' /\ LeaveInv'
    BY <1>1, <1>2, <1>3, <2>1 DEF IndInv, LeaveInv, Calm
  <2>5. QED
    BY <2>2, <2>3, <2>4 DEF Progress
<1>4. ASSUME Go("vm") \/ Go("reset") \/ Go("crt"),
             at = "load" \/ at = "vm", ind = SkipMin,
             leaving' => at = "vm" /\ Go("reset") /\ auto \notin Crts \cup Vms
      PROVE  BootInv'
  <2>1. at' \in {"vm", "reset", "crt"} /\ todo' = <<>> /\ goto' = goto
    BY <1>1, <1>4 DEF Go
  <2>2. BootTypes'
    BY <1>2, <2>1 DEF BootTypes, Places
  <2>3. Resting'
    BY <1>2, <1>4, <2>1 DEF Resting
  <2>4. IndInv' /\ LeaveInv'
    BY <1>1, <1>2, <1>4, <2>1
    DEF IndInv, LeaveInv, Calm, Go, SkipMin, ExecuteMin, LaunchFull
  <2>5. QED
    BY <2>2, <2>3, <2>4 DEF Progress
<1>5. CASE MinLoad
  <2>1. at = "load" /\ ind = SkipMin /\ ~leaving'
    BY <1>1, <1>5 DEF MinLoad, Idle, Resting
  <2>2. \/ Go("vm") \/ Go("reset") \/ Go("crt")
        \/ WriteThen(ReturnWrites, "main") \/ WriteThen(ReturnWrites, "reset")
    BY <1>5 DEF MinLoad, ToMain
  <2>3. QED
    BY <1>3, <1>4, <2>1, <2>2
<1>6. CASE MinButton
  <2>1. CASE at = "vm" /\ Go("reset")
    BY <1>1, <1>4, <1>6, <2>1 DEF MinButton, Resting
  <2>2. CASE at = "crt"
    BY <1>3, <1>6, <2>2 DEF MinButton, Idle, ToMain
  <2>3. QED
    BY <1>6, <2>1, <2>2 DEF MinButton, Idle
<1>7. CASE MinReset
  BY <1>1, <1>3, <1>7 DEF MinReset, Idle, ToMain
<1>8. QED
  BY <1>5, <1>6, <1>7

\* A terminal asks for a program while a big CRT runs.
LEMMA LaunchFileStep ==
  ASSUME BootInv, NEW n \in Programs, LaunchFile(n)
  PROVE  BootInv'
<1> USE DEF BootInv, eeprom, user
<1>1. /\ Resting /\ todo = <<>> /\ at = "crt" /\ Calm /\ magic
      /\ leaving = FALSE
  BY AtRest DEF LaunchFile, Idle, IndInv, LeaveInv, BootTypes
<1>2. /\ UNCHANGED <<ind, name, magic, settings, record, pressed, button, auto,
                     leaving, losses>>
      /\ asked' = n /\ at' = at /\ goto' \in ToMain
      /\ todo' = LaunchWrites(n)
  BY DEF LaunchFile, WriteThen
<1>3. Sending(n, W("ind", LaunchFull))'
  BY <1>2 DEF Sending, LaunchWrites
<1>4. Handing'
  BY <1>1, <1>2, <1>3 DEF Handing
<1>5. BootTypes' /\ IndInv' /\ LeaveInv'
  BY <1>1, <1>2 DEF BootTypes, Places, ToMain, IndInv, LeaveInv, Calm
<1>6. QED
  BY <1>4, <1>5 DEF Progress

\* The button is pressed and let go.
LEMMA ButtonStep == BootInv /\ (Press \/ LetGo) => BootInv'
<1> SUFFICES ASSUME BootInv, Press \/ LetGo PROVE BootInv'
  OBVIOUS
<1>1. /\ UNCHANGED <<ind, name, magic, settings, record, at, todo, goto, auto,
                     asked, leaving, losses>>
      /\ button' \in BOOLEAN /\ pressed' \in BOOLEAN
  BY DEF Press, LetGo, eeprom, where, BootInv, BootTypes
<1>2. BootTypes'
  BY <1>1 DEF BootInv, BootTypes
<1>3. Progress'
  BY <1>1 DEF BootInv, Progress, Resting, Committing, RecordWrites, Naming,
     Sending, Handing, Clearing, Returning, Defaulting, Calm, Committed, Handed,
     NameIs, Sent
<1>4. IndInv' /\ LeaveInv'
  BY <1>1 DEF BootInv, IndInv, LeaveInv, Calm, Committed, Handed, NameIs, Sent
<1>5. QED
  BY <1>2, <1>3, <1>4 DEF BootInv

\* Power fails: what was to be written is not, what was written stays.
LEMMA PowerStep == BootInv /\ PowerLoss => BootInv'
<1> SUFFICES ASSUME BootInv, PowerLoss PROVE BootInv'
  OBVIOUS
<1>1. /\ UNCHANGED <<ind, name, magic, settings, record, button, auto, asked>>
      /\ at' = "reset" /\ todo' = <<>> /\ goto' = "reset"
      /\ losses < MaxLosses /\ losses' = losses + 1
  BY DEF PowerLoss, eeprom, user
<1>2. ~leaving' /\ pressed' \in BOOLEAN /\ leaving' \in BOOLEAN
  BY DEF PowerLoss
<1>3. losses' \in 0..MaxLosses
  BY <1>1, DualBootAssumption DEF BootInv, BootTypes
<1>4. BootTypes'
  BY <1>1, <1>2, <1>3 DEF BootInv, BootTypes, Places
<1>5. (Committed => Committed') /\ (Handed => Handed')
  BY <1>1 DEF Committed, Handed, NameIs, Sent
<1>6. IndInv'
  BY <1>1, <1>5 DEF BootInv, IndInv
<1>7. Resting' /\ LeaveInv'
  BY <1>1, <1>2 DEF Resting, LeaveInv
<1>8. QED
  BY <1>4, <1>6, <1>7 DEF BootInv, Progress

LEMMA BootNext == BootInv /\ [Next]_vars => BootInv'
<1> SUFFICES ASSUME BootInv, [Next]_vars PROVE BootInv'
  OBVIOUS
<1>1. CASE UNCHANGED vars
  <2>1. UNCHANGED <<ind, name, magic, settings, record, at, todo, goto, auto,
                    button, pressed, asked, leaving, losses>>
    BY <1>1 DEF vars, eeprom, where, user
  <2>2. BootTypes'
    BY <2>1 DEF BootInv, BootTypes
  <2>3. Progress'
    BY <2>1 DEF BootInv, Progress, Resting, Committing, RecordWrites, Naming,
       Sending, Handing, Clearing, Returning, Defaulting, Calm, Committed, Handed,
     NameIs, Sent
  <2>4. IndInv' /\ LeaveInv'
    BY <2>1 DEF BootInv, IndInv, LeaveInv, Calm, Committed, Handed, NameIs, Sent
  <2>5. QED
    BY <2>2, <2>3, <2>4 DEF BootInv
<1>2. CASE System
  BY <1>2, WriteStep, MainStep, MenuStep, MinBootStep, MinStep DEF System
<1>3. CASE User
  BY <1>3, MenuStep, MinStep, ButtonStep, LaunchFileStep DEF User
<1>4. CASE PowerLoss
  BY <1>4, PowerStep
<1>5. QED
  BY <1>1, <1>2, <1>3, <1>4 DEF Next

\* At first nothing is asked for.
LEMMA BootInit == Init => BootInv
<1> SUFFICES ASSUME Init PROVE BootInv
  OBVIOUS
<1>1. BootTypes
  <2>1. /\ magic \in BOOLEAN /\ button \in BOOLEAN /\ pressed \in BOOLEAN
        /\ leaving \in BOOLEAN
    BY DEF Init
  <2>2. /\ ind \in {SkipMin, ExecuteMin, FromMin, LaunchFull, Blank}
        /\ settings \in {"blank", "default", "user", "mixed"}
    BY DEF Init
  <2>3. /\ name \in [head : Names, tail : Names]
        /\ record \in Vms \cup {"none"}
        /\ at \in Places /\ goto \in Places
        /\ auto \in Programs \cup {"none"} /\ asked \in Programs \cup {"none"}
    BY DEF Init, Names, Places
  <2>4. losses \in 0..MaxLosses
    BY DualBootAssumption DEF Init
  <2>5. QED
    BY <2>1, <2>2, <2>3, <2>4 DEF BootTypes
<1>2. Resting /\ IndInv /\ LeaveInv
  BY DEF Init, Resting, IndInv, LeaveInv, Blank, SkipMin, ExecuteMin, LaunchFull
<1>3. QED
  BY <1>1, <1>2 DEF BootInv, Progress
--------------------------------------------------------------------------------
(* The theorems.                                                              *)

\* What is still to be written, what is permanent and what was asked for belong
\* together, wherever power fails.
THEOREM BootInvariant == Spec => []BootInv
BY BootInit, BootNext, PTL DEF Spec

\* Every cell of EEPROM, place and pending write has its type.
THEOREM BootTypeOK == Spec => []TypeOK
<1> DEFINE Cells == {"ind", "head", "tail", "magic", "settings", "record"}
           Typed == \A i \in DOMAIN todo : todo[i].cell \in Cells
<1>1. BootInv => Typed
  <2> SUFFICES ASSUME BootInv PROVE Typed
    OBVIOUS
  <2>1. CASE Resting
    BY <2>1 DEF Resting
  <2>2. ASSUME NEW n, NEW e, Naming(n, e) \/ Sending(n, e), e.cell = "ind"
        PROVE  Typed
    BY <2>2 DEF Naming, Sending, W
  <2>3. ASSUME NEW n, RecordWrites(n) PROVE Typed
    BY <2>3 DEF RecordWrites, W
  <2>4. W("ind", ExecuteMin).cell = "ind" /\ W("ind", LaunchFull).cell = "ind"
    BY DEF W
  <2>5. CASE Committing \/ Handing
    BY <2>2, <2>3, <2>4, <2>5 DEF Committing, Handing
  <2>6. CASE Clearing \/ Returning
    BY <2>6 DEF Clearing, Returning, W
  <2>7. CASE Defaulting
    BY <2>7 DEF Defaulting, MagicWrite, W
  <2>8. QED
    BY <2>1, <2>5, <2>6, <2>7 DEF BootInv, Progress
<1>2. BootInv => TypeOK
  <2> SUFFICES ASSUME BootInv PROVE TypeOK
    OBVIOUS
  <2>1. /\ {magic, button, pressed, leaving} \subseteq BOOLEAN
        /\ {auto, asked} \subseteq Programs \cup {"none"}
    BY Zenon DEF BootInv, BootTypes
  <2>2. Typed
    BY <1>1
  <2>3. QED
    BY <2>1, <2>2 DEF BootInv, BootTypes, TypeOK
<1>3. QED
  BY BootInvariant, <1>2, PTL

\* A launch is tried only if it was asked for and not tried since, and what is
\* tried is what was asked for, wherever power failed; a name that does not fit
\* its field names nothing to the minimal image, and of one that it hands on the
\* full image reads the beginning.
THEOREM BootLaunchesAsAsked == Spec => []LaunchesAsAsked
<1>1. BootInv => LaunchesAsAsked
  <2> SUFFICES ASSUME BootInv PROVE LaunchesAsAsked
    OBVIOUS
  <2>1. ASSUME Idle("load")
        PROVE  asked # "none" /\ Named = IF asked \in LongNames THEN "none" ELSE asked
    <3>1. Committed
      BY <2>1, AtRest DEF Idle, Resting
    <3>2. asked # "none"
      BY <3>1, DualBootAssumption DEF Committed
    <3>3. CASE asked \in Vms
      BY <3>1, <3>3, DualBootAssumption DEF Committed, NameIs, Named
    <3>4. CASE asked \notin Vms
      <4>1. name.head = asked /\ name.tail = Fitting(asked) /\ asked # "@VM1"
        BY <3>1, <3>4, DualBootAssumption DEF Committed, NameIs
      <4>2. QED
        BY <3>2, <4>1 DEF Named, Fitting
    <3>5. QED
      BY <3>2, <3>3, <3>4
  <2>2. ASSUME Idle("launch")
        PROVE  name.head = asked /\ (asked \notin LongNames => name.tail = asked)
    BY <2>2, AtRest DEF Idle, Resting, Handed, Sent
  <2>3. QED
    BY <2>1, <2>2 DEF LaunchesAsAsked
<1>2. QED
  BY BootInvariant, <1>1, PTL

\* The button ends a program in the menu, not in a program started again.
THEOREM BootButtonEndsInMenu == Spec => []ButtonEndsInMenu
<1>1. BootInv => ButtonEndsInMenu
  BY DEF BootInv, LeaveInv, ButtonEndsInMenu, Idle
<1>2. QED
  BY BootInvariant, <1>1, PTL

\* The magic number, which makes the next boot take the settings for valid, is
\* written only over complete ones.
THEOREM BootSettingsWhole == Spec => SettingsWhole
<1>1. BootInv /\ [Next]_vars => [~magic /\ magic' => settings = "default"]_vars
  <2> SUFFICES ASSUME BootInv, Next, ~magic, magic'
               PROVE  settings = "default"
    OBVIOUS
  <2>1. magic' # magic
    BY DEF BootInv, BootTypes
  <2>2. CASE Write
    BY <2>2, WriteStep
  <2>3. CASE ~Write
    BY <2>1, <2>3 DEF Next, System, User, MainSetup, MainSwitch, MainLaunch,
       MenuLoop, MenuSetting, MenuLaunch, RestoreDefaults, MinBoot, MinLoad,
       MinButton, MinReset, LaunchFile, Press, LetGo, PowerLoss, eeprom
  <2>4. QED
    BY <2>2, <2>3
<1>2. QED
  BY BootInvariant, <1>1, PTL DEF Spec, SettingsWhole
================================================================================
