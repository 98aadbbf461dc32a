------------------------ MODULE PortalScreensProofs -------------------------
(***************************************************************************)
(* Proofs about the portal's screens as MCPortal composes them, for every  *)
(* bound. Of the drawer: what is typed for a serial is kept, is stored for *)
(* no other serial, and autosaves never make each other fail. Of the       *)
(* reviews: a serial is submitted again only after a review, and a queued  *)
(* verdict goes to the batch its reviewer saw. Of the administration: a    *)
(* deletion is not forgotten, and edits are made over what was shown. Of a *)
(* report's screen: what it offers is accepted, and made on the status it  *)
(* was offered in. Of the list of serials: a deletion is not forgotten. Of *)
(* the last four: a row that is shown as not yet synced has its request.   *)
(***************************************************************************)
EXTENDS PortalReportProofs

----------------------------------------------------------------------------
(* The drawer: types.                                                      *)

Serial == Drawer!Serial
Content == [DrawerField -> Drawer!Filling]
Rows == [Serial -> [version : Nat, content : Content]]
SaveStep == {"wait", "send", "local", "cache", "failed", "saved", "refreshed"}
Save == [serial : Serial, content : Content, explicit : BOOLEAN, step : SaveStep,
         base : Nat, answer : Rows, here : BOOLEAN]
Refresh == [step : {"due", "pull", "put", "read", "apply"}, waits : Nat, rows : Rows]
Typing == [Serial -> [DrawerField -> {"nothing"} \cup Drawer!Filling]]

(* Content c has nothing in the fields that nobody typed in for serial s.  *)
MeantFor(T, c, s) == \A f \in DrawerField : T[s][f] = "nothing" => c[f] = "blank"

RowsSound(T, R) == R \in Rows /\ \A s \in Serial : MeantFor(T, R[s].content, s)

(* The calls under way, with their answers; one that has begun had no      *)
(* autosave before it.                                                     *)
CallsSound(T, C) ==
    /\ C \in Seq(Save)
    /\ \A k \in DOMAIN C :
          /\ MeantFor(T, C[k].content, C[k].serial)
          /\ RowsSound(T, C[k].answer)
          /\ C[k].step # "wait" => \A j \in 1 .. k - 1 : C[j].explicit

RefreshesSound(T, R) == R \in Seq(Refresh) /\ \A k \in DOMAIN R : RowsSound(T, R[k].rows)

DeviceSound ==
    /\ RowsSound(typed, server) /\ RowsSound(typed, cache)
    /\ outbox \in [Serial -> {{}} \cup {{c} : c \in Content}]
    /\ \A s \in Serial : \A c \in outbox[s] : MeantFor(typed, c, s)
    /\ connected \in BOOLEAN

ScreenSound ==
    /\ shown \in [Serial -> Content] /\ \A s \in Serial : MeantFor(typed, shown[s], s)
    /\ editable \in BOOLEAN

FormSound ==
    /\ drawer \in [serial : Serial \cup {Drawer!NoSerial}, seed : Content, unrefreshed : BOOLEAN]
    /\ form \in [content : Content, saved : Content, pending : BOOLEAN, timer : BOOLEAN]
    /\ drawer.serial \in Serial => /\ MeantFor(typed, drawer.seed, drawer.serial)
                                   /\ MeantFor(typed, form.content, drawer.serial)

DrawerSound ==
    /\ typed \in Typing
    /\ DeviceSound /\ ScreenSound /\ FormSound
    /\ CallsSound(typed, calls) /\ RefreshesSound(typed, refreshes)

(* The draft of serial s is c: as typed, in every call for s, in the open  *)
(* form, and the latest stored unless the form is pending or a call is     *)
(* under way.                                                              *)
Settled == {"cache", "saved", "refreshed"}
Carries(C, s, c, l) ==
    \A k \in DOMAIN C : C[k].serial = s => C[k].content = c /\ (C[k].step \in Settled => l = c)
Names(C, s) == \E k \in DOMAIN C : C[k].serial = s
OnlyFrom(C, s) == \A k \in DOMAIN C : C[k].serial = s /\ C[k].here
AsTyped(T, c, s) == \A f \in DrawerField : T[s][f] # "nothing" => c[f] = T[s][f]

DraftIs(s, c) ==
    /\ AsTyped(typed, c, s)
    /\ Carries(calls, s, c, Drawer!Latest(s))
    /\ drawer.serial = s => /\ form.content = c /\ OnlyFrom(calls, s)
                            /\ calls = << >> => form.saved = Drawer!Latest(s)
    /\ Drawer!Latest(s) = c \/ (drawer.serial = s /\ form.pending) \/ Names(calls, s)

DraftsFollowed == \A s \in Serial \ excused : \E c \in Content : DraftIs(s, c)

DrawerInvariant == DrawerSound /\ DraftsFollowed

----------------------------------------------------------------------------
(* The drawer: sequences of calls and of refreshes.                        *)

LEMMA OneRemoved ==
    ASSUME NEW S, NEW q \in Seq(S), NEW k \in DOMAIN q
    PROVE  LET r == Drawer!RemoveAt(q, k) IN
           /\ r \in Seq(S) /\ Len(r) = Len(q) - 1
           /\ \A j \in DOMAIN r : r[j] = IF j < k THEN q[j] ELSE q[j + 1]
<1>1. q \in [1 .. Len(q) -> S] /\ Len(q) \in Nat /\ k \in 1 .. Len(q)
  BY LenProperties
<1> DEFINE before == SubSeq(q, 1, k - 1)
           after == SubSeq(q, k + 1, Len(q))
           r == Drawer!RemoveAt(q, k)
<1>2. /\ before \in Seq(S) /\ Len(before) = k - 1
      /\ \A j \in 1 .. k - 1 : before[j] = q[j]
  <2>1. \A i \in 1 .. k - 1 : q[i] \in S
    BY <1>1
  <2>2. /\ before \in Seq(S) /\ Len(before) = (IF 1 <= k - 1 THEN (k - 1) - 1 + 1 ELSE 0)
        /\ \A j \in 1 .. (k - 1) - 1 + 1 : before[j] = q[1 + j - 1]
    BY <1>1, <2>1, SubSeqProperties
  <2> HIDE DEF before
  <2>3. (k - 1) - 1 + 1 = k - 1 /\ \A j \in 1 .. k - 1 : 1 + j - 1 = j
    BY <1>1
  <2> QED BY <1>1, <2>2, <2>3
<1>3. /\ after \in Seq(S) /\ Len(after) = Len(q) - k
      /\ \A j \in 1 .. Len(q) - k : after[j] = q[k + j]
  <2>1. \A i \in k + 1 .. Len(q) : q[i] \in S
    BY <1>1
  <2>2. /\ after \in Seq(S)
        /\ Len(after) = (IF k + 1 <= Len(q) THEN Len(q) - (k + 1) + 1 ELSE 0)
        /\ \A j \in 1 .. Len(q) - (k + 1) + 1 : after[j] = q[(k + 1) + j - 1]
    BY <1>1, <2>1, SubSeqProperties
  <2> HIDE DEF after
  <2>3. /\ Len(q) - (k + 1) + 1 = Len(q) - k
        /\ (IF k + 1 <= Len(q) THEN Len(q) - (k + 1) + 1 ELSE 0) = Len(q) - k
    BY <1>1
  <2>4. \A j \in 1 .. Len(q) - k : (k + 1) + j - 1 = k + j
    BY <1>1
  <2> QED BY <2>2, <2>3, <2>4
<1>4. r = before \o after
  BY DEF Drawer!RemoveAt
<1> HIDE DEF before, after, r
<1>5. /\ r \in Seq(S) /\ Len(r) = Len(q) - 1
      /\ \A j \in 1 .. Len(q) - 1 :
            r[j] = IF j <= k - 1 THEN before[j] ELSE after[j - (k - 1)]
  <2>1. Len(before) + Len(after) = Len(q) - 1
    BY <1>1, <1>2, <1>3
  <2>2. /\ r \in Seq(S) /\ Len(r) = Len(before) + Len(after)
        /\ \A j \in 1 .. Len(before) + Len(after) :
              r[j] = IF j <= Len(before) THEN before[j] ELSE after[j - Len(before)]
    BY <1>2, <1>3, <1>4, ConcatProperties
  <2> QED BY <1>2, <2>1, <2>2
<1>6. ASSUME NEW j \in 1 .. Len(q) - 1
      PROVE  r[j] = IF j < k THEN q[j] ELSE q[j + 1]
  <2>1. CASE j < k
    <3>1. j \in 1 .. k - 1 /\ j <= k - 1
      BY <1>1, <2>1
    <3> QED BY <1>2, <1>5, <2>1, <3>1
  <2>2. CASE ~(j < k)
    <3>1. j - (k - 1) \in 1 .. Len(q) - k /\ k + (j - (k - 1)) = j + 1 /\ ~(j <= k - 1)
      BY <1>1, <2>2
    <3>2. after[j - (k - 1)] = q[j + 1]
      BY <1>3, <3>1
    <3> QED BY <1>5, <2>2, <3>1, <3>2
  <2> QED BY <2>1, <2>2
<1>7. DOMAIN r = 1 .. Len(q) - 1
  BY <1>5, LenProperties
<1> QED BY <1>5, <1>6, <1>7 DEF r

(* What is removed is one element, and no other.                           *)
LEMMA OthersRemain ==
    ASSUME NEW S, NEW q \in Seq(S), NEW k \in DOMAIN q
    PROVE  LET r == Drawer!RemoveAt(q, k) IN
           /\ r \in Seq(S)
           /\ \A j \in DOMAIN r : \E i \in DOMAIN q : r[j] = q[i]
           /\ \A i \in DOMAIN q : i # k => \E j \in DOMAIN r : r[j] = q[i]
<1> DEFINE r == Drawer!RemoveAt(q, k)
<1>1. /\ r \in Seq(S) /\ Len(r) = Len(q) - 1
      /\ \A j \in DOMAIN r : r[j] = IF j < k THEN q[j] ELSE q[j + 1]
  BY OneRemoved
<1> HIDE DEF r
<1>2. Len(q) \in Nat /\ DOMAIN q = 1 .. Len(q) /\ DOMAIN r = 1 .. Len(q) - 1
  BY <1>1
<1>3. ASSUME NEW j \in DOMAIN r
      PROVE  \E i \in DOMAIN q : r[j] = q[i]
  <2>1. CASE j < k
    BY <1>1, <1>2, <2>1
  <2>2. CASE ~(j < k)
    <3>1. j + 1 \in DOMAIN q
      BY <1>2
    <3> QED BY <1>1, <2>2, <3>1
  <2> QED BY <2>1, <2>2
<1>4. ASSUME NEW i \in DOMAIN q, i # k
      PROVE  \E j \in DOMAIN r : r[j] = q[i]
  <2>1. CASE i < k
    <3>1. i \in DOMAIN r
      BY <1>2, <2>1
    <3> QED BY <1>1, <2>1, <3>1
  <2>2. CASE i > k
    <3>1. i - 1 \in DOMAIN r /\ ~(i - 1 < k) /\ (i - 1) + 1 = i
      BY <1>2, <2>2
    <3> QED BY <1>1, <3>1
  <2> QED BY <1>2, <1>4, <2>1, <2>2
<1> QED BY <1>1, <1>3, <1>4 DEF r

LEMMA OneAppended ==
    ASSUME NEW S, NEW q \in Seq(S), NEW e \in S
    PROVE  LET r == Append(q, e) IN
           /\ r \in Seq(S) /\ Len(r) = Len(q) + 1 /\ r # << >>
           /\ DOMAIN q \subseteq DOMAIN r /\ Len(r) \in DOMAIN r
           /\ \A j \in DOMAIN q : r[j] = q[j]
           /\ \A j \in DOMAIN r : j \in DOMAIN q \/ j = Len(r)
           /\ r[Len(r)] = e
<1>1. Len(q) \in Nat /\ DOMAIN q = 1 .. Len(q)
  OBVIOUS
<1> QED BY <1>1

LEMMA CallAppendedIsSound ==
    ASSUME NEW T, NEW C, CallsSound(T, C), NEW c \in Save, c.step = "wait",
           MeantFor(T, c.content, c.serial), RowsSound(T, c.answer)
    PROVE  CallsSound(T, Append(C, c))
<1> DEFINE D == Append(C, c)
<1>1. C \in Seq(Save) /\ DOMAIN C = 1 .. Len(C) /\ Len(C) \in Nat
  BY DEF CallsSound
<1>2. /\ D \in Seq(Save) /\ \A j \in DOMAIN C : D[j] = C[j]
      /\ \A j \in DOMAIN D : j \in DOMAIN C \/ D[j] = c
  BY <1>1, OneAppended
<1> HIDE DEF D
<1>3. ASSUME NEW k \in DOMAIN D
      PROVE  /\ MeantFor(T, D[k].content, D[k].serial)
             /\ RowsSound(T, D[k].answer)
             /\ D[k].step # "wait" => \A j \in 1 .. k - 1 : D[j].explicit
  <2>1. CASE k \in DOMAIN C
    <3>1. D[k] = C[k] /\ \A j \in 1 .. k - 1 : D[j] = C[j]
      BY <1>1, <1>2, <2>1
    <3> QED BY <2>1, <3>1 DEF CallsSound
  <2>2. CASE D[k] = c
    BY <2>2
  <2> QED BY <1>2, <2>1, <2>2
<1> QED BY <1>2, <1>3 DEF CallsSound, D

(* A call that takes a step keeps what it carries, and does not begin      *)
(* before its turn.                                                        *)
LEMMA CallMovedIsSound ==
    ASSUME NEW T, NEW C, CallsSound(T, C), NEW k \in DOMAIN C, NEW R \in Save,
           R.serial = C[k].serial, R.content = C[k].content, R.explicit = C[k].explicit,
           RowsSound(T, R.answer),
           C[k].step # "wait" \/ \A j \in 1 .. k - 1 : C[j].explicit
    PROVE  CallsSound(T, [C EXCEPT ![k] = R])
<1> DEFINE D == [C EXCEPT ![k] = R]
<1>1. C \in Seq(Save) /\ DOMAIN C = 1 .. Len(C) /\ Len(C) \in Nat
  BY DEF CallsSound
<1>2. /\ D \in Seq(Save) /\ DOMAIN D = DOMAIN C /\ D[k] = R
      /\ \A j \in DOMAIN C : j # k => D[j] = C[j]
  BY <1>1
<1> HIDE DEF D
<1>3. \A j \in DOMAIN C : D[j].explicit = C[j].explicit
  BY <1>2
<1>4. ASSUME NEW i \in DOMAIN C
      PROVE  /\ MeantFor(T, D[i].content, D[i].serial)
             /\ RowsSound(T, D[i].answer)
             /\ D[i].step # "wait" => \A j \in 1 .. i - 1 : D[j].explicit
  <2>1. 1 .. i - 1 \subseteq DOMAIN C
    BY <1>1
  <2>2. CASE i = k
    BY <1>2, <1>3, <2>1, <2>2 DEF CallsSound
  <2>3. CASE i # k
    BY <1>2, <1>3, <2>1, <2>3 DEF CallsSound
  <2> QED BY <2>2, <2>3
<1> QED BY <1>2, <1>4 DEF CallsSound, D

LEMMA CallRemovedIsSound ==
    ASSUME NEW T, NEW C, CallsSound(T, C), NEW k \in DOMAIN C
    PROVE  CallsSound(T, Drawer!RemoveAt(C, k))
<1> DEFINE D == Drawer!RemoveAt(C, k)
<1>1. C \in Seq(Save) /\ DOMAIN C = 1 .. Len(C) /\ Len(C) \in Nat
  BY DEF CallsSound
<1>2. /\ D \in Seq(Save) /\ Len(D) = Len(C) - 1
      /\ \A j \in DOMAIN D : D[j] = IF j < k THEN C[j] ELSE C[j + 1]
  BY <1>1, OneRemoved
<1> HIDE DEF D
<1>3. DOMAIN D = 1 .. Len(C) - 1
  BY <1>1, <1>2
<1>4. ASSUME NEW i \in DOMAIN D
      PROVE  /\ MeantFor(T, D[i].content, D[i].serial)
             /\ RowsSound(T, D[i].answer)
             /\ D[i].step # "wait" => \A j \in 1 .. i - 1 : D[j].explicit
  <2>1. CASE i < k
    <3>1. i \in DOMAIN C /\ D[i] = C[i] /\ \A j \in 1 .. i - 1 : D[j] = C[j]
      BY <1>1, <1>2, <1>3, <2>1
    <3> QED BY <3>1 DEF CallsSound
  <2>2. CASE ~(i < k)
    <3>1. i + 1 \in DOMAIN C /\ D[i] = C[i + 1]
      BY <1>1, <1>2, <1>3, <2>2
    <3>2. ASSUME NEW j \in 1 .. i - 1
          PROVE  D[j] = C[j] \/ D[j] = C[j + 1]
      <4>1. j \in DOMAIN D
        BY <1>1, <1>3
      <4> QED BY <1>2, <4>1
    <3>3. \A j \in 1 .. i - 1 : j \in 1 .. (i + 1) - 1 /\ j + 1 \in 1 .. (i + 1) - 1
      BY <1>1, <1>3
    <3>4. /\ MeantFor(T, C[i + 1].content, C[i + 1].serial)
          /\ RowsSound(T, C[i + 1].answer)
          /\ C[i + 1].step # "wait" => \A j \in 1 .. (i + 1) - 1 : C[j].explicit
      BY <3>1 DEF CallsSound
    <3> QED BY <3>1, <3>2, <3>3, <3>4
  <2> QED BY <2>1, <2>2
<1> QED BY <1>2, <1>4 DEF CallsSound, D

LEMMA OrphansAreSound ==
    ASSUME NEW T, NEW C, CallsSound(T, C)
    PROVE  LET D == Drawer!Orphaned(C) IN
           /\ CallsSound(T, D) /\ DOMAIN D = DOMAIN C
           /\ \A k \in DOMAIN C : /\ D[k].serial = C[k].serial /\ D[k].content = C[k].content
                                  /\ D[k].step = C[k].step
<1> DEFINE D == Drawer!Orphaned(C)
<1>1. C \in Seq(Save) /\ DOMAIN C = 1 .. Len(C) /\ Len(C) \in Nat
  BY DEF CallsSound
<1>2. ASSUME NEW k \in DOMAIN C
      PROVE  LET R == [C[k] EXCEPT !.here = FALSE] IN
             /\ R \in Save /\ R.serial = C[k].serial /\ R.content = C[k].content
             /\ R.step = C[k].step /\ R.explicit = C[k].explicit /\ R.answer = C[k].answer
  <2>1. C[k] \in Save
    BY <1>1
  <2> QED BY <2>1 DEF Save
<1>3. DOMAIN D = DOMAIN C /\ \A k \in DOMAIN C : D[k] = [C[k] EXCEPT !.here = FALSE]
  BY DEF Drawer!Orphaned
<1>4. /\ D \in Seq(Save)
      /\ \A k \in DOMAIN C : /\ D[k].serial = C[k].serial /\ D[k].content = C[k].content
                             /\ D[k].step = C[k].step /\ D[k].explicit = C[k].explicit
                             /\ D[k].answer = C[k].answer
  <2>1. D = [k \in 1 .. Len(C) |-> [C[k] EXCEPT !.here = FALSE]]
    BY <1>1 DEF Drawer!Orphaned
  <2>2. \A k \in 1 .. Len(C) : [C[k] EXCEPT !.here = FALSE] \in Save
    BY <1>1, <1>2
  <2>3. D \in Seq(Save)
    BY <1>1, <2>1, <2>2
  <2> QED BY <1>2, <1>3, <2>3
<1> HIDE DEF D
<1>5. CallsSound(T, D)
  <2>1. ASSUME NEW k \in DOMAIN C
        PROVE  1 .. k - 1 \subseteq DOMAIN C
    BY <1>1
  <2> QED BY <1>3, <1>4, <2>1 DEF CallsSound
<1> QED BY <1>3, <1>4, <1>5 DEF D

----------------------------------------------------------------------------
(* The drawer: what is stored, shown, typed and sent is meant for its      *)
(* serial.                                                                 *)

LEMMA SerialIsPositive == Serial = 1 .. SerialCount /\ Drawer!NoSerial \notin Serial
BY PortalAssumption DEF Serial, Drawer!Serial, Drawer!NoSerial

LEMMA BlankIsSound ==
    /\ Drawer!Blank \in Content /\ \A T, s : MeantFor(T, Drawer!Blank, s)
    /\ \A T : RowsSound(T, Drawer!NoRows)
    /\ Drawer!Closed \in [serial : {Drawer!NoSerial}, seed : Content, unrefreshed : BOOLEAN]
    /\ Drawer!NoForm \in [content : Content, saved : Content, pending : BOOLEAN, timer : BOOLEAN]
<1>1. Drawer!Blank \in Content /\ \A f \in DrawerField : Drawer!Blank[f] = "blank"
  BY DEF Drawer!Blank, Content, Drawer!Filling
<1>2. \A s \in Serial : Drawer!NoRows[s] = [version |-> 0, content |-> Drawer!Blank]
  BY DEF Drawer!NoRows, Serial
<1>3. Drawer!NoRows \in Rows
  BY <1>1 DEF Drawer!NoRows, Rows, Serial
<1> QED BY <1>1, <1>2, <1>3
        DEF MeantFor, RowsSound, Drawer!Closed, Drawer!NoForm

(* What is meant for a serial is so after more was typed.                  *)
LEMMA MoreTyped ==
    ASSUME NEW T, NEW U,
           \A s \in Serial, f \in DrawerField : U[s][f] = "nothing" => T[s][f] = "nothing"
    PROVE  /\ \A c : \A s \in Serial : MeantFor(T, c, s) => MeantFor(U, c, s)
           /\ \A R : RowsSound(T, R) => RowsSound(U, R)
           /\ \A C : CallsSound(T, C) => CallsSound(U, C)
           /\ \A R : RefreshesSound(T, R) => RefreshesSound(U, R)
<1>1. \A c : \A s \in Serial : MeantFor(T, c, s) => MeantFor(U, c, s)
  BY DEF MeantFor
<1>2. \A R : RowsSound(T, R) => RowsSound(U, R)
  BY <1>1 DEF RowsSound
<1>3. ASSUME NEW C, CallsSound(T, C)
      PROVE  CallsSound(U, C)
  <2>1. \A k \in DOMAIN C : C[k] \in Save
    BY <1>3, LenProperties, ElementOfSeq DEF CallsSound
  <2>2. \A k \in DOMAIN C : C[k].serial \in Serial
    BY <2>1 DEF Save
  <2> QED BY <1>1, <1>2, <1>3, <2>2 DEF CallsSound
<1>4. \A R : RefreshesSound(T, R) => RefreshesSound(U, R)
  BY <1>2 DEF RefreshesSound
<1> QED BY <1>1, <1>2, <1>3, <1>4

LEMMA CallIsSave ==
    ASSUME NEW C \in Seq(Save), NEW k \in DOMAIN C
    PROVE  /\ C[k] \in Save /\ C[k].serial \in Serial /\ C[k].content \in Content
           /\ C[k].explicit \in BOOLEAN /\ C[k].step \in SaveStep /\ C[k].base \in Nat
           /\ C[k].answer \in Rows /\ C[k].here \in BOOLEAN
<1>1. C[k] \in Save
  BY LenProperties, ElementOfSeq
<1> QED BY <1>1 DEF Save

LEMMA NewCallIsSound ==
    ASSUME DrawerSound, drawer.serial \in Serial, NEW e \in BOOLEAN
    PROVE  LET c == Drawer!Call(drawer.serial, e) IN
           /\ c \in Save /\ c.step = "wait" /\ MeantFor(typed, c.content, c.serial)
           /\ RowsSound(typed, c.answer)
           /\ c.serial = drawer.serial /\ c.content = form.content /\ c.here
<1>1. form.content \in Content
  BY DEF DrawerSound, FormSound
<1>2. Drawer!NoRows \in Rows
  BY BlankIsSound DEF RowsSound
<1>3. MeantFor(typed, form.content, drawer.serial)
  BY DEF DrawerSound, FormSound
<1> QED BY <1>1, <1>2, <1>3, BlankIsSound DEF Drawer!Call, Save, SaveStep

LEMMA ArmedForm ==
    ASSUME NEW c \in Content
    PROVE  LET f == Drawer!Armed(c) IN
           /\ f \in [content : Content, saved : Content, pending : BOOLEAN, timer : BOOLEAN]
           /\ f.content = c /\ f.saved = c /\ f.pending = FALSE
BY DEF Drawer!Armed

LEMMA WithDraftIsSound ==
    ASSUME DrawerSound
    PROVE  CallsSound(typed, Drawer!WithDraft(drawer.serial))
<1>1. CallsSound(typed, calls)
  BY DEF DrawerSound
<1>2. CASE Drawer!DraftToSave
  <2>1. drawer.serial \in Serial
    BY <1>2 DEF Drawer!DraftToSave, Drawer!IsOpen, DrawerSound, FormSound
  <2> QED BY <1>1, <1>2, <2>1, NewCallIsSound, CallAppendedIsSound DEF Drawer!WithDraft
<1> QED BY <1>1, <1>2 DEF Drawer!WithDraft

LEMMA InitDrawerSound == Drawer!SerialDrawerInit => DrawerSound
<1> SUFFICES ASSUME Drawer!SerialDrawerInit
             PROVE  DrawerSound
  OBVIOUS
<1>1. typed \in Typing
  BY DEF Drawer!SerialDrawerInit, Typing, Serial
<1>2. RowsSound(typed, server) /\ cache = server
  <2>1. \A s \in Serial : server[s] = [version |-> 1, content |-> Drawer!Blank]
    BY DEF Drawer!SerialDrawerInit, Serial
  <2>2. server \in Rows
    BY BlankIsSound DEF Drawer!SerialDrawerInit, Rows, Serial
  <2> QED BY <2>1, <2>2, BlankIsSound DEF RowsSound, Drawer!SerialDrawerInit
<1>3. DeviceSound
  <2>1. outbox = [s \in Serial |-> {}]
    BY DEF Drawer!SerialDrawerInit, Serial
  <2> QED BY <1>2, <2>1 DEF DeviceSound, Drawer!SerialDrawerInit
<1>4. ScreenSound
  BY BlankIsSound DEF ScreenSound, Drawer!SerialDrawerInit, Serial
<1>5. FormSound
  BY BlankIsSound, SerialIsPositive DEF FormSound, Drawer!SerialDrawerInit
<1>6. CallsSound(typed, calls) /\ RefreshesSound(typed, refreshes)
  BY EmptySeq DEF CallsSound, RefreshesSound, Drawer!SerialDrawerInit
<1> QED BY <1>1, <1>3, <1>4, <1>5, <1>6 DEF DrawerSound

LEMMA TypeKeepsSound ==
    ASSUME DrawerSound, NEW f \in DrawerField, NEW v \in Drawer!Filling, Drawer!Type(f, v)
    PROVE  DrawerSound'
<1> DEFINE s == drawer.serial
<1>1. s \in Serial
  BY DEF Drawer!Type, Drawer!IsOpen, DrawerSound, FormSound
<1>2. typed' = [typed EXCEPT ![s][f] = v] /\ typed \in Typing
  BY DEF Drawer!Type, DrawerSound
<1>3. /\ typed' \in Typing
      /\ \A t \in Serial, g \in DrawerField : typed'[t][g] = "nothing" => typed[t][g] = "nothing"
      /\ typed'[s][f] # "nothing"
  BY <1>1, <1>2 DEF Typing, Drawer!Filling
<1>4. /\ form' \in [content : Content, saved : Content, pending : BOOLEAN, timer : BOOLEAN]
      /\ form'.content = [form.content EXCEPT ![f] = v]
      /\ form.content \in Content
  BY DEF Drawer!Type, DrawerSound, FormSound, Content
<1>5. /\ MeantFor(typed', form'.content, s)
  <2>1. \A g \in DrawerField : g # f => form'.content[g] = form.content[g]
    BY <1>4 DEF Content
  <2>2. MeantFor(typed, form.content, s)
    BY <1>1 DEF DrawerSound, FormSound
  <2> QED BY <1>1, <1>3, <2>1, <2>2 DEF MeantFor
<1>6. DeviceSound' /\ ScreenSound'
  <2>1. UNCHANGED <<server, cache, outbox, connected, shown, editable>>
    BY DEF Drawer!Type, Drawer!device, Drawer!screen
  <2>2. ASSUME NEW t \in Serial, NEW c \in outbox[t]
        PROVE  MeantFor(typed', c, t)
    BY <1>3, <2>2, MoreTyped DEF DrawerSound, DeviceSound
  <2> QED BY <1>3, <2>1, <2>2, MoreTyped DEF DrawerSound, DeviceSound, ScreenSound
<1>7. FormSound'
  <2>1. drawer' = drawer
    BY DEF Drawer!Type
  <2> QED BY <1>1, <1>3, <1>4, <1>5, <2>1, MoreTyped DEF DrawerSound, FormSound
<1>8. CallsSound(typed', calls') /\ RefreshesSound(typed', refreshes')
  <2>1. calls' = calls /\ refreshes' = refreshes
    BY DEF Drawer!Type
  <2>2. CallsSound(typed', calls) /\ RefreshesSound(typed', refreshes)
    BY <1>3, MoreTyped DEF DrawerSound
  <2> QED BY <2>1, <2>2
<1> QED BY <1>3, <1>6, <1>7, <1>8 DEF DrawerSound

(* Steps that leave alone what the device has and what was typed.          *)
LEMMA FormStepsKeepSound ==
    ASSUME DrawerSound,
           Drawer!SaveDraft \/ Drawer!Submit \/ Drawer!TurnReadOnly \/ Drawer!DefinitionArrives
    PROVE  DrawerSound'
<1>1. UNCHANGED <<typed, server, cache, outbox, connected, shown, drawer, refreshes>>
  BY DEF Drawer!SaveDraft, Drawer!Submit, Drawer!TurnReadOnly, Drawer!DefinitionArrives,
         Drawer!device, Drawer!screen
<1>2. DeviceSound'
  BY <1>1 DEF DrawerSound, DeviceSound
<1>3. ScreenSound'
  BY <1>1 DEF DrawerSound, ScreenSound, Drawer!SaveDraft, Drawer!Submit, Drawer!TurnReadOnly,
              Drawer!DefinitionArrives, Drawer!screen
<1>4. /\ form' \in [content : Content, saved : Content, pending : BOOLEAN, timer : BOOLEAN]
      /\ form'.content \in {form.content, drawer.seed}
  <2>1. /\ form \in [content : Content, saved : Content, pending : BOOLEAN, timer : BOOLEAN]
        /\ drawer.seed \in Content /\ editable \in BOOLEAN
    BY DEF DrawerSound, FormSound, ScreenSound
  <2>2. CASE Drawer!SaveDraft
    <3>1. Drawer!StillPending \in BOOLEAN
      BY <2>1 DEF Drawer!StillPending
    <3> QED BY <2>1, <2>2, <3>1 DEF Drawer!SaveDraft
  <2>3. CASE Drawer!Submit \/ Drawer!DefinitionArrives
    <3>1. PICK c \in {form.content, drawer.seed} : form' = Drawer!Armed(c)
      BY <2>3 DEF Drawer!Submit, Drawer!DefinitionArrives
    <3>2. c \in Content
      BY <2>1
    <3> QED BY <3>1, <3>2, ArmedForm
  <2>4. CASE Drawer!TurnReadOnly
    BY <2>1, <2>4 DEF Drawer!TurnReadOnly
  <2> QED BY <2>2, <2>3, <2>4
<1>5. FormSound'
  BY <1>1, <1>4 DEF DrawerSound, FormSound
<1>6. CallsSound(typed', calls')
  <2>1. CASE Drawer!SaveDraft \/ Drawer!DefinitionArrives
    BY <1>1, <2>1, WithDraftIsSound DEF Drawer!SaveDraft, Drawer!DefinitionArrives
  <2>2. CASE Drawer!Submit
    <3>1. drawer.serial \in Serial
      BY <2>2 DEF Drawer!Submit, Drawer!IsOpen, DrawerSound, FormSound
    <3>2. calls' = Append(calls, Drawer!Call(drawer.serial, TRUE))
      BY <2>2 DEF Drawer!Submit
    <3> QED BY <1>1, <3>1, <3>2, NewCallIsSound, CallAppendedIsSound DEF DrawerSound
  <2>3. CASE Drawer!TurnReadOnly
    BY <1>1, <2>3 DEF Drawer!TurnReadOnly, DrawerSound
  <2> QED BY <2>1, <2>2, <2>3
<1> QED BY <1>1, <1>2, <1>3, <1>5, <1>6 DEF DrawerSound

LEMMA MovingOnKeepsSound ==
    ASSUME DrawerSound, NEW s \in Serial, Drawer!OpenDrawer(s) \/ Drawer!GoTo(s)
    PROVE  DrawerSound'
<1>1. /\ Drawer!OpenOn(s) /\ UNCHANGED <<typed, server, cache, outbox, connected, shown, editable,
                                         refreshes>>
      /\ calls' \in {calls, Drawer!WithDraft(drawer.serial)}
  BY DEF Drawer!OpenDrawer, Drawer!GoTo, Drawer!OpenOn, Drawer!device, Drawer!screen,
         Drawer!FlushesOutgoing
<1>2. DeviceSound' /\ ScreenSound'
  BY <1>1 DEF DrawerSound, DeviceSound, ScreenSound
<1>3. shown[s] \in Content /\ MeantFor(typed, shown[s], s)
  BY DEF DrawerSound, ScreenSound
<1>4. FormSound'
  <2>1. drawer \in [serial : Serial \cup {Drawer!NoSerial}, seed : Content, unrefreshed : BOOLEAN]
    BY DEF DrawerSound, FormSound
  <2>2. /\ drawer' \in [serial : Serial \cup {Drawer!NoSerial}, seed : Content,
                        unrefreshed : BOOLEAN]
        /\ drawer'.serial = s /\ drawer'.seed = shown[s]
    BY <1>1, <1>3, <2>1 DEF Drawer!OpenOn
  <2>3. /\ form' \in [content : Content, saved : Content, pending : BOOLEAN, timer : BOOLEAN]
        /\ form'.content = shown[s]
    BY <1>1, <1>3 DEF Drawer!OpenOn, Drawer!Armed
  <2> QED BY <1>1, <1>3, <2>2, <2>3 DEF FormSound
<1>5. CallsSound(typed', calls')
  BY <1>1, WithDraftIsSound DEF DrawerSound
<1> QED BY <1>1, <1>2, <1>4, <1>5 DEF DrawerSound

LEMMA ListedIsSound ==
    ASSUME DrawerSound
    PROVE  RowsSound(typed, Drawer!Listed)
<1>1. cache \in Rows /\ \A s \in Serial : MeantFor(typed, cache[s].content, s)
  BY DEF DrawerSound, DeviceSound, RowsSound
<1>2. \A s \in Serial : cache[s].content \in Content
  BY <1>1 DEF Rows
<1>3. /\ Drawer!Listed \in Rows
      /\ \A s \in Serial : Drawer!Listed[s].content = cache[s].content
  BY <1>2 DEF Drawer!Listed, Rows, Serial
<1> QED BY <1>1, <1>3 DEF RowsSound

LEMMA ContentsAreSound ==
    ASSUME NEW T, NEW R, RowsSound(T, R)
    PROVE  LET C == Drawer!Contents(R) IN
           C \in [Serial -> Content] /\ \A s \in Serial : MeantFor(T, C[s], s)
<1>1. \A s \in Serial : R[s].content \in Content
  BY DEF RowsSound, Rows
<1> QED BY <1>1 DEF Drawer!Contents, RowsSound, Serial

LEMMA RefreshIsSound ==
    ASSUME NEW T, NEW R, RefreshesSound(T, R), NEW k \in DOMAIN R
    PROVE  R[k] \in Refresh /\ RowsSound(T, R[k].rows) /\ R[k].rows \in Rows
BY LenProperties, ElementOfSeq DEF RefreshesSound, RowsSound

LEMMA RefreshesStaySound ==
    ASSUME NEW T, NEW R, RefreshesSound(T, R)
    PROVE  /\ \A step \in {"due", "pull", "read"}, n \in Nat :
                  RefreshesSound(T, Append(R, Drawer!Refreshing(step, n)))
           /\ \A k \in DOMAIN R : RefreshesSound(T, Drawer!RemoveAt(R, k))
           /\ \A k \in DOMAIN R : \A e \in Refresh :
                  RowsSound(T, e.rows) => RefreshesSound(T, [R EXCEPT ![k] = e])
           /\ RefreshesSound(T, Drawer!LessWaiting(R))
<1>1. R \in Seq(Refresh) /\ \A k \in DOMAIN R : RowsSound(T, R[k].rows)
  BY DEF RefreshesSound
<1>2. ASSUME NEW step \in {"due", "pull", "read"}, NEW n \in Nat
      PROVE  RefreshesSound(T, Append(R, Drawer!Refreshing(step, n)))
  <2> DEFINE e == Drawer!Refreshing(step, n)
  <2>1. e \in Refresh /\ RowsSound(T, e.rows)
    BY BlankIsSound DEF Drawer!Refreshing, Refresh, RowsSound
  <2> HIDE DEF e
  <2>2. /\ Append(R, e) \in Seq(Refresh)
        /\ \A j \in DOMAIN Append(R, e) : Append(R, e)[j] = e \/ \E i \in DOMAIN R : Append(R, e)[j] = R[i]
    BY <1>1, <2>1, OneAppended
  <2> QED BY <1>1, <2>1, <2>2 DEF RefreshesSound, e
<1>3. ASSUME NEW k \in DOMAIN R
      PROVE  RefreshesSound(T, Drawer!RemoveAt(R, k))
  BY <1>1, OthersRemain DEF RefreshesSound
<1>4. ASSUME NEW k \in DOMAIN R, NEW e \in Refresh, RowsSound(T, e.rows)
      PROVE  RefreshesSound(T, [R EXCEPT ![k] = e])
  <2>1. /\ [R EXCEPT ![k] = e] \in Seq(Refresh) /\ DOMAIN [R EXCEPT ![k] = e] = DOMAIN R
        /\ \A j \in DOMAIN R : [R EXCEPT ![k] = e][j] = IF j = k THEN e ELSE R[j]
    BY <1>1
  <2> QED BY <1>1, <1>4, <2>1 DEF RefreshesSound
<1>5. RefreshesSound(T, Drawer!LessWaiting(R))
  <2> DEFINE Less(e) == [e EXCEPT !.waits = IF e.waits > 0 THEN e.waits - 1 ELSE 0]
  <2>1. ASSUME NEW e \in Refresh
        PROVE  Less(e) \in Refresh /\ Less(e).rows = e.rows
    <3>1. (IF e.waits > 0 THEN e.waits - 1 ELSE 0) \in Nat
      BY DEF Refresh
    <3> QED BY <3>1 DEF Refresh
  <2>2. Len(R) \in Nat /\ DOMAIN R = 1 .. Len(R)
    BY <1>1
  <2>3. Drawer!LessWaiting(R) = [k \in 1 .. Len(R) |-> Less(R[k])]
    BY <2>2 DEF Drawer!LessWaiting
  <2> HIDE DEF Less
  <2>4. \A k \in 1 .. Len(R) : R[k] \in Refresh
    BY <1>1, <2>2
  <2>5. [k \in 1 .. Len(R) |-> Less(R[k])] \in Seq(Refresh)
    BY <2>1, <2>2, <2>4
  <2> QED BY <1>1, <2>1, <2>2, <2>3, <2>4, <2>5 DEF RefreshesSound
<1> QED BY <1>2, <1>3, <1>4, <1>5

(* A refresh takes a step.                                                 *)
Stepped(R, k, step) == [R EXCEPT ![k] = [R[k] EXCEPT !.step = step]]
SteppedWith(R, k, step, rows) == [R EXCEPT ![k] = [R[k] EXCEPT !.step = step, !.rows = rows]]

LEMMA SteppedRefreshIsSound ==
    ASSUME NEW T, NEW R, RefreshesSound(T, R), NEW k \in DOMAIN R,
           NEW step \in {"pull", "put", "read", "apply"}, NEW rows, RowsSound(T, rows)
    PROVE  /\ RefreshesSound(T, Stepped(R, k, step))
           /\ RefreshesSound(T, SteppedWith(R, k, step, rows))
<1> DEFINE e == [R[k] EXCEPT !.step = step]
           d == [R[k] EXCEPT !.step = step, !.rows = rows]
<1>1. R[k] \in Refresh /\ RowsSound(T, R[k].rows) /\ rows \in Rows
  BY RefreshIsSound DEF RowsSound
<1>2. e \in Refresh /\ e.rows = R[k].rows /\ d \in Refresh /\ d.rows = rows
  BY <1>1 DEF Refresh
<1>3. Stepped(R, k, step) = [R EXCEPT ![k] = e] /\ SteppedWith(R, k, step, rows) = [R EXCEPT ![k] = d]
  BY DEF Stepped, SteppedWith
<1> HIDE DEF e, d
<1>4. \A x \in Refresh : RowsSound(T, x.rows) => RefreshesSound(T, [R EXCEPT ![k] = x])
  BY RefreshesStaySound
<1>5. RowsSound(T, e.rows) /\ RowsSound(T, d.rows)
  BY <1>1, <1>2
<1> QED BY <1>2, <1>3, <1>4, <1>5

LEMMA StartedIsSound ==
    ASSUME NEW T, RefreshesSound(T, refreshes)
    PROVE  RefreshesSound(T, Drawer!Started)
<1>1. Drawer!FirstStep \in {"pull", "read"}
  BY DEF Drawer!FirstStep
<1> QED BY <1>1, RefreshesStaySound DEF Drawer!Started

LEMMA RefreshStepsKeepSound ==
    ASSUME DrawerSound,
           Drawer!Renew \/ \E k \in DOMAIN refreshes : Drawer!RefreshStep(k)
    PROVE  DrawerSound'
<1>1. RefreshesSound(typed, refreshes) /\ RowsSound(typed, server) /\ RowsSound(typed, cache)
  BY DEF DrawerSound, DeviceSound
<1>2. UNCHANGED <<typed, drawer, form, calls, server, outbox, connected, editable>>
  BY DEF Drawer!Renew, Drawer!RefreshStep, Drawer!StartDue, Drawer!PullChild, Drawer!PutChild,
         Drawer!ReadRows, Drawer!ApplyRows, Drawer!device, Drawer!screen
<1>3. FormSound' /\ CallsSound(typed', calls')
  BY <1>2 DEF DrawerSound, FormSound
<1>4. \/ RowsSound(typed, cache') /\ shown' = shown
      \/ /\ cache' = cache /\ shown' \in [Serial -> Content]
         /\ \A s \in Serial : MeantFor(typed, shown'[s], s)
  <2>1. CASE \E k \in DOMAIN refreshes : Drawer!PutChild(k)
    <3>1. PICK k \in DOMAIN refreshes : Drawer!PutChild(k)
      BY <2>1
    <3>2. cache' = refreshes[k].rows /\ shown' = shown
      BY <3>1 DEF Drawer!PutChild, Drawer!screen
    <3> QED BY <1>1, <3>2, RefreshIsSound
  <2>2. CASE \E k \in DOMAIN refreshes : Drawer!ApplyRows(k)
    <3>1. PICK k \in DOMAIN refreshes : Drawer!ApplyRows(k)
      BY <2>2
    <3>2. shown' = Drawer!Contents(refreshes[k].rows) /\ cache' = cache
      BY <3>1 DEF Drawer!ApplyRows, Drawer!device
    <3> QED BY <1>1, <3>2, RefreshIsSound, ContentsAreSound
  <2>3. CASE cache' = cache /\ shown' = shown
    BY <1>1, <2>3
  <2> QED BY <2>1, <2>2, <2>3
          DEF Drawer!Renew, Drawer!RefreshStep, Drawer!StartDue, Drawer!PullChild,
              Drawer!ReadRows, Drawer!device, Drawer!screen
<1>5. DeviceSound' /\ ScreenSound'
  BY <1>1, <1>2, <1>4 DEF DrawerSound, DeviceSound, ScreenSound
<1>6. RefreshesSound(typed, refreshes')
  <2>1. CASE Drawer!Renew
    BY <1>1, <2>1, StartedIsSound DEF Drawer!Renew
  <2>2. ASSUME NEW k \in DOMAIN refreshes, Drawer!RefreshStep(k)
        PROVE  RefreshesSound(typed, refreshes')
    <3>2. CASE Drawer!StartDue(k)
      <4>1. Drawer!FirstStep \in {"pull", "read"}
        BY DEF Drawer!FirstStep
      <4>2. \/ refreshes' = Drawer!RemoveAt(refreshes, k)
            \/ refreshes' = Stepped(refreshes, k, Drawer!FirstStep)
        BY <3>2 DEF Drawer!StartDue, Stepped, SteppedWith
      <4>3. /\ RefreshesSound(typed, Drawer!RemoveAt(refreshes, k))
            /\ RefreshesSound(typed, Stepped(refreshes, k, Drawer!FirstStep))
        BY <1>1, <4>1, RefreshesStaySound, SteppedRefreshIsSound
      <4> QED BY <4>2, <4>3
    <3>3. CASE Drawer!PullChild(k)
      <4>1. \/ refreshes' = SteppedWith(refreshes, k, "put", server)
            \/ refreshes' = Stepped(refreshes, k, "read")
        BY <3>3 DEF Drawer!PullChild, Stepped, SteppedWith
      <4> QED BY <1>1, <4>1, SteppedRefreshIsSound
    <3>4. CASE Drawer!PutChild(k)
      <4>1. refreshes' = SteppedWith(refreshes, k, "read", Drawer!NoRows)
        BY <3>4 DEF Drawer!PutChild, Stepped, SteppedWith
      <4> QED BY <1>1, <4>1, BlankIsSound, SteppedRefreshIsSound
    <3>5. CASE Drawer!ReadRows(k)
      <4>1. refreshes' = SteppedWith(refreshes, k, "apply", Drawer!Listed)
        BY <3>5 DEF Drawer!ReadRows, Stepped, SteppedWith
      <4> QED BY <1>1, <4>1, ListedIsSound, SteppedRefreshIsSound
    <3>6. CASE Drawer!ApplyRows(k)
      BY <1>1, <3>6, RefreshesStaySound DEF Drawer!ApplyRows
    <3> QED BY <2>2, <3>2, <3>3, <3>4, <3>5, <3>6 DEF Drawer!RefreshStep
  <2> QED BY <2>1, <2>2
<1> QED BY <1>2, <1>3, <1>5, <1>6 DEF DrawerSound

LEMMA AutosavesAreMany ==
    ASSUME NEW C \in Seq(Save)
    PROVE  Drawer!Autosaves(C) \in Nat
<1>1. IsFiniteSet(DOMAIN C)
  BY LenProperties, FS_Interval
<1>2. IsFiniteSet({k \in DOMAIN C : ~C[k].explicit})
  BY <1>1, FS_Subset
<1>3. \A S : Drawer!Cardinality(S) = Cardinality(S)
  BY Zenon DEF Drawer!Cardinality, Cardinality
<1> QED BY <1>2, <1>3, FS_CardinalityType DEF Drawer!Autosaves

LEMMA DueIsSound ==
    ASSUME DrawerSound, NEW C \in {calls, Drawer!WithDraft(drawer.serial)}
    PROVE  RefreshesSound(typed, Drawer!Due(C))
<1>1. C \in Seq(Save) /\ RefreshesSound(typed, refreshes)
  BY WithDraftIsSound DEF DrawerSound, CallsSound
<1>2. Drawer!Autosaves(C) \in Nat
  BY <1>1, AutosavesAreMany
<1> QED BY <1>1, <1>2, RefreshesStaySound DEF Drawer!Due

LEMMA ClosingKeepsSound ==
    ASSUME DrawerSound,
           Drawer!CloseDrawer \/ \E k \in DOMAIN calls : Drawer!CloseAfterSave(k)
    PROVE  DrawerSound'
<1> DEFINE flushed == Drawer!WithDraft(drawer.serial)
<1>1. CallsSound(typed, flushed) /\ DOMAIN calls \subseteq DOMAIN flushed
  <2>1. CallsSound(typed, flushed)
    BY WithDraftIsSound
  <2>2. DOMAIN calls \subseteq DOMAIN flushed
    <3>1. Len(calls) \in Nat /\ DOMAIN calls = 1 .. Len(calls)
      BY LenProperties DEF DrawerSound, CallsSound
    <3>2. CASE Drawer!DraftToSave
      <4>1. drawer.serial \in Serial
        BY <3>2 DEF Drawer!DraftToSave, Drawer!IsOpen, DrawerSound, FormSound
      <4>2. Drawer!Call(drawer.serial, FALSE) \in Save
        BY <4>1, NewCallIsSound
      <4> QED BY <3>2, <4>2, OneAppended DEF Drawer!WithDraft, DrawerSound, CallsSound
    <3> QED BY <3>2 DEF Drawer!WithDraft
  <2> QED BY <2>1, <2>2
<1>2. UNCHANGED <<typed, server, cache, outbox, connected, editable>>
  BY DEF Drawer!CloseDrawer, Drawer!CloseAfterSave, Drawer!device, Drawer!screen
<1>3. PICK C, R : /\ Drawer!Shut(C, R)
                  /\ CallsSound(typed, C) /\ RefreshesSound(typed, R)
  <2>1. CASE Drawer!CloseDrawer
    <3>1. PICK C \in {calls, flushed} : Drawer!Shut(flushed, Drawer!Due(C))
      BY <2>1 DEF Drawer!CloseDrawer, Drawer!FlushesOnDestroy
    <3> QED BY <1>1, <3>1, DueIsSound
  <2>2. ASSUME NEW k \in DOMAIN calls, Drawer!CloseAfterSave(k)
        PROVE  \E C, R : /\ Drawer!Shut(C, R)
                         /\ CallsSound(typed, C) /\ RefreshesSound(typed, R)
    <3>1. \E R \in {Drawer!Due(calls), Drawer!Started} :
              Drawer!Shut(Drawer!RemoveAt(flushed, k), R)
      BY <2>2 DEF Drawer!CloseAfterSave, Drawer!FlushesOnDestroy
    <3>2. CallsSound(typed, Drawer!RemoveAt(flushed, k))
      BY <1>1, CallRemovedIsSound
    <3>3. RefreshesSound(typed, Drawer!Due(calls)) /\ RefreshesSound(typed, Drawer!Started)
      BY DueIsSound, StartedIsSound DEF DrawerSound
    <3> QED BY <3>1, <3>2, <3>3
  <2> QED BY <2>1, <2>2
<1>4. calls' = Drawer!Orphaned(C) /\ refreshes' = R /\ drawer' = Drawer!Closed
      /\ form' = Drawer!NoForm
  BY <1>3 DEF Drawer!Shut
<1>5. CallsSound(typed', calls') /\ RefreshesSound(typed', refreshes')
  BY <1>2, <1>3, <1>4, OrphansAreSound
<1>6. FormSound'
  <2>1. drawer'.serial = Drawer!NoSerial
    BY <1>4 DEF Drawer!Closed
  <2> QED BY <1>4, <2>1, BlankIsSound, SerialIsPositive DEF FormSound
<1>7. ScreenSound'
  <2>1. \/ shown' = shown
        \/ \E k \in DOMAIN calls : shown' = Drawer!Contents(calls[k].answer)
    BY DEF Drawer!CloseDrawer, Drawer!CloseAfterSave, Drawer!screen
  <2>2. \A k \in DOMAIN calls : RowsSound(typed, calls[k].answer)
    BY DEF DrawerSound, CallsSound
  <2>3. /\ shown' \in [Serial -> Content]
        /\ \A s \in Serial : MeantFor(typed, shown'[s], s)
    BY <2>1, <2>2, ContentsAreSound DEF DrawerSound, ScreenSound
  <2> QED BY <1>2, <2>3 DEF DrawerSound, ScreenSound
<1> QED BY <1>2, <1>5, <1>6, <1>7 DEF DrawerSound, DeviceSound

LEMMA RowReplacedIsSound ==
    ASSUME NEW T, NEW R, RowsSound(T, R), NEW s \in Serial
    PROVE  /\ \A v \in Nat, c \in Content :
                  MeantFor(T, c, s) =>
                  RowsSound(T, [R EXCEPT ![s] = [version |-> v, content |-> c]])
           /\ \A Q : RowsSound(T, Q) => RowsSound(T, [R EXCEPT ![s] = Q[s]])
<1>1. ASSUME NEW row \in [version : Nat, content : Content], MeantFor(T, row.content, s)
      PROVE  RowsSound(T, [R EXCEPT ![s] = row])
  <2>1. R \in Rows
    BY DEF RowsSound
  <2>2. /\ [R EXCEPT ![s] = row] \in Rows
        /\ \A t \in Serial : [R EXCEPT ![s] = row][t] = IF t = s THEN row ELSE R[t]
    BY <2>1 DEF Rows
  <2> QED BY <1>1, <2>2 DEF RowsSound
<1>2. ASSUME NEW v \in Nat, NEW c \in Content, MeantFor(T, c, s)
      PROVE  RowsSound(T, [R EXCEPT ![s] = [version |-> v, content |-> c]])
  BY <1>1, <1>2
<1>3. ASSUME NEW Q, RowsSound(T, Q)
      PROVE  RowsSound(T, [R EXCEPT ![s] = Q[s]])
  <2>1. Q[s] \in [version : Nat, content : Content] /\ MeantFor(T, Q[s].content, s)
    BY <1>3 DEF RowsSound, Rows
  <2> QED BY <1>1, <2>1
<1> QED BY <1>2, <1>3

LEMMA WrittenIsSound ==
    ASSUME DrawerSound, NEW k \in DOMAIN calls
    PROVE  LET W == Drawer!Written(calls[k]) IN
           /\ RowsSound(typed, W)
           /\ \A s \in Serial : W[s].content = IF s = calls[k].serial THEN calls[k].content
                                               ELSE server[s].content
<1> DEFINE c == calls[k]
           row == [version |-> server[c.serial].version + 1, content |-> c.content]
<1>1. /\ c.serial \in Serial /\ c.content \in Content /\ MeantFor(typed, c.content, c.serial)
  BY CallIsSave DEF DrawerSound, CallsSound
<1>2. RowsSound(typed, server) /\ server \in Rows /\ server[c.serial].version \in Nat
  BY <1>1 DEF DrawerSound, DeviceSound, RowsSound, Rows
<1>3. Drawer!Written(c) = [server EXCEPT ![c.serial] = row]
  BY DEF Drawer!Written
<1>4. RowsSound(typed, [server EXCEPT ![c.serial] = row])
  BY <1>1, <1>2, RowReplacedIsSound
<1>5. ASSUME NEW s \in Serial
      PROVE  [server EXCEPT ![c.serial] = row][s] = IF s = c.serial THEN row ELSE server[s]
  BY <1>1, <1>2 DEF Rows
<1> QED BY <1>1, <1>3, <1>4, <1>5

(* A call k takes a step.                                                  *)
Taking(e, step, base, answer) == [e EXCEPT !.step = step, !.base = base, !.answer = answer]
Moved(C, k, step, base, answer) == [C EXCEPT ![k] = Taking(C[k], step, base, answer)]

LEMMA CallTakesStep ==
    ASSUME NEW e \in Save, NEW step \in SaveStep, NEW base \in Nat, NEW answer \in Rows
    PROVE  LET R == Taking(e, step, base, answer) IN
           /\ R \in Save /\ R.serial = e.serial /\ R.content = e.content
           /\ R.explicit = e.explicit /\ R.here = e.here /\ R.step = step /\ R.answer = answer
           /\ R.base = base
BY DEF Save, Taking

LEMMA AnswersAreMoves ==
    ASSUME NEW C, NEW k, C[k] \in Save, NEW step, NEW answer
    PROVE  [C EXCEPT ![k].step = step, ![k].answer = answer]
              = Moved(C, k, step, C[k].base, answer)
<1> DEFINE e == C[k]
<1>1. [e EXCEPT !.step = step, !.answer = answer] = Taking(e, step, e.base, answer)
  BY DEF Save, Taking
<1> QED BY Zenon, <1>1 DEF Moved

LEMMA StepsAreMoves ==
    ASSUME NEW C, NEW k, C[k] \in Save, NEW step, NEW base
    PROVE  /\ [C EXCEPT ![k].step = step] = Moved(C, k, step, C[k].base, C[k].answer)
           /\ [C EXCEPT ![k].step = step, ![k].base = base]
                 = Moved(C, k, step, base, C[k].answer)
<1> DEFINE e == C[k]
<1>1. e \in Save
  OBVIOUS
<1> HIDE DEF e
<1>2. /\ [e EXCEPT !.step = step] = Taking(e, step, e.base, e.answer)
      /\ [e EXCEPT !.step = step, !.base = base] = Taking(e, step, base, e.answer)
  BY <1>1 DEF Save, Taking
<1>3. [C EXCEPT ![k].step = step] = Moved(C, k, step, C[k].base, C[k].answer)
  BY Zenon, <1>2 DEF Moved, e
<1>4. [C EXCEPT ![k].step = step, ![k].base = base] = Moved(C, k, step, base, C[k].answer)
  BY Zenon, <1>2 DEF Moved, e
<1> QED BY Zenon, <1>3, <1>4

CallMove(k) ==
    \/ Drawer!BeginSave(k) \/ Drawer!SendSave(k) \/ Drawer!LoseSave(k)
    \/ Drawer!RefuseSave(k) \/ Drawer!CacheSave(k) \/ Drawer!RefreshAfterSave(k)

(* What a call's step does to the calls: one of them moves on, if it was   *)
(* its turn, with rows that are sound.                                     *)
LEMMA CallMoves ==
    ASSUME DrawerSound, NEW k \in DOMAIN calls, CallMove(k)
    PROVE  \E step \in SaveStep, base \in Nat, answer \in Rows :
              /\ RowsSound(typed, answer) /\ step # "wait"
              /\ calls' = Moved(calls, k, step, base, answer)
              /\ calls[k].step # "wait" \/ \A j \in 1 .. k - 1 : calls[j].explicit
              /\ step \in Settled => \/ Drawer!SendSave(k)
                                     \/ Drawer!CacheSave(k)
                                     \/ calls[k].step = "saved"
<1> DEFINE e == calls[k]
<1>1. e \in Save /\ e.serial \in Serial /\ e.step \in SaveStep /\ e.base \in Nat
  BY CallIsSave DEF DrawerSound, CallsSound
<1>2. RowsSound(typed, e.answer) /\ RowsSound(typed, cache)
  BY DEF DrawerSound, CallsSound, DeviceSound
<1>3. ASSUME NEW step, NEW answer
      PROVE  [calls EXCEPT ![k].step = step, ![k].answer = answer]
                = Moved(calls, k, step, e.base, answer)
  <2>1. calls[k] \in Save
    BY <1>1
  <2> QED BY ZenonT(30), <2>1, AnswersAreMoves
<1>4. CASE Drawer!BeginSave(k)
  <2> DEFINE step == IF connected THEN "send" ELSE "local"
  <2>1. calls' = Moved(calls, k, step, cache[e.serial].version, e.answer)
    <3>1. calls' = [calls EXCEPT ![k].step = step, ![k].base = cache[e.serial].version]
      BY <1>4 DEF Drawer!BeginSave
    <3> QED BY Zenon, <1>1, <3>1, StepsAreMoves
  <2>2. cache[e.serial].version \in Nat /\ step \in {"send", "local"}
    BY <1>1, <1>2 DEF RowsSound, Rows
  <2>3. \A j \in 1 .. k - 1 : calls[j].explicit
    BY <1>4 DEF Drawer!BeginSave, Drawer!InTurn
  <2> HIDE DEF step
  <2> QED BY <1>2, <2>1, <2>2, <2>3 DEF SaveStep, Settled, RowsSound
<1>5. CASE Drawer!SendSave(k)
  <2>1. /\ e.step = "send" /\ server' = Drawer!Written(e)
        /\ calls' = [calls EXCEPT ![k].step = "cache", ![k].answer = server']
    BY <1>5 DEF Drawer!SendSave
  <2>2. RowsSound(typed, server')
    BY <2>1, WrittenIsSound
  <2>3. calls' = Moved(calls, k, "cache", e.base, server')
    BY Zenon, <1>3, <2>1
  <2> QED BY <1>1, <1>5, <2>1, <2>2, <2>3 DEF SaveStep, RowsSound
<1>6. CASE Drawer!LoseSave(k) \/ Drawer!RefuseSave(k)
  <2>1. e.step = "send" /\ \E step \in {"local", "failed"} :
            calls' = [calls EXCEPT ![k].step = step]
    BY <1>6 DEF Drawer!LoseSave, Drawer!RefuseSave
  <2>2. PICK step \in {"local", "failed"} : calls' = Moved(calls, k, step, e.base, e.answer)
    BY Zenon, <1>1, <2>1, StepsAreMoves
  <2> QED BY <1>1, <1>2, <2>1, <2>2 DEF SaveStep, Settled, RowsSound
<1>7. CASE Drawer!CacheSave(k)
  <2>1. /\ e.step \in {"cache", "local"}
        /\ calls' = [calls EXCEPT ![k].step = "saved", ![k].base = 0,
                                  ![k].answer = Drawer!NoRows]
    BY <1>7 DEF Drawer!CacheSave
  <2>2. calls' = Moved(calls, k, "saved", 0, Drawer!NoRows)
    BY <2>1 DEF Moved, Taking
  <2>3. RowsSound(typed, Drawer!NoRows)
    BY BlankIsSound
  <2> QED BY <1>7, <2>1, <2>2, <2>3 DEF SaveStep, RowsSound
<1>8. CASE Drawer!RefreshAfterSave(k)
  <2>1. /\ e.step = "saved"
        /\ calls' = [calls EXCEPT ![k].step = "refreshed", ![k].answer = Drawer!Listed]
    BY <1>8 DEF Drawer!RefreshAfterSave
  <2>2. calls' = Moved(calls, k, "refreshed", e.base, Drawer!Listed)
    BY Zenon, <1>3, <2>1
  <2> QED BY <1>1, <2>1, <2>2, ListedIsSound DEF SaveStep, RowsSound
<1> QED BY <1>4, <1>5, <1>6, <1>7, <1>8 DEF CallMove

LEMMA CallMovesKeepSound ==
    ASSUME DrawerSound, NEW k \in DOMAIN calls, CallMove(k)
    PROVE  DrawerSound'
<1> DEFINE e == calls[k]
<1>1. /\ e \in Save /\ e.serial \in Serial /\ e.content \in Content /\ e.base \in Nat
      /\ MeantFor(typed, e.content, e.serial) /\ RowsSound(typed, e.answer)
  BY CallIsSave DEF DrawerSound, CallsSound
<1>2. UNCHANGED <<typed, shown, editable, form>>
  BY DEF CallMove, Drawer!BeginSave, Drawer!SendSave, Drawer!LoseSave, Drawer!RefuseSave,
         Drawer!CacheSave, Drawer!RefreshAfterSave, Drawer!screen
<1>3. CallsSound(typed, calls')
  <2>1. PICK step \in SaveStep, base \in Nat, answer \in Rows :
              /\ RowsSound(typed, answer)
              /\ calls' = Moved(calls, k, step, base, answer)
              /\ calls[k].step # "wait" \/ \A j \in 1 .. k - 1 : calls[j].explicit
    BY CallMoves
  <2> DEFINE R == Taking(e, step, base, answer)
  <2>2. /\ R \in Save /\ R.serial = e.serial /\ R.content = e.content
        /\ R.explicit = e.explicit /\ RowsSound(typed, R.answer)
    BY <1>1, <2>1, CallTakesStep DEF RowsSound
  <2>3. calls' = [calls EXCEPT ![k] = R]
    BY <2>1 DEF Moved
  <2> HIDE DEF R
  <2>4. CallsSound(typed, calls)
    BY DEF DrawerSound
  <2>5. CallsSound(typed, [calls EXCEPT ![k] = R])
    BY <2>1, <2>2, <2>4, CallMovedIsSound
  <2> QED BY <2>3, <2>5
<1>4. RefreshesSound(typed, refreshes')
  <2>1. refreshes' \in {refreshes, Drawer!Started}
    BY DEF CallMove, Drawer!BeginSave, Drawer!SendSave, Drawer!LoseSave, Drawer!RefuseSave,
           Drawer!CacheSave, Drawer!RefreshAfterSave
  <2> QED BY <2>1, StartedIsSound DEF DrawerSound
<1>5. FormSound'
  <2>1. drawer' = drawer \/ drawer' = [drawer EXCEPT !.unrefreshed = FALSE]
    BY DEF CallMove, Drawer!BeginSave, Drawer!SendSave, Drawer!LoseSave, Drawer!RefuseSave,
           Drawer!CacheSave, Drawer!RefreshAfterSave
  <2>2. /\ drawer' \in [serial : Serial \cup {Drawer!NoSerial}, seed : Content,
                        unrefreshed : BOOLEAN]
        /\ drawer'.serial = drawer.serial /\ drawer'.seed = drawer.seed
    BY <2>1 DEF DrawerSound, FormSound
  <2> QED BY <1>2, <2>2 DEF DrawerSound, FormSound
<1>6. DeviceSound'
  <2>1. RowsSound(typed, server) /\ RowsSound(typed, cache)
    BY DEF DrawerSound, DeviceSound
  <2>2. RowsSound(typed, server')
    <3>1. server' \in {server, Drawer!Written(e)}
      BY DEF CallMove, Drawer!BeginSave, Drawer!SendSave, Drawer!LoseSave, Drawer!RefuseSave,
             Drawer!CacheSave, Drawer!RefreshAfterSave, Drawer!device
    <3> QED BY <2>1, <3>1, WrittenIsSound
  <2>3. connected' \in BOOLEAN
    BY DEF DrawerSound, DeviceSound, CallMove, Drawer!BeginSave, Drawer!SendSave,
           Drawer!LoseSave, Drawer!RefuseSave, Drawer!CacheSave, Drawer!RefreshAfterSave,
           Drawer!device
  <2>4. RowsSound(typed, cache')
    <3>1. \/ cache' = cache
          \/ cache' = e.answer
          \/ cache' = [cache EXCEPT ![e.serial] = e.answer[e.serial]]
          \/ cache' = [cache EXCEPT ![e.serial] =
                          [version |-> e.base + 1, content |-> e.content]]
      BY DEF CallMove, Drawer!BeginSave, Drawer!SendSave, Drawer!LoseSave, Drawer!RefuseSave,
             Drawer!CacheSave, Drawer!RefreshAfterSave, Drawer!device
    <3>2. e.base + 1 \in Nat
      BY <1>1
    <3>3. /\ RowsSound(typed, [cache EXCEPT ![e.serial] = e.answer[e.serial]])
          /\ RowsSound(typed, [cache EXCEPT ![e.serial] =
                                 [version |-> e.base + 1, content |-> e.content]])
      BY <1>1, <2>1, <3>2, RowReplacedIsSound
    <3> QED BY <1>1, <2>1, <3>1, <3>3
  <2>5. /\ outbox' \in [Serial -> {{}} \cup {{c} : c \in Content}]
        /\ \A s \in Serial : \A c \in outbox'[s] : MeantFor(typed, c, s)
    <3>1. \/ outbox' = outbox
          \/ outbox' = [outbox EXCEPT ![e.serial] = {e.content}]
      BY DEF CallMove, Drawer!BeginSave, Drawer!SendSave, Drawer!LoseSave, Drawer!RefuseSave,
             Drawer!CacheSave, Drawer!RefreshAfterSave, Drawer!device
    <3>2. CASE outbox' = [outbox EXCEPT ![e.serial] = {e.content}]
      <4>1. outbox \in [Serial -> {{}} \cup {{c} : c \in Content}]
        BY DEF DrawerSound, DeviceSound
      <4>2. {e.content} \in {{}} \cup {{c} : c \in Content}
        BY <1>1
      <4>3. \A s \in Serial : outbox'[s] = IF s = e.serial THEN {e.content} ELSE outbox[s]
        BY <1>1, <3>2, <4>1
      <4> QED BY <1>1, <3>2, <4>1, <4>2, <4>3 DEF DrawerSound, DeviceSound
    <3> QED BY <3>1, <3>2 DEF DrawerSound, DeviceSound
  <2> QED BY <1>2, <2>2, <2>3, <2>4, <2>5 DEF DeviceSound
<1>7. ScreenSound'
  BY <1>2 DEF DrawerSound, ScreenSound
<1> QED BY <1>2, <1>3, <1>4, <1>5, <1>6, <1>7 DEF DrawerSound

LEMMA CallEndsKeepSound ==
    ASSUME DrawerSound, NEW k \in DOMAIN calls, Drawer!EndAutosave(k) \/ Drawer!FailSave(k)
    PROVE  DrawerSound'
<1>1. /\ UNCHANGED <<typed, server, cache, outbox, connected, shown, editable>>
      /\ calls' = Drawer!RemoveAt(calls, k)
  BY DEF Drawer!EndAutosave, Drawer!FailSave, Drawer!device, Drawer!screen
<1>2. CallsSound(typed, calls')
  BY <1>1, CallRemovedIsSound DEF DrawerSound
<1>3. RefreshesSound(typed, refreshes')
  <2>1. refreshes' \in {refreshes, Drawer!LessWaiting(refreshes),
                        Drawer!LessWaiting(Drawer!Started)}
    BY DEF Drawer!EndAutosave, Drawer!FailSave
  <2>2. RefreshesSound(typed, Drawer!Started)
    BY StartedIsSound DEF DrawerSound
  <2> QED BY <2>1, <2>2, RefreshesStaySound DEF DrawerSound
<1>4. FormSound'
  <2>1. calls[k].content \in Content
    BY CallIsSave DEF DrawerSound, CallsSound
  <2>2. \/ form' = form
        \/ form' = [form EXCEPT !.saved = calls[k].content]
        \/ form' = [form EXCEPT !.pending = TRUE]
    BY DEF Drawer!EndAutosave, Drawer!FailSave
  <2>3. /\ form' \in [content : Content, saved : Content, pending : BOOLEAN, timer : BOOLEAN]
        /\ form'.content = form.content
    BY <2>1, <2>2 DEF DrawerSound, FormSound
  <2>4. drawer' = drawer \/ drawer' = [drawer EXCEPT !.unrefreshed = TRUE]
    BY DEF Drawer!EndAutosave, Drawer!FailSave
  <2>5. /\ drawer' \in [serial : Serial \cup {Drawer!NoSerial}, seed : Content,
                        unrefreshed : BOOLEAN]
        /\ drawer'.serial = drawer.serial /\ drawer'.seed = drawer.seed
    BY <2>4 DEF DrawerSound, FormSound
  <2> QED BY <1>1, <2>3, <2>5 DEF DrawerSound, FormSound
<1> QED BY <1>1, <1>2, <1>3, <1>4 DEF DrawerSound, DeviceSound, ScreenSound

LEMMA ConnectionsKeepSound ==
    ASSUME DrawerSound, Drawer!Disconnect \/ Drawer!Reconnect
    PROVE  DrawerSound'
<1>1. /\ UNCHANGED <<typed, server, cache, outbox, shown, editable, drawer, form, calls,
                      refreshes>>
      /\ connected' \in BOOLEAN
  BY DEF Drawer!Disconnect, Drawer!Reconnect, Drawer!screen
<1>2. DeviceSound' /\ ScreenSound' /\ FormSound'
  BY <1>1 DEF DrawerSound, DeviceSound, ScreenSound, FormSound
<1> QED BY <1>1, <1>2 DEF DrawerSound

LEMMA DrawerStepKeepsSound ==
    ASSUME DrawerSound, Drawer!SerialDrawerNext
    PROVE  DrawerSound'
BY TypeKeepsSound, FormStepsKeepSound, MovingOnKeepsSound, ClosingKeepsSound,
   RefreshStepsKeepSound, CallMovesKeepSound, CallEndsKeepSound, ConnectionsKeepSound
   DEF Drawer!SerialDrawerNext, Drawer!CallStep, CallMove, Serial

----------------------------------------------------------------------------
(* The drawer: the draft of a serial that is not excused.                  *)

LEMMA AppendedCarries ==
    ASSUME NEW C \in Seq(Save), NEW e \in Save, e.step = "wait"
    PROVE  LET D == Append(C, e) IN
           /\ \A s, c, l : Carries(C, s, c, l) /\ (e.serial = s => e.content = c)
                              => Carries(D, s, c, l)
           /\ \A s : Names(C, s) \/ e.serial = s => Names(D, s)
           /\ \A s : OnlyFrom(C, s) /\ e.serial = s /\ e.here => OnlyFrom(D, s)
           /\ D # << >>
<1> DEFINE D == Append(C, e)
<1>1. /\ D # << >> /\ DOMAIN C \subseteq DOMAIN D /\ Len(D) \in DOMAIN D
      /\ \A j \in DOMAIN C : D[j] = C[j]
      /\ \A j \in DOMAIN D : j \in DOMAIN C \/ j = Len(D)
      /\ D[Len(D)] = e
  BY OneAppended
<1> HIDE DEF D
<1>2. \A s, c, l : Carries(C, s, c, l) /\ (e.serial = s => e.content = c) => Carries(D, s, c, l)
  BY <1>1 DEF Carries, Settled
<1>3. \A s : Names(C, s) \/ e.serial = s => Names(D, s)
  BY <1>1 DEF Names
<1>4. \A s : OnlyFrom(C, s) /\ e.serial = s /\ e.here => OnlyFrom(D, s)
  BY <1>1 DEF OnlyFrom
<1> QED BY <1>1, <1>2, <1>3, <1>4 DEF D

LEMMA MovedCarries ==
    ASSUME NEW C \in Seq(Save), NEW k \in DOMAIN C,
           NEW step \in SaveStep, NEW base \in Nat, NEW answer \in Rows
    PROVE  LET D == Moved(C, k, step, base, answer) IN
           /\ \A s, c, l, m : /\ Carries(C, s, c, l) /\ m \in {l, c}
                              /\ C[k].serial = s /\ step \in Settled => m = c
                              => Carries(D, s, c, m)
           /\ \A s : Names(C, s) => Names(D, s)
           /\ \A s : OnlyFrom(C, s) => OnlyFrom(D, s)
           /\ C # << >> /\ D # << >>
<1> DEFINE D == Moved(C, k, step, base, answer)
           R == Taking(C[k], step, base, answer)
<1>1. C[k] \in Save
  BY CallIsSave
<1>2. /\ R.serial = C[k].serial /\ R.content = C[k].content /\ R.here = C[k].here /\ R.step = step
  BY <1>1, CallTakesStep
<1>3. D = [C EXCEPT ![k] = R]
  BY DEF Moved
<1> HIDE DEF R, D
<1>4. /\ DOMAIN D = DOMAIN C /\ D[k] = R
      /\ \A j \in DOMAIN C : j # k => D[j] = C[j]
  BY <1>3
<1>5. \A s, c, l, m : /\ Carries(C, s, c, l) /\ m \in {l, c}
                      /\ C[k].serial = s /\ step \in Settled => m = c
                      => Carries(D, s, c, m)
  BY <1>2, <1>4 DEF Carries
<1>6. \A s : Names(C, s) => Names(D, s)
  BY <1>2, <1>4 DEF Names
<1>7. \A s : OnlyFrom(C, s) => OnlyFrom(D, s)
  BY <1>2, <1>4 DEF OnlyFrom
<1>8. C # << >> /\ D # << >>
  BY <1>4, EmptySeq
<1> QED BY <1>5, <1>6, <1>7, <1>8 DEF D

LEMMA RemovedCarries ==
    ASSUME NEW C \in Seq(Save), NEW k \in DOMAIN C
    PROVE  LET D == Drawer!RemoveAt(C, k) IN
           /\ \A s, c, l : Carries(C, s, c, l) => Carries(D, s, c, l)
           /\ \A s : Names(C, s) => Names(D, s) \/ C[k].serial = s
           /\ \A s : OnlyFrom(C, s) => OnlyFrom(D, s)
<1> DEFINE D == Drawer!RemoveAt(C, k)
<1>1. /\ \A j \in DOMAIN D : \E i \in DOMAIN C : D[j] = C[i]
      /\ \A i \in DOMAIN C : i # k => \E j \in DOMAIN D : D[j] = C[i]
  BY OthersRemain
<1> HIDE DEF D
<1>2. \A s, c, l : Carries(C, s, c, l) => Carries(D, s, c, l)
  BY <1>1 DEF Carries
<1>3. \A s : Names(C, s) => Names(D, s) \/ C[k].serial = s
  BY <1>1 DEF Names
<1>4. \A s : OnlyFrom(C, s) => OnlyFrom(D, s)
  BY <1>1 DEF OnlyFrom
<1> QED BY <1>2, <1>3, <1>4 DEF D

LEMMA OrphansCarry ==
    ASSUME NEW T, NEW C, CallsSound(T, C)
    PROVE  LET D == Drawer!Orphaned(C) IN
           /\ \A s, c, l : Carries(C, s, c, l) => Carries(D, s, c, l)
           /\ \A s : Names(C, s) => Names(D, s)
<1> DEFINE D == Drawer!Orphaned(C)
<1>1. /\ DOMAIN D = DOMAIN C
      /\ \A k \in DOMAIN C : /\ D[k].serial = C[k].serial /\ D[k].content = C[k].content
                             /\ D[k].step = C[k].step
  BY OrphansAreSound
<1> HIDE DEF D
<1> QED BY <1>1 DEF Carries, Names, D

(* The latest content of a serial is queued or on the server.              *)
LEMMA LatestIs ==
    ASSUME NEW s
    PROVE  /\ outbox[s] = {} => Drawer!Latest(s) = server[s].content
           /\ \A x : outbox[s] = {x} => Drawer!Latest(s) = x
BY DEF Drawer!Latest

LEMMA LatestBecomes ==
    ASSUME NEW s
    PROVE  /\ outbox'[s] = {} => Drawer!Latest(s)' = server'[s].content
           /\ \A x : outbox'[s] = {x} => Drawer!Latest(s)' = x
BY DEF Drawer!Latest

LEMMA LatestStays ==
    ASSUME NEW s, server'[s].content = server[s].content, outbox'[s] = outbox[s]
    PROVE  Drawer!Latest(s)' = Drawer!Latest(s)
BY DEF Drawer!Latest

LEMMA LatestIsContent ==
    ASSUME DrawerSound, NEW s \in Serial
    PROVE  /\ Drawer!Latest(s) \in Content
           /\ outbox[s] = {} \/ \E x : outbox[s] = {x}
<1>1. outbox[s] \in {{}} \cup {{c} : c \in Content}
  BY DEF DrawerSound, DeviceSound
<1>2. server[s].content \in Content
  BY DEF DrawerSound, DeviceSound, RowsSound, Rows
<1> QED BY <1>1, <1>2, LatestIs

(* What closing, moving on or a pause of the typing sends.                 *)
LEMMA FlushFollows ==
    ASSUME DrawerSound, NEW s \in Serial, NEW c \in Content, DraftIs(s, c)
    PROVE  LET D == Drawer!WithDraft(drawer.serial) IN
           /\ D \in Seq(Save) /\ DOMAIN calls \subseteq DOMAIN D
           /\ \A k \in DOMAIN calls : D[k] = calls[k]
           /\ Carries(D, s, c, Drawer!Latest(s))
           /\ drawer.serial = s => OnlyFrom(D, s)
           /\ D = << >> => calls = << >>
           /\ Drawer!Latest(s) = c \/ (drawer.serial = s /\ Drawer!StillPending) \/ Names(D, s)
<1> DEFINE D == Drawer!WithDraft(drawer.serial)
<1>1. calls \in Seq(Save) /\ editable \in BOOLEAN /\ form.pending \in BOOLEAN
  BY DEF DrawerSound, CallsSound, ScreenSound, FormSound
<1>2. CASE Drawer!DraftToSave
  <2> DEFINE e == Drawer!Call(drawer.serial, FALSE)
  <2>1. drawer.serial \in Serial
    BY <1>2 DEF Drawer!DraftToSave, Drawer!IsOpen, DrawerSound, FormSound
  <2>2. /\ e \in Save /\ e.step = "wait" /\ e.serial = drawer.serial
        /\ e.content = form.content /\ e.here
    BY <2>1, NewCallIsSound
  <2>3. D = Append(calls, e)
    BY <1>2 DEF Drawer!WithDraft
  <2> HIDE DEF e, D
  <2>4. drawer.serial = s => form.content = c
    BY DEF DraftIs
  <2>5. /\ D \in Seq(Save) /\ DOMAIN calls \subseteq DOMAIN D
        /\ \A k \in DOMAIN calls : D[k] = calls[k]
    BY <1>1, <2>2, <2>3, OneAppended
  <2>6. Carries(D, s, c, Drawer!Latest(s))
    BY <1>1, <2>2, <2>3, <2>4, AppendedCarries DEF DraftIs
  <2>7. /\ drawer.serial = s => OnlyFrom(D, s) /\ Names(D, s)
        /\ Names(calls, s) => Names(D, s)
        /\ D # << >>
    BY <1>1, <2>2, <2>3, AppendedCarries DEF DraftIs
  <2> QED BY <2>5, <2>6, <2>7 DEF DraftIs, D
<1>3. CASE ~Drawer!DraftToSave
  <2>1. D = calls
    BY <1>3 DEF Drawer!WithDraft
  <2>2. ASSUME drawer.serial = s, form.pending, ~Drawer!StillPending
        PROVE  Drawer!Latest(s) = c \/ Names(calls, s)
    <3>1. form.content = form.saved
      BY <1>1, <1>3, <2>2, SerialIsPositive
         DEF Drawer!DraftToSave, Drawer!StillPending, Drawer!IsOpen
    <3>2. CASE calls = << >>
      BY <2>2, <3>1, <3>2 DEF DraftIs
    <3>3. CASE calls # << >>
      <4>1. 1 \in DOMAIN calls
        BY <1>1, <3>3
      <4> QED BY <2>2, <4>1 DEF DraftIs, OnlyFrom, Names
    <3> QED BY <3>2, <3>3
  <2> QED BY <1>1, <2>1, <2>2 DEF DraftIs
<1> QED BY <1>2, <1>3

(* Steps that no draft depends on.                                         *)
LEMMA OtherStepsFollow ==
    ASSUME DrawerInvariant,
           \/ Drawer!Renew \/ Drawer!TurnReadOnly \/ Drawer!Disconnect \/ Drawer!Reconnect
           \/ \E k \in DOMAIN refreshes : Drawer!RefreshStep(k)
    PROVE  DraftsFollowed'
<1>1. /\ UNCHANGED <<typed, server, outbox, drawer, calls, excused>>
      /\ form'.content = form.content /\ form'.saved = form.saved
      /\ form.pending => form'.pending
  <2>1. form \in [content : Content, saved : Content, pending : BOOLEAN, timer : BOOLEAN]
    BY DEF DrawerInvariant, DrawerSound, FormSound
  <2>2. form' = form \/ form' = [form EXCEPT !.pending = TRUE, !.timer = TRUE]
    BY DEF Drawer!Renew, Drawer!TurnReadOnly, Drawer!Disconnect, Drawer!Reconnect,
           Drawer!RefreshStep, Drawer!StartDue, Drawer!PullChild, Drawer!PutChild,
           Drawer!ReadRows, Drawer!ApplyRows
  <2>3. /\ form'.content = form.content /\ form'.saved = form.saved
        /\ form.pending => form'.pending
    BY <2>1, <2>2
  <2> QED BY <2>3
          DEF Drawer!Renew, Drawer!TurnReadOnly, Drawer!Disconnect, Drawer!Reconnect,
              Drawer!RefreshStep, Drawer!StartDue, Drawer!PullChild, Drawer!PutChild,
              Drawer!ReadRows, Drawer!ApplyRows, Drawer!device
<1>2. ASSUME NEW s \in Serial, NEW c \in Content, DraftIs(s, c)
      PROVE  DraftIs(s, c)'
  <2>1. Drawer!Latest(s)' = Drawer!Latest(s)
    BY <1>1, LatestStays
  <2> QED BY <1>1, <1>2, <2>1 DEF DraftIs
<1> QED BY <1>1, <1>2 DEF DrawerInvariant, DraftsFollowed

LEMMA TypeFollows ==
    ASSUME DrawerInvariant, NEW f \in DrawerField, NEW v \in Drawer!Filling, Drawer!Type(f, v)
    PROVE  DraftsFollowed'
<1> DEFINE t == drawer.serial
<1>1. t \in Serial /\ DrawerSound
  BY DEF Drawer!Type, Drawer!IsOpen, DrawerInvariant, DrawerSound, FormSound
<1>2. /\ UNCHANGED <<server, outbox, drawer, calls>>
      /\ typed' = [typed EXCEPT ![t][f] = v] /\ typed \in Typing
      /\ excused \subseteq excused' /\ (calls # << >> => t \in excused')
  BY <1>1 DEF Drawer!Type, Drawer!device, DrawerSound
<1>3. /\ form'.content = [form.content EXCEPT ![f] = v] /\ form'.saved = form.saved
      /\ form'.pending = TRUE /\ form.content \in Content
  <2>1. form \in [content : Content, saved : Content, pending : BOOLEAN, timer : BOOLEAN]
    BY <1>1 DEF DrawerSound, FormSound
  <2> QED BY <2>1 DEF Drawer!Type
<1>4. ASSUME NEW s \in Serial, s \notin excused', NEW c \in Content, DraftIs(s, c)
      PROVE  \E d \in Content : DraftIs(s, d)'
  <2>1. Drawer!Latest(s)' = Drawer!Latest(s)
    BY <1>2, LatestStays
  <2>2. CASE s # t
    <3>1. typed'[s] = typed[s]
      BY <1>1, <1>2, <2>2 DEF Typing
    <3>2. AsTyped(typed', c, s)
      BY <1>4, <3>1 DEF DraftIs, AsTyped
    <3>3. DraftIs(s, c)'
      BY <1>2, <1>4, <2>1, <2>2, <3>2 DEF DraftIs
    <3> QED BY <3>3
  <2>3. CASE s = t
    <3>0. PICK d \in Content : d = form'.content
      BY <1>3 DEF Content
    <3>1. d[f] = v /\ \A g \in DrawerField : g # f => d[g] = form.content[g]
      BY <1>3, <3>0 DEF Content
    <3>2. /\ typed'[s][f] = v
          /\ \A g \in DrawerField : g # f => typed'[s][g] = typed[s][g]
      BY <1>1, <1>2, <2>3 DEF Typing
    <3>3. AsTyped(typed', d, s)
      BY <1>4, <2>3, <3>1, <3>2 DEF DraftIs, AsTyped
    <3>4. calls = << >>
      BY <1>2, <1>4, <2>3
    <3>5. Carries(calls, s, d, Drawer!Latest(s)) /\ OnlyFrom(calls, s)
      BY <3>4 DEF Carries, OnlyFrom
    <3>6. DraftIs(s, d)'
      BY <1>2, <1>3, <1>4, <2>1, <2>3, <3>0, <3>3, <3>4, <3>5 DEF DraftIs
    <3> QED BY <3>6
  <2> QED BY <2>2, <2>3
<1> QED BY <1>2, <1>4 DEF DrawerInvariant, DraftsFollowed

LEMMA FormStepsFollow ==
    ASSUME DrawerInvariant, Drawer!SaveDraft \/ Drawer!DefinitionArrives
    PROVE  DraftsFollowed'
<1> DEFINE D == Drawer!WithDraft(drawer.serial)
<1>1. /\ UNCHANGED <<typed, server, outbox, drawer>> /\ calls' = D
      /\ excused \subseteq excused' /\ DrawerSound
  BY DEF Drawer!SaveDraft, Drawer!DefinitionArrives, Drawer!device, DrawerInvariant
<1>2. \/ /\ form'.content = form.content /\ form'.saved = form.saved
         /\ form'.pending = Drawer!StillPending
      \/ drawer.serial \in excused'
  <2>1. form \in [content : Content, saved : Content, pending : BOOLEAN, timer : BOOLEAN]
    BY <1>1 DEF DrawerSound, FormSound
  <2> QED BY <2>1 DEF Drawer!SaveDraft, Drawer!DefinitionArrives
<1>3. ASSUME NEW s \in Serial, s \notin excused', NEW c \in Content, DraftIs(s, c)
      PROVE  DraftIs(s, c)'
  <2>1. Drawer!Latest(s)' = Drawer!Latest(s)
    BY <1>1, LatestStays
  <2>2. /\ Carries(D, s, c, Drawer!Latest(s))
        /\ drawer.serial = s => OnlyFrom(D, s)
        /\ D = << >> => calls = << >>
        /\ Drawer!Latest(s) = c \/ (drawer.serial = s /\ Drawer!StillPending) \/ Names(D, s)
    BY <1>1, <1>3, FlushFollows
  <2> HIDE DEF D
  <2> QED BY <1>1, <1>2, <1>3, <2>1, <2>2 DEF DraftIs
<1> QED BY <1>1, <1>3 DEF DrawerInvariant, DraftsFollowed

LEMMA SubmitFollows ==
    ASSUME DrawerInvariant, Drawer!Submit
    PROVE  DraftsFollowed'
<1> DEFINE e == Drawer!Call(drawer.serial, TRUE)
<1>1. drawer.serial \in Serial /\ DrawerSound /\ form.content \in Content /\ calls \in Seq(Save)
  BY DEF Drawer!Submit, Drawer!IsOpen, DrawerInvariant, DrawerSound, FormSound, CallsSound
<1>2. /\ UNCHANGED <<typed, server, outbox, drawer>> /\ calls' = Append(calls, e)
      /\ excused \subseteq excused' /\ (calls # << >> => drawer.serial \in excused')
      /\ form'.content = form.content
  BY <1>1, ArmedForm DEF Drawer!Submit, Drawer!device
<1>3. /\ e \in Save /\ e.step = "wait" /\ e.serial = drawer.serial
      /\ e.content = form.content /\ e.here
  BY <1>1, NewCallIsSound
<1> HIDE DEF e
<1>4. ASSUME NEW s \in Serial, s \notin excused', NEW c \in Content, DraftIs(s, c)
      PROVE  DraftIs(s, c)'
  <2>1. Drawer!Latest(s)' = Drawer!Latest(s)
    BY <1>2, LatestStays
  <2>2. drawer.serial = s => form.content = c /\ OnlyFrom(calls, s)
    BY <1>4 DEF DraftIs
  <2>3. Carries(calls', s, c, Drawer!Latest(s))
    BY <1>1, <1>2, <1>3, <1>4, <2>2, AppendedCarries DEF DraftIs
  <2>4. /\ drawer.serial = s => OnlyFrom(calls', s) /\ Names(calls', s)
        /\ Names(calls, s) => Names(calls', s)
        /\ calls' # << >>
    BY <1>1, <1>2, <1>3, <2>2, AppendedCarries
  <2> QED BY <1>2, <1>4, <2>1, <2>2, <2>3, <2>4 DEF DraftIs
<1> QED BY <1>2, <1>4 DEF DrawerInvariant, DraftsFollowed

LEMMA MovingOnFollows ==
    ASSUME DrawerInvariant, NEW t \in Serial, Drawer!OpenDrawer(t) \/ Drawer!GoTo(t)
    PROVE  DraftsFollowed'
<1> DEFINE D == Drawer!WithDraft(drawer.serial)
<1>1. /\ UNCHANGED <<typed, server, outbox>>
      /\ excused \subseteq excused' /\ DrawerSound
      /\ calls' # << >> \/ shown[t] # Drawer!Latest(t) => t \in excused'
      /\ Drawer!StillPending => drawer.serial \in excused'
      /\ form' = Drawer!Armed(shown[t])
  BY DEF Drawer!OpenDrawer, Drawer!GoTo, Drawer!OpenOn, Drawer!device, DrawerInvariant
<1>2. calls' = D
  BY DEF Drawer!OpenDrawer, Drawer!GoTo, Drawer!FlushesOutgoing, Drawer!WithDraft,
         Drawer!DraftToSave
<1>3. drawer'.serial = t
  <2>1. drawer \in [serial : Serial \cup {Drawer!NoSerial}, seed : Content, unrefreshed : BOOLEAN]
    BY <1>1 DEF DrawerSound, FormSound
  <2>2. drawer' = [drawer EXCEPT !.serial = t, !.seed = shown[t]]
    BY DEF Drawer!OpenDrawer, Drawer!GoTo, Drawer!OpenOn
  <2> QED BY <2>1, <2>2
<1>4. form'.content = shown[t] /\ form'.saved = shown[t]
  <2>1. shown[t] \in Content
    BY <1>1 DEF DrawerSound, ScreenSound
  <2> QED BY <1>1, <2>1, ArmedForm
<1>5. ASSUME NEW s \in Serial, s \notin excused', NEW c \in Content, DraftIs(s, c)
      PROVE  DraftIs(s, c)'
  <2>1. Drawer!Latest(s)' = Drawer!Latest(s)
    BY <1>1, LatestStays
  <2>2. /\ Carries(D, s, c, Drawer!Latest(s))
        /\ Drawer!Latest(s) = c \/ (drawer.serial = s /\ Drawer!StillPending) \/ Names(D, s)
    BY <1>1, <1>5, FlushFollows
  <2>3. Drawer!Latest(s) = c \/ Names(D, s)
    BY <1>1, <1>5, <2>2
  <2> HIDE DEF D
  <2>4. CASE s = t
    <3>1. calls' = << >> /\ shown[t] = Drawer!Latest(s)
      BY <1>1, <1>5, <2>4
    <3>2. ~Names(D, s) /\ OnlyFrom(calls', s)
      BY <1>2, <3>1 DEF Names, OnlyFrom
    <3> QED BY <1>1, <1>2, <1>3, <1>4, <1>5, <2>1, <2>2, <2>3, <2>4, <3>1, <3>2 DEF DraftIs
  <2>5. CASE s # t
    BY <1>1, <1>2, <1>3, <1>5, <2>1, <2>2, <2>3, <2>5 DEF DraftIs
  <2> QED BY <2>4, <2>5
<1> QED BY <1>1, <1>5 DEF DrawerInvariant, DraftsFollowed

LEMMA ClosingFollows ==
    ASSUME DrawerInvariant,
           Drawer!CloseDrawer \/ \E k \in DOMAIN calls : Drawer!CloseAfterSave(k)
    PROVE  DraftsFollowed'
<1> DEFINE D == Drawer!WithDraft(drawer.serial)
<1>1. /\ UNCHANGED <<typed, server, outbox>> /\ drawer' = Drawer!Closed
      /\ excused \subseteq excused' /\ DrawerSound
      /\ Drawer!StillPending => drawer.serial \in excused'
  BY DEF Drawer!CloseDrawer, Drawer!CloseAfterSave, Drawer!Shut, Drawer!device, DrawerInvariant
<1>2. drawer'.serial = Drawer!NoSerial
  BY <1>1 DEF Drawer!Closed
<1>3. CallsSound(typed, D) /\ D \in Seq(Save)
  BY <1>1, WithDraftIsSound DEF CallsSound
<1>4. PICK C : /\ calls' = Drawer!Orphaned(C)
               /\ \/ C = D
                  \/ \E k \in DOMAIN calls : /\ C = Drawer!RemoveAt(D, k)
                                             /\ calls[k].step \in Settled
  <2>1. CASE Drawer!CloseDrawer
    BY <2>1 DEF Drawer!CloseDrawer, Drawer!Shut, Drawer!FlushesOnDestroy
  <2>2. ASSUME NEW k \in DOMAIN calls, Drawer!CloseAfterSave(k)
        PROVE  calls' = Drawer!Orphaned(Drawer!RemoveAt(D, k)) /\ calls[k].step \in Settled
    BY <2>2 DEF Drawer!CloseAfterSave, Drawer!Shut, Drawer!FlushesOnDestroy, Settled
  <2> QED BY <2>1, <2>2
<1>5. ASSUME NEW s \in Serial, s \notin excused', NEW c \in Content, DraftIs(s, c)
      PROVE  DraftIs(s, c)'
  <2>1. Drawer!Latest(s)' = Drawer!Latest(s)
    BY <1>1, LatestStays
  <2>2. /\ DOMAIN calls \subseteq DOMAIN D /\ \A k \in DOMAIN calls : D[k] = calls[k]
        /\ Carries(D, s, c, Drawer!Latest(s))
        /\ Drawer!Latest(s) = c \/ (drawer.serial = s /\ Drawer!StillPending) \/ Names(D, s)
    BY <1>1, <1>5, FlushFollows
  <2>3. Drawer!Latest(s) = c \/ Names(D, s)
    BY <1>1, <1>5, <2>2
  <2> HIDE DEF D
  <2>4. /\ CallsSound(typed, C) /\ Carries(C, s, c, Drawer!Latest(s))
        /\ Drawer!Latest(s) = c \/ Names(C, s)
    <3>1. CASE C = D
      BY <1>3, <2>2, <2>3, <3>1
    <3>2. ASSUME NEW k \in DOMAIN calls, C = Drawer!RemoveAt(D, k), calls[k].step \in Settled
          PROVE  /\ CallsSound(typed, C) /\ Carries(C, s, c, Drawer!Latest(s))
                 /\ Drawer!Latest(s) = c \/ Names(C, s)
      <4>1. k \in DOMAIN D /\ D[k] = calls[k]
        BY <2>2
      <4>2. D[k].serial = s => Drawer!Latest(s) = c
        BY <2>2, <3>2, <4>1 DEF Carries
      <4>3. /\ Carries(C, s, c, Drawer!Latest(s))
            /\ Names(D, s) => Names(C, s) \/ D[k].serial = s
        BY <1>3, <2>2, <3>2, <4>1, RemovedCarries
      <4>4. CallsSound(typed, C)
        BY <1>3, <3>2, <4>1, CallRemovedIsSound
      <4> QED BY <2>3, <4>2, <4>3, <4>4
    <3> QED BY <1>4, <3>1, <3>2
  <2>5. /\ Carries(calls', s, c, Drawer!Latest(s))
        /\ Names(C, s) => Names(calls', s)
    BY <1>4, <2>4, OrphansCarry
  <2>6. drawer'.serial # s
    BY <1>2, SerialIsPositive
  <2> QED BY <1>1, <1>5, <2>1, <2>4, <2>5, <2>6 DEF DraftIs
<1> QED BY <1>1, <1>5 DEF DrawerInvariant, DraftsFollowed

(* A call that moves on makes its own content the latest, or leaves the    *)
(* latest as it was.                                                       *)
LEMMA CallMovesLatest ==
    ASSUME DrawerSound, NEW k \in DOMAIN calls, CallMove(k),
           NEW s \in Serial, s \notin excused', NEW c \in Content, DraftIs(s, c)
    PROVE  /\ Drawer!Latest(s)' \in {Drawer!Latest(s), c}
           /\ /\ calls[k].serial = s
              /\ Drawer!SendSave(k) \/ Drawer!CacheSave(k) \/ calls[k].step = "saved"
              => Drawer!Latest(s)' = c
<1> DEFINE e == calls[k]
<1>1. /\ e.serial = s => e.content = c
      /\ e.serial = s /\ e.step \in Settled => Drawer!Latest(s) = c
  BY DEF DraftIs, Carries
<1>2. \A r \in Serial : Drawer!Written(e)[r].content = IF r = e.serial THEN e.content
                                                        ELSE server[r].content
  BY WrittenIsSound
<1>3. outbox \in [Serial -> {{}} \cup {{x} : x \in Content}] /\ e.serial \in Serial
  BY CallIsSave DEF DrawerSound, DeviceSound, CallsSound
<1>4. outbox[s] = {} \/ \E x : outbox[s] = {x}
  BY LatestIsContent
<1>5. CASE Drawer!SendSave(k)
  <2>1. /\ server' = Drawer!Written(e) /\ outbox' = outbox
        /\ outbox[e.serial] # {} => e.serial \in excused'
    BY <1>5 DEF Drawer!SendSave
  <2>2. CASE e.serial = s
    <3>1. outbox'[s] = {} /\ server'[s].content = c
      BY <1>1, <1>2, <2>1, <2>2
    <3> QED BY <3>1, LatestBecomes
  <2>3. CASE e.serial # s
    BY <1>2, <2>1, <2>3, LatestStays
  <2> QED BY <2>2, <2>3
<1>6. CASE Drawer!LoseSave(k)
  <2>1. server' \in {server, Drawer!Written(e)} /\ outbox' = outbox /\ e.step = "send"
    BY <1>6 DEF Drawer!LoseSave
  <2>2. Drawer!Latest(s)' \in {Drawer!Latest(s), c}
    <3>1. CASE server'[s].content = server[s].content
      BY <2>1, <3>1, LatestStays
    <3>2. CASE e.serial = s /\ server' = Drawer!Written(e) /\ outbox[s] = {}
      <4>1. server'[s].content = c
        BY <1>1, <1>2, <3>2
      <4> QED BY <2>1, <3>2, <4>1, LatestBecomes
    <3>3. CASE \E x : outbox[s] = {x}
      BY <2>1, <3>3, LatestIs, LatestBecomes
    <3> QED BY <1>2, <1>4, <2>1, <3>1, <3>2, <3>3
  <2>3. ~Drawer!CacheSave(k) /\ e.step # "saved"
    BY <2>1 DEF Drawer!CacheSave
  <2>4. ASSUME e.serial = s, Drawer!SendSave(k)
        PROVE  Drawer!Latest(s)' = c
    BY <1>5, <2>4
  <2> QED BY <2>2, <2>3, <2>4
<1>7. CASE Drawer!CacheSave(k)
  <2>1. server' = server
    BY <1>7 DEF Drawer!CacheSave
  <2>2. CASE e.step = "cache" /\ outbox' = outbox
    BY <1>1, <2>1, <2>2, LatestStays DEF Settled
  <2>3. CASE outbox' = [outbox EXCEPT ![e.serial] = {e.content}]
    <3>1. \A r \in Serial : outbox'[r] = IF r = e.serial THEN {e.content} ELSE outbox[r]
      BY <1>3, <2>3
    <3> QED BY <1>1, <2>1, <3>1, LatestStays, LatestBecomes
  <2> QED BY <1>7, <2>2, <2>3 DEF Drawer!CacheSave
<1>8. CASE Drawer!BeginSave(k) \/ Drawer!RefuseSave(k) \/ Drawer!RefreshAfterSave(k)
  <2>1. /\ server' = server /\ outbox' = outbox
        /\ ~Drawer!SendSave(k) \/ Drawer!RefuseSave(k)
        /\ ~Drawer!CacheSave(k)
    BY <1>8 DEF Drawer!BeginSave, Drawer!RefuseSave, Drawer!RefreshAfterSave, Drawer!device,
                Drawer!SendSave, Drawer!CacheSave
  <2>2. Drawer!Latest(s)' = Drawer!Latest(s)
    BY <2>1, LatestStays
  <2>3. ASSUME Drawer!SendSave(k), e.serial = s
        PROVE  Drawer!Latest(s)' = c
    BY <1>5, <2>3
  <2> QED BY <1>1, <2>1, <2>2, <2>3 DEF Settled
<1> QED BY <1>5, <1>6, <1>7, <1>8 DEF CallMove

LEMMA CallMovesFollow ==
    ASSUME DrawerInvariant, NEW k \in DOMAIN calls, CallMove(k)
    PROVE  DraftsFollowed'
<1> DEFINE e == calls[k]
<1>1. DrawerSound /\ calls \in Seq(Save) /\ e \in Save
  BY CallIsSave DEF DrawerInvariant, DrawerSound, CallsSound
<1>2. UNCHANGED <<typed, form>> /\ excused \subseteq excused'
  BY DEF CallMove, Drawer!BeginSave, Drawer!SendSave, Drawer!LoseSave, Drawer!RefuseSave,
         Drawer!CacheSave, Drawer!RefreshAfterSave
<1>3. drawer'.serial = drawer.serial
  <2>1. drawer' = drawer \/ drawer' = [drawer EXCEPT !.unrefreshed = FALSE]
    BY DEF CallMove, Drawer!BeginSave, Drawer!SendSave, Drawer!LoseSave, Drawer!RefuseSave,
           Drawer!CacheSave, Drawer!RefreshAfterSave
  <2> QED BY <1>1, <2>1 DEF DrawerSound, FormSound
<1>4. PICK step \in SaveStep, base \in Nat, answer \in Rows :
          /\ calls' = Moved(calls, k, step, base, answer)
          /\ step \in Settled => Drawer!SendSave(k) \/ Drawer!CacheSave(k) \/ e.step = "saved"
  BY <1>1, CallMoves
<1>5. ASSUME NEW s \in Serial, s \notin excused', NEW c \in Content, DraftIs(s, c)
      PROVE  DraftIs(s, c)'
  <2>1. PICK m : m = Drawer!Latest(s)'
    OBVIOUS
  <2>2. /\ m \in {Drawer!Latest(s), c}
        /\ e.serial = s /\ step \in Settled => m = c
    BY <1>1, <1>4, <1>5, <2>1, CallMovesLatest
  <2>3. Carries(calls, s, c, Drawer!Latest(s))
    BY <1>5 DEF DraftIs
  <2>4. Carries(calls', s, c, m)
    BY <1>1, <1>4, <2>2, <2>3, MovedCarries
  <2>5. /\ Names(calls, s) => Names(calls', s)
        /\ OnlyFrom(calls, s) => OnlyFrom(calls', s)
        /\ calls' # << >>
    BY <1>1, <1>4, MovedCarries
  <2>6. /\ drawer.serial = s => form.content = c /\ OnlyFrom(calls, s)
        /\ Drawer!Latest(s) = c \/ (drawer.serial = s /\ form.pending) \/ Names(calls, s)
        /\ AsTyped(typed, c, s)
    BY <1>5 DEF DraftIs
  <2>7. m = c \/ (drawer.serial = s /\ form.pending) \/ Names(calls', s)
    BY <2>2, <2>5, <2>6
  <2> QED BY <1>2, <1>3, <2>1, <2>4, <2>5, <2>6, <2>7 DEF DraftIs
<1> QED BY <1>2, <1>5 DEF DrawerInvariant, DraftsFollowed

LEMMA CallEndsFollow ==
    ASSUME DrawerInvariant, NEW k \in DOMAIN calls, Drawer!EndAutosave(k) \/ Drawer!FailSave(k)
    PROVE  DraftsFollowed'
<1> DEFINE e == calls[k]
<1>1. DrawerSound /\ calls \in Seq(Save) /\ e \in Save
  BY CallIsSave DEF DrawerInvariant, DrawerSound, CallsSound
<1>2. /\ UNCHANGED <<typed, server, outbox>> /\ excused \subseteq excused'
      /\ calls' = Drawer!RemoveAt(calls, k)
  BY DEF Drawer!EndAutosave, Drawer!FailSave, Drawer!device
<1>3. drawer'.serial = drawer.serial
  <2>1. drawer' = drawer \/ drawer' = [drawer EXCEPT !.unrefreshed = TRUE]
    BY DEF Drawer!EndAutosave, Drawer!FailSave
  <2> QED BY <1>1, <2>1 DEF DrawerSound, FormSound
<1>4. /\ form'.content = form.content
      /\ form.pending => form'.pending
      /\ Drawer!EndAutosave(k) /\ e.here => form'.saved = e.content
  <2>1. form \in [content : Content, saved : Content, pending : BOOLEAN, timer : BOOLEAN]
    BY <1>1 DEF DrawerSound, FormSound
  <2>2. \/ form' = form
        \/ form' = [form EXCEPT !.saved = e.content]
        \/ form' = [form EXCEPT !.pending = TRUE]
    BY DEF Drawer!EndAutosave, Drawer!FailSave
  <2>3. Drawer!EndAutosave(k) /\ e.here => form' = [form EXCEPT !.saved = e.content]
    BY DEF Drawer!EndAutosave
  <2> QED BY <2>1, <2>2, <2>3
<1>5. ASSUME NEW s \in Serial, s \notin excused', NEW c \in Content, DraftIs(s, c)
      PROVE  DraftIs(s, c)'
  <2>1. Drawer!Latest(s)' = Drawer!Latest(s)
    BY <1>2, LatestStays
  <2>2. /\ Carries(calls, s, c, Drawer!Latest(s)) /\ AsTyped(typed, c, s)
        /\ drawer.serial = s => form.content = c /\ OnlyFrom(calls, s)
        /\ Drawer!Latest(s) = c \/ (drawer.serial = s /\ form.pending) \/ Names(calls, s)
    BY <1>5 DEF DraftIs
  <2>3. /\ Carries(calls', s, c, Drawer!Latest(s))
        /\ Names(calls, s) => Names(calls', s) \/ e.serial = s
        /\ OnlyFrom(calls, s) => OnlyFrom(calls', s)
    BY <1>1, <1>2, <2>2, RemovedCarries
  <2>4. CASE Drawer!EndAutosave(k)
    <3>1. e.step = "saved"
      BY <2>4 DEF Drawer!EndAutosave
    <3>2. e.serial = s => e.content = c /\ Drawer!Latest(s) = c
      BY <2>2, <3>1 DEF Carries, Settled
    <3>3. drawer.serial = s => form'.saved = Drawer!Latest(s)
      BY <1>4, <2>2, <2>4, <3>2 DEF OnlyFrom
    <3> QED BY <1>2, <1>3, <1>4, <2>1, <2>2, <2>3, <3>2, <3>3 DEF DraftIs
  <2>5. CASE Drawer!FailSave(k)
    <3>1. e.serial # s
      BY <1>5, <2>5 DEF Drawer!FailSave
    <3>2. drawer.serial # s
      BY <2>2, <3>1 DEF OnlyFrom
    <3> QED BY <1>2, <1>3, <2>1, <2>2, <2>3, <3>1, <3>2 DEF DraftIs
  <2> QED BY <2>4, <2>5
<1> QED BY <1>2, <1>5 DEF DrawerInvariant, DraftsFollowed

LEMMA InitDraftsFollowed == Drawer!SerialDrawerInit => DraftsFollowed
<1> SUFFICES ASSUME Drawer!SerialDrawerInit, NEW s \in Serial
             PROVE  DraftIs(s, Drawer!Blank)
  BY BlankIsSound DEF DraftsFollowed
<1>1. /\ calls = << >> /\ drawer.serial = Drawer!NoSerial
      /\ \A f \in DrawerField : typed[s][f] = "nothing"
      /\ outbox[s] = {} /\ server[s].content = Drawer!Blank
  BY DEF Drawer!SerialDrawerInit, Drawer!Closed, Serial
<1>2. Drawer!Latest(s) = Drawer!Blank
  BY <1>1, LatestIs
<1>3. drawer.serial # s
  BY <1>1, SerialIsPositive
<1> QED BY <1>1, <1>2, <1>3 DEF DraftIs, AsTyped, Carries

LEMMA DrawerStepFollows ==
    ASSUME DrawerInvariant, Drawer!SerialDrawerNext
    PROVE  DraftsFollowed'
BY OtherStepsFollow, TypeFollows, FormStepsFollow, SubmitFollows, MovingOnFollows,
   ClosingFollows, CallMovesFollow, CallEndsFollow
   DEF Drawer!SerialDrawerNext, Drawer!CallStep, CallMove, Serial

----------------------------------------------------------------------------
(* The drawer: what its invariant means for the inspector.                 *)

LEMMA FollowedDraftIsKept == DrawerInvariant => Drawer!DraftKept
<1> SUFFICES ASSUME DrawerInvariant, NEW s \in Serial \ excused, NEW f \in DrawerField,
                    typed[s][f] # "nothing"
             PROVE  Drawer!Kept(s, f)
  BY DEF Drawer!DraftKept, Drawer!Kept, Serial
<1>1. PICK c \in Content : DraftIs(s, c)
  BY DEF DrawerInvariant, DraftsFollowed
<1>2. c[f] = typed[s][f]
  BY <1>1 DEF DraftIs, AsTyped
<1>3. CASE Drawer!Latest(s) = c
  <2>1. outbox[s] = {} \/ \E x : outbox[s] = {x}
    BY LatestIsContent DEF DrawerInvariant
  <2>2. server[s].content = c \/ c \in outbox[s]
    BY <1>3, <2>1, LatestIs
  <2>3. Drawer!Stored(s, f)
    BY <1>2, <2>2 DEF Drawer!Stored
  <2> QED BY <2>3 DEF Drawer!Kept
<1>4. CASE drawer.serial = s /\ form.pending
  BY <1>1, <1>2, <1>4 DEF DraftIs, Drawer!Kept, Drawer!InForm
<1>5. CASE Names(calls, s)
  <2>1. PICK k \in DOMAIN calls : calls[k].serial = s
    BY <1>5 DEF Names
  <2>2. calls[k].content = c
    BY <1>1, <2>1 DEF DraftIs, Carries
  <2> QED BY <1>2, <2>1, <2>2 DEF Drawer!Kept, Drawer!OnItsWay, Drawer!Holds
<1> QED BY <1>1, <1>3, <1>4, <1>5 DEF DraftIs

LEMMA SoundDraftsStayApart == DrawerSound => Drawer!DraftForItsSerial
<1> SUFFICES ASSUME DrawerSound, NEW s \in Serial, NEW f \in DrawerField, typed[s][f] = "nothing"
             PROVE  /\ server[s].content[f] = "blank" /\ cache[s].content[f] = "blank"
                    /\ \A c \in outbox[s] : c[f] = "blank"
  BY DEF Drawer!DraftForItsSerial, Serial
<1> QED BY DEF DrawerSound, DeviceSound, RowsSound, MeantFor

(* A call that has begun has no autosave before it: of two, the later one  *)
(* has an explicit save before it.                                         *)
LEMMA BegunInTurn == DrawerSound => Drawer!AutosavesReadNewVersions
<1> SUFFICES ASSUME DrawerSound, NEW j \in DOMAIN calls, NEW k \in DOMAIN calls, j # k,
                    Drawer!UnderWay(calls[j]), Drawer!UnderWay(calls[k])
             PROVE  calls[j].explicit \/ calls[k].explicit
  BY DEF Drawer!AutosavesReadNewVersions
<1>1. DOMAIN calls = 1 .. Len(calls) /\ Len(calls) \in Nat
  BY LenProperties DEF DrawerSound, CallsSound
<1>2. j \in 1 .. k - 1 \/ k \in 1 .. j - 1
  BY <1>1
<1>3. /\ \A i \in 1 .. k - 1 : calls[i].explicit
      /\ \A i \in 1 .. j - 1 : calls[i].explicit
  BY DEF Drawer!UnderWay, DrawerSound, CallsSound
<1> QED BY <1>2, <1>3

----------------------------------------------------------------------------
(* The reviews: types.                                                     *)

Op == {"SUBMIT", "APPROVE", "RETURN"}
RowStatus == {"INSPECTED_DRAFT", "SUBMITTED_FOR_APPROVAL", "APPROVED"}
BatchRow == [status : {"none", "SUBMITTED", "APPROVED", "RETURNED"}, version : Nat,
             members : SUBSET ReviewSerial, pending : SUBSET ReviewSerial,
             sync : {"SYNCED", "PENDING", "CONFLICT", "ERROR"}]
StatusMap == [ReviewSerial -> RowStatus]
ServerRows == [version : Nat, status : StatusMap, batch : [Review!Batch -> BatchRow]]
Cached == Review!Temp \cup Review!Batch
CacheRows == [version : Nat, status : StatusMap, sync : [ReviewSerial -> {"SYNCED", "PENDING"}],
              batch : [Cached -> BatchRow]]
Queued == [op : Op, batch : Cached, named : SUBSET ReviewSerial, rv : Nat, bv : Nat,
           status : {"PENDING", "SYNCED", "CONFLICT", "FAILED"}, made : Review!Temp \cup {0},
           sees : SUBSET ReviewSerial]
ActStep == {"done", "post", "batches", "rows", "read", "enqueue", "mark"}
Operating == [op : Op \cup {"none"}, batch : Cached \cup {0}, named : SUBSET ReviewSerial,
            step : ActStep, rv : Nat, bv : Nat, sees : SUBSET ReviewSerial, item : Nat]
SendStep == {"send", "cache", "remap", "rows"}
Running == [todo : SUBSET Nat, item : Nat, skip : SUBSET Cached,
            step : {"idle", "next"} \cup SendStep, answer : Review!Batch \cup {0}]

(* A row is no longer pending in a batch that has it.                      *)
Handled(s, d) == s \in server.batch[d].members \ server.batch[d].pending

(* The server alone: batches are numbered without gaps, and a serial that  *)
(* is pending in a batch but not submitted was reviewed through another.   *)
ServerSound ==
    /\ server \in ServerRows
    /\ \E n \in 0 .. MaxBatches : Review!Made = 1 .. n
    /\ \A b \in Review!Batch : server.batch[b].pending \subseteq server.batch[b].members
    /\ \A b \in Review!Made : \A s \in server.batch[b].pending :
          server.status[s] # "SUBMITTED_FOR_APPROVAL" =>
              \E d \in Review!Made \ {b} : Handled(s, d)
    /\ Review!ResubmittedAfterReview

(* The device: what every variable holds.                                  *)
DeviceRows ==
    /\ cache \in CacheRows
    /\ queue \in Seq(Queued)
    /\ act \in Operating
    /\ run \in Running
    /\ run.todo \subseteq DOMAIN queue
    /\ excused \subseteq ReviewSerial

(* What the steps of an operation and of a delivery rely on.               *)
StepsSound ==
    /\ act.op = "none" <=> act.step = "done"
    /\ act.op = "SUBMIT" /\ act.step \in {"enqueue", "mark"} => act.batch \in Review!Temp
    /\ act.op \in Review!Reviewing => act.batch \in Cached
    /\ act.op \in Review!Reviewing /\ act.step \in {"post", "batches", "rows"} => act.batch \in Review!Batch
    /\ act.step = "mark" =>
          /\ act.item \in DOMAIN queue
          /\ queue[act.item].op = act.op
          /\ queue[act.item].named = act.named
          /\ queue[act.item].sees = act.sees
    /\ run.step \in SendStep <=> run.item # 0
    /\ run.item # 0 => run.item \in DOMAIN queue /\ run.item \notin run.todo /\ Review!Waiting(run.item)
    /\ \A k \in run.todo : Review!Waiting(k)

(* The batch with the temporary id t was submitted with the members M.     *)
IsBooked(q, t) == \E k \in DOMAIN q : q[k].made = t
Booked(q, t, M) == \A k \in DOMAIN q : q[k].made = t => q[k].named = M

(* Cached batches of the server have the server's members, cached batches  *)
(* of the device those that their submission names.                        *)
BatchesKnown ==
    /\ \A b \in Review!Batch : cache.batch[b].status # "none" =>
          b \in Review!Made /\ cache.batch[b].members = server.batch[b].members
    /\ \A t \in Review!Temp :
          /\ cache.batch[t].status = "none" => cache.batch[t].members = {}
          /\ cache.batch[t].status # "none" =>
                IsBooked(queue, t) \/ (act.op = "SUBMIT" /\ act.step = "enqueue" /\ act.batch = t)
          /\ cache.batch[t].status = "SUBMITTED" => Booked(queue, t, cache.batch[t].members)

(* So does the operation under way, ...                                    *)
ActKnows ==
    /\ act.op = "SUBMIT" /\ act.step \in {"enqueue", "mark"} => act.sees = act.named
    /\ act.op = "SUBMIT" /\ act.step = "enqueue" =>
          ~IsBooked(queue, act.batch) /\ cache.batch[act.batch].members = act.named
    /\ act.op \in Review!Reviewing /\ act.batch \in Review!Batch =>
          /\ cache.batch[act.batch].status # "none"
          /\ act.step \in {"enqueue", "mark"} => act.sees = server.batch[act.batch].members
    /\ act.op \in Review!Reviewing /\ act.batch \in Review!Temp =>
          /\ IsBooked(queue, act.batch)
          /\ cache.batch[act.batch].status \in {"none", "SUBMITTED"}
          /\ act.step \in {"enqueue", "mark"} =>
                /\ Booked(queue, act.batch, act.sees)
                /\ cache.batch[act.batch].members \subseteq act.sees

(* ... the requests, ...                                                   *)
QueueKnows ==
    /\ \A k \in DOMAIN queue :
          IF queue[k].op = "SUBMIT"
          THEN /\ queue[k].batch = queue[k].made /\ queue[k].made \in Review!Temp
               /\ queue[k].sees = queue[k].named
          ELSE /\ queue[k].made = 0
               /\ queue[k].batch \in Review!Batch =>
                     /\ cache.batch[queue[k].batch].status # "none"
                     /\ server.batch[queue[k].batch].members = queue[k].sees
               /\ queue[k].batch \in Review!Temp =>
                     IsBooked(queue, queue[k].batch) /\ Booked(queue, queue[k].batch, queue[k].sees)
    /\ \A j, k \in DOMAIN queue : queue[j].made = queue[k].made /\ queue[j].made # 0 => j = k

(* ... and the answer that is being taken over.                            *)
AnswerKnown ==
    /\ run.step \in {"cache", "remap"} => run.answer \in Review!Made
    /\ run.step = "cache" /\ Review!Item.op # "SUBMIT" => Review!Item.batch \in Review!Made
    /\ run.step \in {"cache", "remap"} /\ Review!Item.op = "SUBMIT" =>
          server.batch[run.answer].members = Review!Item.named
    /\ run.step = "remap" =>
          Review!Item.op = "SUBMIT" /\ cache.batch[run.answer].status # "none"

(* A review of a batch that is no longer cached is about to get its new id *)
(* or was queued too late for it.                                          *)
ReviewsReach ==
    \A k \in DOMAIN queue :
        Review!Waiting(k) /\ queue[k].op # "SUBMIT" /\ cache.batch[queue[k].batch].status = "none" =>
            \/ excused = ReviewSerial
            \/ run.step = "remap" /\ Review!Item.batch = queue[k].batch

(* The rows that are marked synced with a request.                         *)
RowsOf(r) == IF r.named = {} THEN r.sees ELSE r.named
RowsOwed ==
    scope = "report" =>
        \A s \in ReviewSerial \ excused :
            cache.sync[s] = "PENDING" =>
                \E k \in DOMAIN queue : s \in RowsOf(queue[k]) /\ queue[k].status # "SYNCED"

ReviewInvariant ==
    ServerSound /\ DeviceRows /\ StepsSound /\ BatchesKnown /\ ActKnows /\ QueueKnows
        /\ AnswerKnown /\ ReviewsReach /\ RowsOwed

LEMMA BatchIds ==
    /\ MaxBatches \in Nat
    /\ Review!Batch = 1 .. MaxBatches
    /\ Review!Temp \cap Review!Batch = {} /\ 0 \notin Cached
    /\ Review!Batch \subseteq Cached /\ Review!Temp \subseteq Cached
BY PortalAssumption DEF Review!Batch, Review!Temp, Cached

(* The next batch is new, and leaves no gap.                               *)
LEMMA NextBatchIsNew ==
    ASSUME ServerSound, Review!NextBatch \in Review!Batch
    PROVE  /\ Review!NextBatch \notin Review!Made
           /\ \E n \in 0 .. MaxBatches : Review!Made \cup {Review!NextBatch} = 1 .. n
<1>1. PICK n \in 0 .. MaxBatches : Review!Made = 1 .. n
  BY DEF ServerSound
<1>2. Cardinality(1 .. n) = n
  BY FS_Interval, BatchIds
<1>3. Review!NextBatch = n + 1
  <2>1. Review!Cardinality(Review!Made) = Cardinality(Review!Made)
    BY Zenon DEF Review!Cardinality, Cardinality
  <2> QED BY <1>1, <1>2, <2>1, Zenon DEF Review!NextBatch
<1> QED BY <1>1, <1>3, BatchIds DEF Review!Batch

(* What a step of the server changes: batches are added, and keep their    *)
(* members.                                                                *)
ServerGrows ==
    /\ ServerSound'
    /\ \A b \in Review!Made :
          b \in Review!Made' /\ server'.batch[b].members = server.batch[b].members

LEMMA SubmissionIsSound ==
    ASSUME ServerSound, NEW r, r.op = "SUBMIT", r.named \in SUBSET ReviewSerial,
           Review!Answer(r) = 200, Review!NextBatch \in Review!Batch,
           server' = Review!Accepted(r)
    PROVE  /\ ServerGrows
           /\ Review!NextBatch \in Review!Made'
           /\ server'.batch[Review!NextBatch].members = r.named
<1>1. PICK new : new = Review!NextBatch
  OBVIOUS
<1>2. /\ server.version = r.rv
      /\ \A s \in r.named : server.status[s] = "INSPECTED_DRAFT"
  BY DEF Review!Answer, Review!Submittable
<1>3. server' = [version |-> r.rv + 1,
                 status |-> Review!Marked(server.status, r.named, "SUBMIT"),
                 batch |-> [server.batch EXCEPT ![new] = Review!Opened(r.named)]]
  BY <1>1, Zenon DEF Review!Accepted
<1>4. Review!Opened(r.named) =
        [status |-> "SUBMITTED", version |-> 1, members |-> r.named, pending |-> r.named,
         sync |-> "SYNCED"]
  BY DEF Review!Opened, Review!NoBatch
<1>5. new \in Review!Batch /\ new \notin Review!Made
      /\ \E n \in 0 .. MaxBatches : Review!Made \cup {new} = 1 .. n
  BY <1>1, NextBatchIsNew
<1>6. server \in ServerRows
  BY DEF ServerSound
<1>7. /\ server' \in ServerRows
      /\ server'.batch[new] = Review!Opened(r.named)
      /\ \A b \in Review!Batch \ {new} : server'.batch[b] = server.batch[b]
      /\ \A s \in ReviewSerial : server'.status[s] =
            IF s \in r.named THEN "SUBMITTED_FOR_APPROVAL" ELSE server.status[s]
  <2>1. Review!Opened(r.named) \in BatchRow
    BY <1>4 DEF BatchRow
  <2>2. /\ Review!Marked(server.status, r.named, "SUBMIT") \in StatusMap
        /\ \A s \in ReviewSerial : Review!Marked(server.status, r.named, "SUBMIT")[s] =
              IF s \in r.named THEN "SUBMITTED_FOR_APPROVAL" ELSE server.status[s]
    BY <1>6 DEF Review!Marked, Review!StatusAfter, StatusMap, ServerRows, RowStatus
  <2> QED BY <1>2, <1>3, <1>5, <1>6, <2>1, <2>2 DEF ServerRows
<1>8. /\ Review!Made' = Review!Made \cup {new}
      /\ server'.batch[new].members = r.named /\ server'.batch[new].pending = r.named
  BY <1>4, <1>5, <1>7 DEF Review!Made
<1>9. \A b \in Review!Batch : server'.batch[b].pending \subseteq server'.batch[b].members
  BY <1>7, <1>8 DEF ServerSound
<1>10. \A s, d : d \in Review!Made /\ Handled(s, d) => Handled(s, d)' /\ d # new /\ d \in Review!Made'
  BY <1>5, <1>7, <1>8 DEF Handled, Review!Made
<1>11. \A b \in Review!Made' : \A s \in server'.batch[b].pending :
          server'.status[s] # "SUBMITTED_FOR_APPROVAL" =>
              \E d \in Review!Made' \ {b} : Handled(s, d)'
  <2> SUFFICES ASSUME NEW b \in Review!Made', NEW s \in server'.batch[b].pending,
                      server'.status[s] # "SUBMITTED_FOR_APPROVAL"
               PROVE  \E d \in Review!Made' \ {b} : Handled(s, d)'
    OBVIOUS
  <2>1. s \in ReviewSerial
    BY <1>7 DEF ServerRows, BatchRow, Review!Made
  <2>2. s \notin r.named
    BY <1>7, <2>1
  <2>3. b # new
    BY <2>2, <1>8
  <2>4. b \in Review!Made /\ s \in server.batch[b].pending
        /\ server.status[s] # "SUBMITTED_FOR_APPROVAL"
    BY <1>7, <1>8, <2>1, <2>2, <2>3 DEF Review!Made
  <2>5. PICK d \in Review!Made \ {b} : Handled(s, d)
    BY <2>4 DEF ServerSound
  <2> QED BY <2>5, <1>10
<1>12. Review!ResubmittedAfterReview'
  <2> SUFFICES ASSUME NEW b \in Review!Made', NEW c \in Review!Made', b # c,
                      NEW s \in server'.batch[b].pending \cap server'.batch[c].pending
               PROVE  \E d \in Review!Made' \ {b, c} : Handled(s, d)'
    BY DEF Review!ResubmittedAfterReview, Handled
  <2>1. CASE b # new /\ c # new
    <3>1. b \in Review!Made /\ c \in Review!Made
          /\ s \in server.batch[b].pending \cap server.batch[c].pending
      BY <2>1, <1>7, <1>8 DEF Review!Made
    <3>2. PICK d \in Review!Made \ {b, c} : Handled(s, d)
      BY <3>1 DEF ServerSound, Review!ResubmittedAfterReview, Handled
    <3> QED BY <3>2, <1>10
  <2>2. ASSUME NEW o \in Review!Made, s \in server.batch[o].pending, s \in r.named
        PROVE  \E d \in Review!Made' \ {o, new} : Handled(s, d)'
    <3>1. server.status[s] # "SUBMITTED_FOR_APPROVAL"
      BY <2>2, <1>2
    <3>2. PICK d \in Review!Made \ {o} : Handled(s, d)
      BY <3>1, <2>2 DEF ServerSound
    <3> QED BY <3>2, <1>10
  <2>3. CASE b = new
    <3>1. c \in Review!Made /\ s \in server.batch[c].pending /\ s \in r.named
      BY <2>3, <1>7, <1>8 DEF Review!Made
    <3> QED BY <3>1, <2>2, <2>3
  <2>4. CASE c = new
    <3>1. b \in Review!Made /\ s \in server.batch[b].pending /\ s \in r.named
      BY <2>4, <1>7, <1>8 DEF Review!Made
    <3> QED BY <3>1, <2>2, <2>4
  <2> QED BY <2>1, <2>3, <2>4
<1>13. ServerSound'
  BY <1>5, <1>7, <1>8, <1>9, <1>11, <1>12 DEF ServerSound
<1>14. \A b \in Review!Made :
          b \in Review!Made' /\ server'.batch[b].members = server.batch[b].members
  BY <1>5, <1>7, <1>8 DEF Review!Made
<1> QED BY <1>1, <1>8, <1>13, <1>14 DEF ServerGrows

(* A review takes rows of its batch out of what is pending there.          *)
LEMMA VerdictIsSound ==
    ASSUME ServerSound, NEW r, r.op \in {"APPROVE", "RETURN"}, r.named \in SUBSET ReviewSerial,
           Review!Answer(r) = 200, server' = Review!Accepted(r)
    PROVE  ServerGrows /\ r.batch \in Review!Made
<1>1. PICK v : v = r.batch
  OBVIOUS
<1>2. PICK rows : rows = Review!Targets(r, server.batch[r.batch].members, server.status)
  OBVIOUS
<1>3. PICK status : status = Review!Marked(server.status, rows, r.op)
  OBVIOUS
<1>4. PICK closed : closed = Review!Closed(server.batch[r.batch], r.op, status)
  OBVIOUS
<1>5. /\ v \in Review!Made /\ server.version = r.rv
      /\ r.named \subseteq server.batch[v].members
      /\ server.batch[v].status = "SUBMITTED"
  BY <1>1 DEF Review!Answer
<1>6. server \in ServerRows /\ v \in Review!Batch
  BY <1>5 DEF ServerSound, Review!Made
<1>7. rows \subseteq server.batch[v].members /\ rows \subseteq ReviewSerial
      /\ \A s \in rows : server.status[s] = "SUBMITTED_FOR_APPROVAL"
  BY <1>1, <1>2, <1>5, <1>6 DEF Review!Targets, ServerRows, BatchRow
<1>8. server' = [version |-> r.rv + 1, status |-> status,
                 batch |-> [server.batch EXCEPT ![v].status = closed,
                                                ![v].pending = @ \ rows,
                                                ![v].version = @ + 1]]
  BY <1>1, <1>2, <1>3, <1>4, Zenon DEF Review!Accepted
<1>9. closed \in {"SUBMITTED", "APPROVED", "RETURNED"}
  BY <1>1, <1>4, <1>5 DEF Review!Closed, Review!Verdict
<1>10. /\ status \in StatusMap
       /\ \A s \in ReviewSerial : s \notin rows => status[s] = server.status[s]
       /\ \A s \in rows : status[s] # "SUBMITTED_FOR_APPROVAL"
  BY <1>3, <1>6, <1>7 DEF Review!Marked, Review!StatusAfter, StatusMap, ServerRows, RowStatus
<1>11. /\ server' \in ServerRows /\ server'.status = status
       /\ \A b \in Review!Batch :
             /\ server'.batch[b].members = server.batch[b].members
             /\ b = v => server'.batch[b].pending = server.batch[b].pending \ rows
             /\ b = v => server'.batch[b].status = closed
             /\ b # v => server'.batch[b] = server.batch[b]
  <2>1. PICK batch : batch = [server.batch EXCEPT ![v].status = closed,
                                                  ![v].pending = @ \ rows,
                                                  ![v].version = @ + 1]
    OBVIOUS
  <2>2. server' = [version |-> r.rv + 1, status |-> status, batch |-> batch]
    BY <1>8, <2>1, Zenon
  <2>3. server.batch \in [Review!Batch -> BatchRow]
    BY <1>6 DEF ServerRows
  <2>4. batch \in [Review!Batch -> BatchRow]
    BY <2>1, <2>3, <1>6, <1>9 DEF BatchRow
  <2>5. \A b \in Review!Batch :
             /\ batch[b].members = server.batch[b].members
             /\ b = v => batch[b].pending = server.batch[b].pending \ rows
             /\ b = v => batch[b].status = closed
             /\ b # v => batch[b] = server.batch[b]
    BY <2>1, <2>3, <1>6 DEF BatchRow
  <2>6. r.rv + 1 \in Nat
    BY <1>5, <1>6 DEF ServerRows
  <2> QED BY <2>2, <2>4, <2>5, <2>6, <1>10 DEF ServerRows
<1>12. Review!Made' = Review!Made
  BY <1>5, <1>6, <1>9, <1>11 DEF Review!Made
<1>13. \A s, d : d \in Review!Made /\ Handled(s, d) => Handled(s, d)'
  BY <1>11, <1>6 DEF Handled, Review!Made
<1>14. \A s \in rows : Handled(s, v)'
  BY <1>7, <1>11, <1>6 DEF Handled
<1>15. \A b \in Review!Made : \A s \in server'.batch[b].pending :
          server'.status[s] # "SUBMITTED_FOR_APPROVAL" =>
              \E d \in Review!Made \ {b} : Handled(s, d)'
  <2> SUFFICES ASSUME NEW b \in Review!Made, NEW s \in server'.batch[b].pending,
                      status[s] # "SUBMITTED_FOR_APPROVAL"
               PROVE  \E d \in Review!Made \ {b} : Handled(s, d)'
    BY <1>11
  <2>1. s \in server.batch[b].pending /\ s \in ReviewSerial /\ (b = v => s \notin rows)
    <3>1. b \in Review!Batch /\ server.batch[b].pending \subseteq ReviewSerial
      BY <1>6 DEF Review!Made, ServerRows, BatchRow
    <3> QED BY <3>1, <1>11
  <2>2. CASE s \in rows
    BY <2>1, <2>2, <1>5, <1>14
  <2>3. CASE s \notin rows
    <3>1. server.status[s] # "SUBMITTED_FOR_APPROVAL"
      BY <2>1, <2>3, <1>10
    <3>2. PICK d \in Review!Made \ {b} : Handled(s, d)
      BY <2>1, <3>1 DEF ServerSound
    <3> QED BY <3>2, <1>13
  <2> QED BY <2>2, <2>3
<1>16. Review!ResubmittedAfterReview'
  <2> SUFFICES ASSUME NEW b \in Review!Made, NEW c \in Review!Made, b # c,
                      NEW s \in server'.batch[b].pending \cap server'.batch[c].pending
               PROVE  \E d \in Review!Made \ {b, c} : Handled(s, d)'
    BY <1>12 DEF Review!ResubmittedAfterReview, Handled
  <2>1. s \in server.batch[b].pending \cap server.batch[c].pending
    <3>1. b \in Review!Batch /\ c \in Review!Batch
      BY DEF Review!Made
    <3> QED BY <3>1, <1>11
  <2>2. PICK d \in Review!Made \ {b, c} : Handled(s, d)
    BY <2>1 DEF ServerSound, Review!ResubmittedAfterReview, Handled
  <2> QED BY <2>2, <1>13
<1>17. \A b \in Review!Batch : server'.batch[b].pending \subseteq server'.batch[b].members
  BY <1>11 DEF ServerSound
<1>18. ServerSound'
  BY <1>11, <1>12, <1>15, <1>16, <1>17 DEF ServerSound
<1>19. \A b \in Review!Made : server'.batch[b].members = server.batch[b].members
  BY <1>11 DEF Review!Made
<1> QED BY <1>1, <1>5, <1>12, <1>18, <1>19 DEF ServerGrows


LEMMA TouchIsSound ==
    ASSUME ServerSound, server' = Review!ReportWritten
    PROVE  ServerGrows
<1>1. /\ server' \in ServerRows /\ server'.status = server.status /\ server'.batch = server.batch
  BY DEF ServerSound, ServerRows, Review!ReportWritten
<1>2. Review!Made' = Review!Made
  BY <1>1 DEF Review!Made
<1>3. \A s, d : Handled(s, d)' <=> Handled(s, d)
  BY <1>1 DEF Handled
<1>4. Review!ResubmittedAfterReview'
  BY <1>1, <1>2 DEF ServerSound, Review!ResubmittedAfterReview
<1> QED BY <1>1, <1>2, <1>3, <1>4 DEF ServerGrows, ServerSound

LEMMA QueueRows ==
    ASSUME DeviceRows
    PROVE  /\ Len(queue) \in Nat /\ DOMAIN queue = 1 .. Len(queue)
           /\ \A k \in DOMAIN queue : queue[k] \in Queued
BY DEF DeviceRows

(* Steps that keep what is known of batches, rows and requests.            *)
MembersStay ==
    \A b \in Review!Made :
        b \in Review!Made' /\ server'.batch[b].members = server.batch[b].members

CacheKeeps ==
    /\ cache' \in CacheRows
    /\ \A b \in Review!Batch :
          \/ /\ cache'.batch[b].status = cache.batch[b].status
             /\ cache'.batch[b].members = cache.batch[b].members
          \/ /\ b \in Review!Made
             /\ cache'.batch[b].status # "none"
             /\ cache'.batch[b].members = server.batch[b].members
    /\ \A t \in Review!Temp :
          /\ cache'.batch[t].status = cache.batch[t].status
          /\ cache'.batch[t].members = cache.batch[t].members

QueueKeeps ==
    /\ queue' \in Seq(Queued) /\ DOMAIN queue' = DOMAIN queue
    /\ \A k \in DOMAIN queue :
          /\ queue'[k].op = queue[k].op /\ queue'[k].batch = queue[k].batch
          /\ queue'[k].named = queue[k].named /\ queue'[k].made = queue[k].made
          /\ queue'[k].sees = queue[k].sees
          /\ queue'[k].status = "PENDING" => queue[k].status = "PENDING"

BookingsKept ==
    /\ DOMAIN queue' = DOMAIN queue
    /\ \A k \in DOMAIN queue : queue'[k].named = queue[k].named /\ queue'[k].made = queue[k].made

ServersKept ==
    \A b \in Review!Batch : cache.batch[b].status # "none" => cache'.batch[b].status # "none"

ActKeeps ==
    \/ act' = act
    \/ /\ act.step \in {"post", "batches", "rows"}
       /\ \/ act'.op = "none" /\ act'.step = "done"
          \/ /\ act'.op = act.op /\ act'.batch = act.batch
             /\ act'.step \in {"batches", "rows", "read"}

LEMMA NothingChanges ==
    /\ UNCHANGED server => MembersStay
    /\ ServerGrows => MembersStay
    /\ DeviceRows /\ UNCHANGED cache => CacheKeeps
    /\ DeviceRows /\ UNCHANGED queue => QueueKeeps
    /\ UNCHANGED act => ActKeeps
<1>1. UNCHANGED server => MembersStay
  BY DEF MembersStay, Review!Made
<1>2. ServerGrows => MembersStay
  BY DEF MembersStay, ServerGrows
<1>3. DeviceRows /\ UNCHANGED cache => CacheKeeps
  BY DEF CacheKeeps, DeviceRows
<1>4. DeviceRows /\ UNCHANGED queue => QueueKeeps
  BY DEF QueueKeeps, DeviceRows
<1>5. UNCHANGED act => ActKeeps
  BY DEF ActKeeps
<1> QED BY <1>1, <1>2, <1>3, <1>4, <1>5

LEMMA KeptParts ==
    /\ QueueKeeps => BookingsKept
    /\ ServerSound /\ CacheKeeps => ServersKept
BY DEF QueueKeeps, BookingsKept, CacheKeeps, ServersKept

LEMMA BookingsStay ==
    ASSUME BookingsKept
    PROVE  /\ \A t : IsBooked(queue', t) <=> IsBooked(queue, t)
           /\ \A t, M : Booked(queue, t, M) => Booked(queue', t, M)
BY DEF BookingsKept, IsBooked, Booked

LEMMA BatchesStayKnown ==
    ASSUME BatchesKnown, MembersStay, CacheKeeps, BookingsKept, ActKeeps
    PROVE  BatchesKnown'
<1>1. \A b \in Review!Batch : cache'.batch[b].status # "none" =>
          b \in Review!Made' /\ cache'.batch[b].members = server'.batch[b].members
  BY DEF BatchesKnown, MembersStay, CacheKeeps
<1>2. \A t \in Review!Temp :
          /\ cache'.batch[t].status = "none" => cache'.batch[t].members = {}
          /\ cache'.batch[t].status # "none" =>
                IsBooked(queue', t) \/ (act'.op = "SUBMIT" /\ act'.step = "enqueue" /\ act'.batch = t)
  BY BookingsStay DEF BatchesKnown, CacheKeeps, ActKeeps
<1>3. \A t \in Review!Temp :
          cache'.batch[t].status = "SUBMITTED" => Booked(queue', t, cache'.batch[t].members)
  <2> SUFFICES ASSUME NEW t \in Review!Temp, cache'.batch[t].status = "SUBMITTED"
               PROVE  Booked(queue', t, cache'.batch[t].members)
    OBVIOUS
  <2>1. PICK M : M = cache.batch[t].members
    OBVIOUS
  <2>2. M = cache'.batch[t].members /\ cache.batch[t].status = "SUBMITTED"
    BY <2>1 DEF CacheKeeps
  <2>3. Booked(queue, t, M)
    BY <2>1, <2>2 DEF BatchesKnown
  <2> QED BY <2>2, <2>3, BookingsStay
<1> QED BY <1>1, <1>2, <1>3 DEF BatchesKnown

LEMMA ActStillKnows ==
    ASSUME DeviceRows, StepsSound, BatchesKnown, ActKnows, MembersStay, CacheKeeps, BookingsKept,
           ActKeeps
    PROVE  ActKnows'
<1>1. CASE act' = act
  <2>1. act'.op = "SUBMIT" /\ act'.step \in {"enqueue", "mark"} => act'.sees = act'.named
    BY <1>1 DEF ActKnows
  <2>2. act'.op = "SUBMIT" /\ act'.step = "enqueue" =>
          ~IsBooked(queue', act'.batch) /\ cache'.batch[act'.batch].members = act'.named
    BY <1>1, BookingsStay DEF ActKnows, CacheKeeps, StepsSound
  <2>3. act'.op \in Review!Reviewing /\ act'.batch \in Review!Batch =>
          /\ cache'.batch[act'.batch].status # "none"
          /\ act'.step \in {"enqueue", "mark"} => act'.sees = server'.batch[act'.batch].members
    BY <1>1 DEF ActKnows, CacheKeeps, BatchesKnown, MembersStay
  <2>4. act'.op \in Review!Reviewing /\ act'.batch \in Review!Temp =>
          /\ IsBooked(queue', act'.batch)
          /\ cache'.batch[act'.batch].status \in {"none", "SUBMITTED"}
          /\ act'.step \in {"enqueue", "mark"} =>
                /\ Booked(queue', act'.batch, act'.sees)
                /\ cache'.batch[act'.batch].members \subseteq act'.sees
    BY <1>1, BookingsStay DEF ActKnows, CacheKeeps
  <2> QED BY <2>1, <2>2, <2>3, <2>4, Zenon DEF ActKnows
<1>2. CASE act'.op = "none" /\ act'.step = "done"
  BY <1>2 DEF ActKnows, Review!Reviewing
<1>3. CASE /\ act.step \in {"post", "batches", "rows"}
           /\ act'.op = act.op /\ act'.batch = act.batch
           /\ act'.step \in {"batches", "rows", "read"}
  <2>1. act'.op \in Review!Reviewing => act'.batch \in Review!Batch
    BY <1>3 DEF StepsSound
  <2>2. act'.op \in Review!Reviewing => cache'.batch[act'.batch].status # "none"
    BY <1>3, <2>1 DEF ActKnows, CacheKeeps
  <2> QED BY <1>3, <2>1, <2>2, BatchIds DEF ActKnows
<1> QED BY <1>1, <1>2, <1>3 DEF ActKeeps

LEMMA QueueStillKnows ==
    ASSUME BatchesKnown, QueueKnows, MembersStay, ServersKept, QueueKeeps
    PROVE  QueueKnows'
<1>1. ASSUME NEW k \in DOMAIN queue'
      PROVE  IF queue'[k].op = "SUBMIT"
             THEN /\ queue'[k].batch = queue'[k].made /\ queue'[k].made \in Review!Temp
                  /\ queue'[k].sees = queue'[k].named
             ELSE /\ queue'[k].made = 0
                  /\ queue'[k].batch \in Review!Batch =>
                        /\ cache'.batch[queue'[k].batch].status # "none"
                        /\ server'.batch[queue'[k].batch].members = queue'[k].sees
                  /\ queue'[k].batch \in Review!Temp =>
                        IsBooked(queue', queue'[k].batch) /\ Booked(queue', queue'[k].batch, queue'[k].sees)
  <2>1. CASE queue'[k].op = "SUBMIT"
    BY <1>1, <2>1 DEF QueueKnows, QueueKeeps
  <2>2. CASE queue'[k].op # "SUBMIT"
    <3>1. /\ k \in DOMAIN queue /\ queue[k].op # "SUBMIT"
          /\ queue'[k].batch = queue[k].batch /\ queue'[k].sees = queue[k].sees
          /\ queue'[k].made = queue[k].made
      BY <1>1, <2>2 DEF QueueKeeps
    <3>2. queue[k].batch \in Review!Batch =>
             /\ cache.batch[queue[k].batch].status # "none"
             /\ server.batch[queue[k].batch].members = queue[k].sees
      BY <3>1 DEF QueueKnows
    <3>3. queue[k].batch \in Review!Batch =>
             /\ cache'.batch[queue[k].batch].status # "none"
             /\ server'.batch[queue[k].batch].members = queue[k].sees
      BY <3>2 DEF ServersKept, BatchesKnown, MembersStay
    <3>4. queue[k].batch \in Review!Temp =>
             IsBooked(queue', queue[k].batch) /\ Booked(queue', queue[k].batch, queue[k].sees)
      BY <3>1, BookingsStay, KeptParts DEF QueueKnows
    <3>5. queue'[k].made = 0
      BY <3>1 DEF QueueKnows
    <3> QED BY <2>2, <3>1, <3>3, <3>4, <3>5
  <2> QED BY <2>1, <2>2
<1>2. \A j, k \in DOMAIN queue' : queue'[j].made = queue'[k].made /\ queue'[j].made # 0 => j = k
  BY DEF QueueKnows, QueueKeeps
<1> QED BY <1>1, <1>2 DEF QueueKnows

LEMMA ReviewsStillReach ==
    ASSUME DeviceRows, ReviewsReach, QueueKeeps,
           \A b \in Cached : cache'.batch[b].status = "none" => cache.batch[b].status = "none",
           excused \subseteq excused', excused' \subseteq ReviewSerial,
           run' = run \/ run.step # "remap", StepsSound
    PROVE  ReviewsReach'
<1> SUFFICES ASSUME NEW k \in DOMAIN queue', queue'[k].status = "PENDING", queue'[k].op # "SUBMIT",
                    cache'.batch[queue'[k].batch].status = "none"
             PROVE  excused' = ReviewSerial
                    \/ (run'.step = "remap" /\ queue'[run'.item].batch = queue'[k].batch)
  BY DEF ReviewsReach, Review!Waiting, Review!Item
<1>1. /\ k \in DOMAIN queue /\ queue[k].status = "PENDING" /\ queue[k].op # "SUBMIT"
      /\ queue'[k].batch = queue[k].batch
  BY DEF QueueKeeps
<1>2. queue[k].batch \in Cached
  BY <1>1, QueueRows DEF Queued
<1>3. cache.batch[queue[k].batch].status = "none"
  BY <1>1, <1>2
<1>4. excused = ReviewSerial
      \/ (run.step = "remap" /\ queue[run.item].batch = queue[k].batch)
  BY <1>1, <1>3 DEF ReviewsReach, Review!Waiting, Review!Item
<1>5. CASE excused = ReviewSerial
  BY <1>5
<1>6. CASE run.step = "remap" /\ queue[run.item].batch = queue[k].batch
  <2>1. run' = run /\ run.item \in DOMAIN queue
    BY <1>6 DEF StepsSound, SendStep
  <2> QED BY <1>1, <1>6, <2>1 DEF QueueKeeps
<1> QED BY <1>4, <1>5, <1>6

(* The parts of the invariant that most steps keep for the same reasons.   *)
Known == BatchesKnown /\ ActKnows /\ QueueKnows /\ ReviewsReach

LEMMA StillKnown ==
    ASSUME ReviewInvariant, MembersStay, CacheKeeps, QueueKeeps, ActKeeps,
           excused \subseteq excused', excused' \subseteq ReviewSerial,
           run' = run \/ run.step # "remap"
    PROVE  Known'
<1>1. BatchesKnown' /\ ActKnows' /\ QueueKnows'
  BY BatchesStayKnown, ActStillKnows, QueueStillKnows, KeptParts DEF ReviewInvariant
<1>2. \A b \in Cached : cache'.batch[b].status = "none" => cache.batch[b].status = "none"
  BY DEF Cached, CacheKeeps
<1> QED BY <1>1, <1>2, ReviewsStillReach DEF ReviewInvariant, Known

LEMMA AnswerStillKnown ==
    ASSUME ReviewInvariant, MembersStay, ServersKept, QueueKeeps,
           run' = run \/ run'.step \in {"idle", "next", "send"}
    PROVE  AnswerKnown'
<1>1. CASE run' = run
  <2>1. run.step \in {"cache", "remap"} => run.item \in DOMAIN queue
    BY DEF ReviewInvariant, StepsSound, SendStep
  <2>2. run.step \in {"cache", "remap"} =>
          queue'[run.item].op = queue[run.item].op /\ queue'[run.item].batch = queue[run.item].batch
          /\ queue'[run.item].named = queue[run.item].named
    BY <2>1 DEF QueueKeeps
  <2>3. run.step \in {"cache", "remap"} => run.answer \in Review!Made
    BY DEF ReviewInvariant, AnswerKnown
  <2>4. run.step = "remap" => cache'.batch[run.answer].status # "none"
    BY <2>3 DEF ReviewInvariant, AnswerKnown, ServersKept, Review!Made
  <2> QED BY <1>1, <2>2, <2>3, <2>4 DEF ReviewInvariant, AnswerKnown, Review!Item, MembersStay
<1>2. CASE run'.step \in {"idle", "next", "send"}
  BY <1>2 DEF AnswerKnown
<1> QED BY <1>1, <1>2

LEMMA RowsStayOwed ==
    ASSUME RowsOwed, QueueKeeps, scope' = scope, excused \subseteq excused',
           \A s \in ReviewSerial : cache'.sync[s] = "PENDING" => cache.sync[s] = "PENDING",
           \A k \in DOMAIN queue : queue'[k].status = "SYNCED" => queue[k].status = "SYNCED"
    PROVE  RowsOwed'
<1> SUFFICES ASSUME scope = "report", NEW s \in ReviewSerial \ excused', cache'.sync[s] = "PENDING"
             PROVE  \E k \in DOMAIN queue' : s \in RowsOf(queue'[k]) /\ queue'[k].status # "SYNCED"
  BY DEF RowsOwed
<1>1. PICK k \in DOMAIN queue : s \in RowsOf(queue[k]) /\ queue[k].status # "SYNCED"
  BY DEF RowsOwed
<1> QED BY <1>1 DEF QueueKeeps, RowsOf


(* What a step must show when it keeps the rest for those reasons.         *)
LEMMA ReviewKept ==
    ASSUME ReviewInvariant, ServerSound', DeviceRows', StepsSound', MembersStay, CacheKeeps,
           QueueKeeps, ActKeeps, AnswerKnown', RowsOwed', excused' = excused,
           run' = run \/ run.step # "remap"
    PROVE  ReviewInvariant'
<1>1. excused' \subseteq ReviewSerial
  BY DEF ReviewInvariant, DeviceRows
<1>2. Known'
  BY <1>1, StillKnown
<1> QED BY <1>2 DEF Known, ReviewInvariant

SyncStays ==
    \A s \in ReviewSerial : cache'.sync[s] = "PENDING" => cache.sync[s] = "PENDING"

(* A pull of the batches, or of the rows.                                  *)
LEMMA PulledBatchesKeep ==
    ASSUME ServerSound, DeviceRows, cache' = Review!WithBatches(cache)
    PROVE  CacheKeeps /\ SyncStays
<1>1. /\ server.batch \in [Review!Batch -> BatchRow]
      /\ cache \in CacheRows /\ cache.batch \in [Cached -> BatchRow] /\ DOMAIN cache.batch = Cached
  BY DEF ServerSound, ServerRows, DeviceRows, CacheRows
<1>2. PICK f : f = [b \in DOMAIN cache.batch |->
                      IF b \in Review!Made THEN server.batch[b] ELSE cache.batch[b]]
  OBVIOUS
<1>3. cache' = [cache EXCEPT !.batch = f]
  BY <1>2, Zenon DEF Review!WithBatches
<1>4. f \in [Cached -> BatchRow]
  BY <1>1, <1>2 DEF Review!Made
<1>5. cache' \in CacheRows /\ cache'.batch = f /\ cache'.sync = cache.sync
  BY <1>1, <1>3, <1>4 DEF CacheRows
<1>6. /\ \A b \in Review!Made : f[b] = server.batch[b] /\ server.batch[b].status # "none"
      /\ \A b \in Cached \ Review!Made : f[b] = cache.batch[b]
  BY <1>1, <1>2, BatchIds DEF Review!Made
<1>7. \A t \in Review!Temp : t \in Cached \ Review!Made
  BY BatchIds DEF Review!Made
<1>8. \A b \in Review!Batch : b \in Cached
  BY BatchIds
<1>9. CacheKeeps
  BY <1>5, <1>6, <1>7, <1>8 DEF CacheKeeps
<1> QED BY <1>5, <1>9 DEF SyncStays

LEMMA PulledRowsKeep ==
    ASSUME ServerSound, DeviceRows, cache' = Review!WithRows(cache)
    PROVE  CacheKeeps /\ SyncStays
<1>1. /\ server.version \in Nat /\ server.status \in StatusMap
      /\ cache \in CacheRows
  BY DEF ServerSound, ServerRows, DeviceRows
<1>2. PICK rows, sync :
        /\ rows = [s \in ReviewSerial |->
                     IF s \in Review!Replaced THEN server.status[s] ELSE cache.status[s]]
        /\ sync = [s \in ReviewSerial |-> IF s \in Review!Replaced THEN "SYNCED" ELSE cache.sync[s]]
  OBVIOUS
<1>3. cache' = [cache EXCEPT !.version = server.version, !.status = rows, !.sync = sync]
  BY <1>2, Zenon DEF Review!WithRows
<1>4. rows \in StatusMap /\ sync \in [ReviewSerial -> {"SYNCED", "PENDING"}]
      /\ \A s \in ReviewSerial : sync[s] = "PENDING" => cache.sync[s] = "PENDING"
  BY <1>1, <1>2 DEF StatusMap, CacheRows
<1>5. cache' \in CacheRows /\ cache'.batch = cache.batch /\ cache'.sync = sync
  BY <1>1, <1>3, <1>4 DEF CacheRows
<1> QED BY <1>4, <1>5 DEF CacheKeeps, SyncStays

LEMMA SyncUnchanged == UNCHANGED cache => SyncStays
BY DEF SyncStays

LEMMA StepsStay == StepsSound /\ UNCHANGED <<act, run, queue>> => StepsSound'
BY DEF StepsSound, Review!Waiting

LEMMA ServerStays == ServerSound /\ UNCHANGED server => ServerSound'
BY DEF ServerSound, Review!Made, Handled, Review!ResubmittedAfterReview

LEMMA RowsStayWith ==
    ASSUME ReviewInvariant, SyncStays, UNCHANGED <<queue, scope, excused>>
    PROVE  RowsOwed'
BY DEF ReviewInvariant, SyncStays, RowsOwed

(* Steps of others, pulls, and the connection.                             *)
LEMMA OthersGrow ==
    ASSUME ServerSound, Review!OthersAct
    PROVE  ServerGrows
<1>1. CASE server' = Review!ReportWritten
  BY <1>1, TouchIsSound
<1>2. ASSUME NEW op \in {"SUBMIT"} \cup Review!Reviewing, NEW b \in Review!Batch,
             NEW named \in SUBSET ReviewSerial, Review!Room(Review!Loaded(op, b, named)),
             Review!Answer(Review!Loaded(op, b, named)) = 200, server' = Review!Accepted(Review!Loaded(op, b, named))
      PROVE  ServerGrows
  <2>1. Review!Loaded(op, b, named).op = op /\ Review!Loaded(op, b, named).named = named
    BY DEF Review!Loaded
  <2>2. CASE op = "SUBMIT"
    BY <1>2, <2>1, <2>2, SubmissionIsSound DEF Review!Room
  <2>3. CASE op \in {"APPROVE", "RETURN"}
    BY <1>2, <2>1, <2>3, VerdictIsSound
  <2> QED BY <2>2, <2>3 DEF Review!Reviewing
<1>3. \/ server' = Review!ReportWritten
      \/ \E op \in {"SUBMIT"} \cup Review!Reviewing, b \in Review!Batch,
            named \in SUBSET ReviewSerial :
            Review!Room(Review!Loaded(op, b, named)) /\ Review!Answer(Review!Loaded(op, b, named)) = 200
            /\ server' = Review!Accepted(Review!Loaded(op, b, named))
  BY DEF Review!OthersAct
<1> QED BY <1>1, <1>2, <1>3

LEMMA OthersKeep ==
    ASSUME ReviewInvariant, Review!OthersAct
    PROVE  ReviewInvariant'
<1>1. UNCHANGED <<scope, cache, queue, act, run, excused>>
  BY DEF Review!OthersAct
<1>2. ServerGrows
  BY OthersGrow DEF ReviewInvariant
<1>3. MembersStay /\ CacheKeeps /\ QueueKeeps /\ ActKeeps
  BY <1>1, <1>2, NothingChanges DEF ReviewInvariant
<1>4. AnswerKnown'
  BY <1>1, <1>3, AnswerStillKnown, KeptParts DEF ReviewInvariant
<1>5. DeviceRows' /\ StepsSound' /\ RowsOwed'
  BY <1>1, StepsStay, RowsStayWith, SyncUnchanged DEF ReviewInvariant, DeviceRows
<1> QED BY <1>1, <1>2, <1>3, <1>4, <1>5, ReviewKept DEF ServerGrows

LEMMA RefreshKeeps ==
    ASSUME ReviewInvariant, Review!Refresh
    PROVE  ReviewInvariant'
<1>1. UNCHANGED <<scope, server, queue, act, run, excused>>
      /\ (cache' = Review!WithBatches(cache) \/ cache' = Review!WithRows(cache))
  BY DEF Review!Refresh
<1>2. CacheKeeps /\ SyncStays
  BY <1>1, PulledBatchesKeep, PulledRowsKeep DEF ReviewInvariant
<1>3. MembersStay /\ QueueKeeps /\ ActKeeps
  BY <1>1, NothingChanges DEF ReviewInvariant
<1>4. AnswerKnown'
  BY <1>1, <1>2, <1>3, AnswerStillKnown, KeptParts DEF ReviewInvariant
<1>5. ServerSound' /\ DeviceRows' /\ StepsSound' /\ RowsOwed'
  BY <1>1, <1>2, StepsStay, ServerStays, RowsStayWith DEF ReviewInvariant, DeviceRows, CacheKeeps
<1> QED BY <1>1, <1>2, <1>3, <1>4, <1>5, ReviewKept

LEMMA ConnectionKeeps ==
    ASSUME ReviewInvariant, Review!Disconnect \/ Review!Reconnect
    PROVE  ReviewInvariant'
<1>1. UNCHANGED <<scope, server, cache, queue, act, run, excused>>
  BY DEF Review!Disconnect, Review!Reconnect
<1>2. MembersStay /\ CacheKeeps /\ QueueKeeps /\ ActKeeps
  BY <1>1, NothingChanges DEF ReviewInvariant
<1>3. AnswerKnown'
  BY <1>1, <1>2, AnswerStillKnown, KeptParts DEF ReviewInvariant
<1>4. ServerSound' /\ DeviceRows' /\ StepsSound' /\ RowsOwed'
  BY <1>1, StepsStay, ServerStays, RowsStayWith, SyncUnchanged DEF ReviewInvariant, DeviceRows
<1> QED BY <1>1, <1>2, <1>3, <1>4, ReviewKept

(* An item of the queue ends: it no longer waits.                          *)
LEMMA ItemEnds ==
    ASSUME DeviceRows, NEW k \in DOMAIN queue, NEW x \in {"SYNCED", "CONFLICT", "FAILED"},
           Review!Ends(k, x)
    PROVE  /\ QueueKeeps
           /\ queue'[k].status = x
           /\ \A j \in DOMAIN queue \ {k} : queue'[j] = queue[j]
<1>1. queue' = [queue EXCEPT ![k].status = x]
  BY DEF Review!Ends
<1>2. queue \in [1 .. Len(queue) -> Queued] /\ Len(queue) \in Nat /\ k \in 1 .. Len(queue)
  BY DEF DeviceRows
<1>3. queue' \in [1 .. Len(queue) -> Queued]
  BY <1>1, <1>2 DEF Queued
<1>4. queue' \in Seq(Queued) /\ DOMAIN queue' = DOMAIN queue
  BY <1>2, <1>3
<1>5. /\ queue'[k].status = x
      /\ queue'[k].op = queue[k].op /\ queue'[k].batch = queue[k].batch
      /\ queue'[k].named = queue[k].named /\ queue'[k].made = queue[k].made
      /\ queue'[k].sees = queue[k].sees
  BY <1>1, <1>2 DEF Queued
<1>6. \A j \in DOMAIN queue \ {k} : queue'[j] = queue[j]
  BY <1>1, <1>2
<1>7. \A j \in DOMAIN queue : 
          /\ queue'[j].op = queue[j].op /\ queue'[j].batch = queue[j].batch
          /\ queue'[j].named = queue[j].named /\ queue'[j].made = queue[j].made
          /\ queue'[j].sees = queue[j].sees
          /\ queue'[j].status = "PENDING" => queue[j].status = "PENDING"
  BY <1>5, <1>6
<1> QED BY <1>4, <1>5, <1>6, <1>7 DEF QueueKeeps


(* A request that the server accepts, from the screen or from the queue.   *)
LEMMA RequestIsSound ==
    ASSUME ServerSound, NEW r, r.op \in Op, r.named \in SUBSET ReviewSerial, Review!Room(r),
           Review!Answer(r) = 200, server' = Review!Accepted(r)
    PROVE  /\ ServerGrows
           /\ r.op = "SUBMIT" => /\ Review!NextBatch \in Review!Made'
                                 /\ server'.batch[Review!NextBatch].members = r.named
           /\ r.op # "SUBMIT" => r.batch \in Review!Made
<1>1. CASE r.op = "SUBMIT"
  BY <1>1, SubmissionIsSound DEF Review!Room
<1>2. CASE r.op \in {"APPROVE", "RETURN"}
  BY <1>2, VerdictIsSound
<1> QED BY <1>1, <1>2 DEF Op

LEMMA PerhapsAccepted ==
    ASSUME ServerSound, NEW r, r.op \in Op, r.named \in SUBSET ReviewSerial, Review!Room(r),
           server' \in {server} \cup (IF Review!Answer(r) = 200 THEN {Review!Accepted(r)} ELSE {})
    PROVE  ServerSound' /\ MembersStay
<1>1. CASE server' = server
  BY <1>1, ServerStays, NothingChanges
<1>2. CASE Review!Answer(r) = 200 /\ server' = Review!Accepted(r)
  BY <1>2, RequestIsSound, NothingChanges DEF ServerGrows
<1> QED BY <1>1, <1>2

LEMMA ItemAtHand ==
    ASSUME ReviewInvariant, run.step \in SendStep
    PROVE  /\ run.item \in DOMAIN queue /\ Review!Item \in Queued
           /\ Review!Waiting(run.item)
BY QueueRows DEF ReviewInvariant, StepsSound, Review!Item

(* The steps of a run.                                                     *)
LEMMA IdleIsRun == Review!Idle \in Running /\ Review!Idle.item = 0 /\ Review!Idle.step = "idle"
    /\ Review!Idle.todo = {}
BY DEF Review!Idle, Running

LEMMA StartRunKeeps ==
    ASSUME ReviewInvariant, Review!StartRun
    PROVE  ReviewInvariant'
<1>1. UNCHANGED <<scope, server, cache, queue, act, excused>> /\ run.step = "idle"
  BY DEF Review!StartRun
<1>2. PICK waiting, skip, idle :
        /\ waiting = {k \in DOMAIN queue : Review!Waiting(k)}
        /\ skip = {queue[k].batch : k \in {j \in DOMAIN queue : queue[j].status = "CONFLICT"}}
        /\ idle = Review!Idle
  OBVIOUS
<1>3. run' = [idle EXCEPT !.todo = waiting, !.skip = skip, !.step = "next"]
  BY <1>2, Zenon DEF Review!StartRun
<1>4. idle \in Running /\ idle.item = 0 /\ waiting \in SUBSET Nat /\ waiting \subseteq DOMAIN queue
      /\ \A k \in waiting : Review!Waiting(k)
  BY <1>2, IdleIsRun, QueueRows DEF ReviewInvariant
<1>5. skip \in SUBSET Cached
  BY <1>2, QueueRows DEF ReviewInvariant, Queued
<1>6. run' \in Running /\ run'.todo = waiting /\ run'.item = 0 /\ run'.step = "next"
  BY <1>3, <1>4, <1>5 DEF Running
<1>7. MembersStay /\ CacheKeeps /\ QueueKeeps /\ ActKeeps
  BY <1>1, NothingChanges DEF ReviewInvariant
<1>8. AnswerKnown'
  BY <1>6, <1>7, AnswerStillKnown, KeptParts DEF ReviewInvariant
<1>9. ServerSound' /\ DeviceRows' /\ RowsOwed'
  BY <1>1, <1>4, <1>6, ServerStays, RowsStayWith, SyncUnchanged DEF ReviewInvariant, DeviceRows
<1>10. StepsSound'
  BY <1>1, <1>4, <1>6 DEF ReviewInvariant, StepsSound, Review!Waiting, SendStep
<1> QED BY <1>1, <1>7, <1>8, <1>9, <1>10, ReviewKept

LEMMA JudgeKeeps ==
    ASSUME ReviewInvariant, Review!Judge
    PROVE  ReviewInvariant'
<1>1. PICK k \in run.todo :
        /\ run.step = "next"
        /\ \/ Review!Ends(k, "CONFLICT") /\ run' = [run EXCEPT !.todo = @ \ {k}]
           \/ /\ Review!Vanished(queue[k])
              /\ Review!Ends(k, "SYNCED") /\ run' = [run EXCEPT !.todo = @ \ {k}]
           \/ /\ UNCHANGED queue
              /\ run' = [run EXCEPT !.todo = @ \ {k}, !.item = k, !.step = "send"]
        /\ UNCHANGED <<scope, connected, server, cache, act, excused, Review!counted>>
  BY DEF Review!Judge
<1>2. UNCHANGED <<scope, server, cache, act, excused>>
  BY <1>1
<1>3. /\ k \in DOMAIN queue /\ Review!Waiting(k) /\ run \in Running /\ run.item = 0
      /\ k \in Nat /\ k # 0 /\ run.todo \subseteq DOMAIN queue
  BY <1>1, QueueRows DEF ReviewInvariant, DeviceRows, StepsSound, SendStep
<1>4. MembersStay /\ CacheKeeps /\ ActKeeps
  BY <1>2, NothingChanges DEF ReviewInvariant
<1>5. ASSUME NEW x \in {"SYNCED", "CONFLICT"}, Review!Ends(k, x),
             run' = [run EXCEPT !.todo = @ \ {k}], RowsOwed'
      PROVE  ReviewInvariant'
  <2>1. QueueKeeps /\ \A j \in DOMAIN queue \ {k} : queue'[j] = queue[j]
    BY <1>3, <1>5, ItemEnds DEF ReviewInvariant
  <2>2. run' \in Running /\ run'.todo = run.todo \ {k} /\ run'.item = 0 /\ run'.step = "next"
        /\ DOMAIN queue' = DOMAIN queue
    BY <1>1, <1>3, <1>5, <2>1 DEF Running, QueueKeeps
  <2>3. AnswerKnown'
    BY <1>4, <2>1, <2>2, AnswerStillKnown, KeptParts DEF ReviewInvariant
  <2>4. ServerSound' /\ DeviceRows'
    BY <1>2, <1>3, <2>1, <2>2, ServerStays DEF ReviewInvariant, DeviceRows, QueueKeeps
  <2>5. StepsSound'
    <3>1. act'.step = "mark" =>
            /\ act'.item \in DOMAIN queue'
            /\ queue'[act'.item].op = act'.op
            /\ queue'[act'.item].named = act'.named
            /\ queue'[act'.item].sees = act'.sees
      BY <1>2, <2>1 DEF ReviewInvariant, StepsSound, QueueKeeps
    <3>2. \A j \in run'.todo : queue'[j].status = "PENDING"
      BY <1>3, <2>1, <2>2 DEF ReviewInvariant, StepsSound, Review!Waiting
    <3> QED BY <1>2, <2>2, <3>1, <3>2 DEF ReviewInvariant, StepsSound, Review!Waiting, SendStep
  <2> QED BY <1>1, <1>2, <1>4, <1>5, <2>1, <2>3, <2>4, <2>5, ReviewKept
<1>6. CASE Review!Ends(k, "CONFLICT") /\ run' = [run EXCEPT !.todo = @ \ {k}]
  <2>1. QueueKeeps /\ queue'[k].status = "CONFLICT"
        /\ \A j \in DOMAIN queue \ {k} : queue'[j] = queue[j]
    BY <1>3, <1>6, ItemEnds DEF ReviewInvariant
  <2>2. RowsOwed'
    BY <1>2, <2>1, RowsStayOwed DEF ReviewInvariant
  <2> QED BY <1>5, <1>6, <2>2
<1>7. CASE /\ Review!Vanished(queue[k])
           /\ Review!Ends(k, "SYNCED") /\ run' = [run EXCEPT !.todo = @ \ {k}]
  <2>1. excused = ReviewSerial
    BY <1>1, <1>3, <1>7 DEF ReviewInvariant, ReviewsReach, Review!Vanished
  <2>2. RowsOwed'
    BY <1>2, <2>1 DEF RowsOwed
  <2> QED BY <1>5, <1>7, <2>2
<1>8. CASE UNCHANGED queue /\ run' = [run EXCEPT !.todo = @ \ {k}, !.item = k, !.step = "send"]
  <2>1. run' \in Running /\ run'.todo = run.todo \ {k} /\ run'.item = k /\ run'.step = "send"
    BY <1>3, <1>8 DEF Running, SendStep
  <2>2. QueueKeeps
    BY <1>8, NothingChanges DEF ReviewInvariant
  <2>3. AnswerKnown'
    BY <1>4, <2>1, <2>2, AnswerStillKnown, KeptParts DEF ReviewInvariant
  <2>4. ServerSound' /\ DeviceRows' /\ RowsOwed'
    BY <1>2, <1>3, <1>8, <2>1, ServerStays, RowsStayWith, SyncUnchanged
       DEF ReviewInvariant, DeviceRows
  <2>5. StepsSound'
    BY <1>2, <1>3, <1>8, <2>1 DEF ReviewInvariant, StepsSound, Review!Waiting, SendStep
  <2> QED BY <1>1, <1>2, <1>4, <2>2, <2>3, <2>4, <2>5, ReviewKept
<1> QED BY <1>1, <1>6, <1>7, <1>8

LEMMA PassedRun ==
    ASSUME ReviewInvariant
    PROVE  /\ Review!Passed \in Running /\ Review!Passed.item = 0 /\ Review!Passed.step = "next"
           /\ Review!Passed.todo = run.todo /\ Review!Passed.skip = run.skip
<1>1. run \in Running
  BY DEF ReviewInvariant, DeviceRows
<1>2. PICK p : p = [run EXCEPT !.item = 0, !.step = "next", !.answer = 0]
  OBVIOUS
<1>3. p \in Running /\ p.item = 0 /\ p.step = "next" /\ p.todo = run.todo /\ p.skip = run.skip
  BY <1>1, <1>2 DEF Running
<1>4. Review!Passed = p
  BY <1>2, Zenon DEF Review!Passed
<1> QED BY <1>3, <1>4

LEMMA DeliverKeeps ==
    ASSUME ReviewInvariant, Review!Deliver
    PROVE  ReviewInvariant'
<1>1. /\ UNCHANGED <<scope, cache, queue, act, excused>> /\ run.step = "send"
      /\ Review!Room(Review!Item) /\ Review!Answer(Review!Item) = 200
      /\ server' = Review!Accepted(Review!Item)
  BY DEF Review!Deliver
<1>2. PICK answer, r :
        /\ answer = (IF Review!Item.op = "SUBMIT" THEN Review!NextBatch ELSE Review!Item.batch)
        /\ r = Review!Item
  OBVIOUS
<1>3. run' = [run EXCEPT !.step = "cache", !.answer = answer]
  BY <1>2, Zenon DEF Review!Deliver
<1>4. /\ run.item \in DOMAIN queue /\ r \in Queued /\ r = queue[run.item]
      /\ Review!Waiting(run.item)
  BY <1>1, <1>2, ItemAtHand DEF SendStep, Review!Item
<1>5. r.op \in Op /\ r.named \in SUBSET ReviewSerial
  BY <1>4 DEF Queued
<1>6. /\ ServerGrows
      /\ r.op = "SUBMIT" => answer \in Review!Made' /\ server'.batch[answer].members = r.named
      /\ r.op # "SUBMIT" => answer = r.batch /\ r.batch \in Review!Made
  BY <1>1, <1>2, <1>5, RequestIsSound DEF ReviewInvariant
<1>7. MembersStay /\ CacheKeeps /\ QueueKeeps /\ ActKeeps
  BY <1>1, <1>6, NothingChanges DEF ReviewInvariant
<1>8. answer \in Review!Made' /\ answer \in Review!Batch /\ (r.op # "SUBMIT" => r.batch \in Review!Made')
  BY <1>6, <1>7 DEF MembersStay, Review!Made
<1>9. run' \in Running /\ run'.todo = run.todo /\ run'.item = run.item /\ run'.step = "cache"
      /\ run'.answer = answer
  BY <1>3, <1>8 DEF ReviewInvariant, DeviceRows, Running, SendStep
<1>10. AnswerKnown'
  BY <1>1, <1>4, <1>6, <1>8, <1>9 DEF AnswerKnown, Review!Item
<1>11. DeviceRows' /\ RowsOwed' /\ ServerSound'
  BY <1>1, <1>6, <1>9, RowsStayWith, SyncUnchanged DEF ReviewInvariant, DeviceRows, ServerGrows
<1>12. StepsSound'
  BY <1>1, <1>9 DEF ReviewInvariant, StepsSound, Review!Waiting, SendStep
<1> QED BY <1>1, <1>7, <1>10, <1>11, <1>12, ReviewKept

LEMMA LoseDeliveryKeeps ==
    ASSUME ReviewInvariant, Review!LoseDelivery
    PROVE  ReviewInvariant'
<1>1. /\ UNCHANGED <<scope, cache, queue, act, excused>> /\ run.step = "send"
      /\ Review!Room(Review!Item)
      /\ server' \in {server} \cup
           (IF Review!Answer(Review!Item) = 200 THEN {Review!Accepted(Review!Item)} ELSE {})
  BY DEF Review!LoseDelivery
<1>2. PICK p, r : p = Review!Passed /\ r = Review!Item
  OBVIOUS
<1>3. run' = [p EXCEPT !.skip = @ \cup {r.batch}]
  BY <1>2, Zenon DEF Review!LoseDelivery
<1>4. r \in Queued
  BY <1>1, <1>2, ItemAtHand DEF SendStep
<1>5. r.op \in Op /\ r.named \in SUBSET ReviewSerial /\ r.batch \in Cached
  BY <1>4 DEF Queued
<1>6. ServerSound' /\ MembersStay
  BY <1>1, <1>2, <1>5, PerhapsAccepted DEF ReviewInvariant
<1>7. CacheKeeps /\ QueueKeeps /\ ActKeeps
  BY <1>1, NothingChanges DEF ReviewInvariant
<1>8. p \in Running /\ p.item = 0 /\ p.step = "next" /\ p.todo = run.todo
  BY <1>2, PassedRun
<1>9. run' \in Running /\ run'.todo = run.todo /\ run'.item = 0 /\ run'.step = "next"
  BY <1>3, <1>5, <1>8 DEF Running
<1>10. AnswerKnown'
  BY <1>6, <1>7, <1>9, AnswerStillKnown, KeptParts DEF ReviewInvariant
<1>11. DeviceRows' /\ RowsOwed'
  BY <1>1, <1>9, RowsStayWith, SyncUnchanged DEF ReviewInvariant, DeviceRows
<1>12. StepsSound'
  BY <1>1, <1>9 DEF ReviewInvariant, StepsSound, Review!Waiting, SendStep
<1> QED BY <1>1, <1>6, <1>7, <1>10, <1>11, <1>12, ReviewKept


LEMMA RefuseKeeps ==
    ASSUME ReviewInvariant, Review!Refuse
    PROVE  ReviewInvariant'
<1>1. /\ UNCHANGED <<scope, server, act, excused>> /\ run.step = "send"
  BY DEF Review!Refuse
<1>2. PICK p, r, b, status, sync :
        /\ p = Review!Passed /\ r = Review!Item /\ b = Review!Item.batch
        /\ status = (IF Review!Answer(Review!Item) = 409 THEN "CONFLICT" ELSE "FAILED")
        /\ sync = (IF Review!Answer(Review!Item) = 409 THEN "CONFLICT" ELSE "ERROR")
  OBVIOUS
<1>3. /\ run' = [p EXCEPT !.skip = @ \cup {b}]
      /\ Review!Ends(run.item, status)
      /\ cache' = [cache EXCEPT !.batch[b].sync = sync] \/ cache' = cache
  BY <1>2, Zenon DEF Review!Refuse
<1>4. run.item \in DOMAIN queue /\ r \in Queued /\ Review!Waiting(run.item)
  BY <1>1, <1>2, ItemAtHand DEF SendStep
<1>5. b \in Cached /\ status \in {"CONFLICT", "FAILED"} /\ sync \in {"CONFLICT", "ERROR"}
  BY <1>2, <1>4 DEF Queued
<1>6. /\ QueueKeeps
      /\ queue'[run.item].status = status
      /\ \A j \in DOMAIN queue \ {run.item} : queue'[j] = queue[j]
  BY <1>3, <1>4, <1>5, ItemEnds DEF ReviewInvariant
<1>7. CacheKeeps /\ SyncStays
  <2>1. CASE cache' = [cache EXCEPT !.batch[b].sync = sync]
    <3>1. cache \in CacheRows
      BY DEF ReviewInvariant, DeviceRows
    <3>2. PICK row : row = [cache.batch[b] EXCEPT !.sync = sync]
      OBVIOUS
    <3>3. row \in BatchRow
      BY <1>5, <3>1, <3>2 DEF CacheRows, BatchRow
    <3>4. cache' = [cache EXCEPT !.batch = [cache.batch EXCEPT ![b] = row]]
      BY <1>5, <2>1, <3>1, <3>2 DEF CacheRows
    <3>5. cache' \in CacheRows
      BY <1>5, <3>1, <3>3, <3>4 DEF CacheRows
    <3>6. /\ cache'.sync = cache.sync
          /\ \A c \in Cached : /\ cache'.batch[c].status = cache.batch[c].status
                               /\ cache'.batch[c].members = cache.batch[c].members
      BY <1>5, <2>1, <3>1 DEF CacheRows, BatchRow
    <3> QED BY <3>5, <3>6, BatchIds DEF CacheKeeps, SyncStays
  <2>2. CASE cache' = cache
    BY <2>2, NothingChanges, SyncUnchanged DEF ReviewInvariant
  <2> QED BY <1>3, <2>1, <2>2
<1>8. p \in Running /\ p.item = 0 /\ p.step = "next" /\ p.todo = run.todo
  BY <1>2, PassedRun
<1>9. run' \in Running /\ run'.todo = run.todo /\ run'.item = 0 /\ run'.step = "next"
  BY <1>3, <1>5, <1>8 DEF Running
<1>10. MembersStay /\ ActKeeps /\ ServerSound'
  BY <1>1, NothingChanges, ServerStays DEF ReviewInvariant
<1>11. AnswerKnown'
  BY <1>6, <1>7, <1>9, <1>10, AnswerStillKnown, KeptParts DEF ReviewInvariant
<1>12. DeviceRows'
  BY <1>1, <1>6, <1>7, <1>9 DEF ReviewInvariant, DeviceRows, CacheKeeps, QueueKeeps
<1>13. RowsOwed'
  <2>1. \A k \in DOMAIN queue : queue'[k].status = "SYNCED" => queue[k].status = "SYNCED"
    BY <1>5, <1>6
  <2> QED BY <1>1, <1>6, <1>7, <2>1, RowsStayOwed DEF ReviewInvariant, SyncStays
<1>14. StepsSound'
  <2>1. act'.step = "mark" =>
            /\ act'.item \in DOMAIN queue'
            /\ queue'[act'.item].op = act'.op
            /\ queue'[act'.item].named = act'.named
            /\ queue'[act'.item].sees = act'.sees
    BY <1>1, <1>6 DEF ReviewInvariant, StepsSound, QueueKeeps
  <2>2. \A j \in run'.todo : queue'[j].status = "PENDING"
    BY <1>1, <1>6, <1>9 DEF ReviewInvariant, StepsSound, Review!Waiting, DeviceRows, SendStep
  <2> QED BY <1>1, <1>9, <2>1, <2>2 DEF ReviewInvariant, StepsSound, Review!Waiting, SendStep
<1> QED BY <1>1, <1>6, <1>7, <1>10, <1>11, <1>12, <1>13, <1>14, ReviewKept

LEMMA FinishKeeps ==
    ASSUME ReviewInvariant, Review!FinishItem
    PROVE  ReviewInvariant'
<1>1. /\ UNCHANGED <<scope, server, act, excused>> /\ run.step = "rows"
      /\ Review!Ends(run.item, "SYNCED") /\ run' = Review!Passed
  BY DEF Review!FinishItem
<1>2. PICK all, some, r :
        /\ all = [s \in ReviewSerial |-> "SYNCED"]
        /\ some = [s \in ReviewSerial |-> IF s \in Review!SyncedRows(Review!Item) THEN "SYNCED"
                                          ELSE cache.sync[s]]
        /\ r = Review!Item
  OBVIOUS
<1>3. \/ scope = "child" /\ cache' = [cache EXCEPT !.status = server.status, !.sync = all]
      \/ cache' = [cache EXCEPT !.sync = some]
  BY <1>2, Zenon DEF Review!FinishItem
<1>4. run.item \in DOMAIN queue /\ r = queue[run.item] /\ Review!Waiting(run.item)
  BY <1>1, <1>2, ItemAtHand DEF SendStep, Review!Item
<1>5. /\ QueueKeeps
      /\ queue'[run.item].status = "SYNCED"
      /\ \A j \in DOMAIN queue \ {run.item} : queue'[j] = queue[j]
  BY <1>1, <1>4, ItemEnds DEF ReviewInvariant
<1>6. cache \in CacheRows /\ server.status \in StatusMap
  BY DEF ReviewInvariant, DeviceRows, ServerSound, ServerRows
<1>7. /\ all \in [ReviewSerial -> {"SYNCED", "PENDING"}] /\ some \in [ReviewSerial -> {"SYNCED", "PENDING"}]
      /\ \A s \in ReviewSerial : all[s] # "PENDING"
      /\ \A s \in ReviewSerial : some[s] = "PENDING" =>
            s \notin Review!SyncedRows(r) /\ cache.sync[s] = "PENDING"
  BY <1>2, <1>6 DEF CacheRows
<1>8. /\ cache' \in CacheRows /\ cache'.batch = cache.batch
      /\ \/ scope = "child" /\ cache'.sync = all
         \/ cache'.sync = some
  BY <1>3, <1>6, <1>7 DEF CacheRows
<1>9. CacheKeeps
  BY <1>8 DEF CacheKeeps
<1>10. run' \in Running /\ run'.todo = run.todo /\ run'.item = 0 /\ run'.step = "next"
  BY <1>1, PassedRun
<1>11. MembersStay /\ ActKeeps /\ ServerSound'
  BY <1>1, NothingChanges, ServerStays DEF ReviewInvariant
<1>12. AnswerKnown'
  BY <1>5, <1>9, <1>10, <1>11, AnswerStillKnown, KeptParts DEF ReviewInvariant
<1>13. DeviceRows'
  BY <1>1, <1>5, <1>8, <1>10 DEF ReviewInvariant, DeviceRows, QueueKeeps
<1>14. RowsOwed'
  <2> SUFFICES ASSUME scope = "report", NEW s \in ReviewSerial \ excused,
                      cache'.sync[s] = "PENDING"
               PROVE  \E k \in DOMAIN queue' : s \in RowsOf(queue'[k]) /\ queue'[k].status # "SYNCED"
    BY <1>1 DEF RowsOwed
  <2>1. s \notin RowsOf(r) /\ cache.sync[s] = "PENDING"
    BY <1>7, <1>8 DEF Review!SyncedRows, RowsOf
  <2>2. PICK k \in DOMAIN queue : s \in RowsOf(queue[k]) /\ queue[k].status # "SYNCED"
    BY <2>1 DEF ReviewInvariant, RowsOwed
  <2>3. k # run.item
    BY <1>4, <2>1, <2>2
  <2> QED BY <1>5, <2>2, <2>3 DEF QueueKeeps
<1>15. StepsSound'
  <2>1. act'.step = "mark" =>
            /\ act'.item \in DOMAIN queue'
            /\ queue'[act'.item].op = act'.op
            /\ queue'[act'.item].named = act'.named
            /\ queue'[act'.item].sees = act'.sees
    BY <1>1, <1>5 DEF ReviewInvariant, StepsSound, QueueKeeps
  <2>2. \A j \in run'.todo : queue'[j].status = "PENDING"
    BY <1>1, <1>5, <1>10 DEF ReviewInvariant, StepsSound, Review!Waiting, DeviceRows, SendStep
  <2> QED BY <1>1, <1>10, <2>1, <2>2 DEF ReviewInvariant, StepsSound, Review!Waiting, SendStep
<1> QED BY <1>1, <1>5, <1>9, <1>11, <1>12, <1>13, <1>14, <1>15, ReviewKept

LEMMA EndRunKeeps ==
    ASSUME ReviewInvariant, Review!EndRun
    PROVE  ReviewInvariant'
<1>1. /\ UNCHANGED <<scope, server, queue, act, excused>> /\ run.step = "next"
      /\ run' = Review!Idle
      /\ cache' = Review!WithRows(cache) \/ cache' = cache
  BY DEF Review!EndRun
<1>2. CacheKeeps /\ SyncStays
  BY <1>1, PulledRowsKeep, NothingChanges, SyncUnchanged DEF ReviewInvariant
<1>3. MembersStay /\ QueueKeeps /\ ActKeeps
  BY <1>1, NothingChanges DEF ReviewInvariant
<1>4. run' \in Running /\ run'.todo = {} /\ run'.item = 0 /\ run'.step = "idle"
  BY <1>1, IdleIsRun
<1>5. AnswerKnown'
  BY <1>2, <1>3, <1>4, AnswerStillKnown, KeptParts DEF ReviewInvariant
<1>6. ServerSound' /\ DeviceRows' /\ RowsOwed'
  BY <1>1, <1>2, <1>4, ServerStays, RowsStayWith DEF ReviewInvariant, DeviceRows, CacheKeeps
<1>7. StepsSound'
  BY <1>1, <1>4 DEF ReviewInvariant, StepsSound, Review!Waiting, SendStep
<1> QED BY <1>1, <1>2, <1>3, <1>5, <1>6, <1>7, ReviewKept

(* Operations online, and the pulls that follow them.                      *)
LEMMA ActIsTyped ==
    ASSUME ReviewInvariant
    PROVE  act \in Operating /\ (act.step \notin {"done"} => act.op \in Op)
BY DEF ReviewInvariant, DeviceRows, StepsSound, Operating

LEMMA NoActIsDone ==
    /\ Review!NoAct \in Operating /\ Review!NoAct.op = "none" /\ Review!NoAct.step = "done"
BY DEF Review!NoAct, Operating, ActStep

LEMMA ActStepsOn ==
    ASSUME ReviewInvariant, act.step \in {"post", "batches", "rows"},
           NEW x \in {"batches", "rows", "read"},
           act' = Review!NoAct \/ act' = [act EXCEPT !.step = x],
           UNCHANGED <<queue, run>>
    PROVE  act' \in Operating /\ ActKeeps /\ StepsSound'
<1>1. CASE act' = Review!NoAct
  BY <1>1, NoActIsDone DEF ActKeeps, ReviewInvariant, StepsSound, Review!Waiting, Review!Reviewing
<1>2. CASE act' = [act EXCEPT !.step = x]
  <2>1. act' \in Operating /\ act'.op = act.op /\ act'.batch = act.batch /\ act'.step = x
    BY <1>2, ActIsTyped DEF Operating, ActStep
  <2>2. act.op # "none" /\ act.step # "mark"
    BY DEF ReviewInvariant, StepsSound
  <2>3. act.op \in Review!Reviewing => act.batch \in Review!Batch
    BY DEF ReviewInvariant, StepsSound
  <2> QED BY <2>1, <2>2, <2>3 DEF ActKeeps, ReviewInvariant, StepsSound, Review!Waiting
<1> QED BY <1>1, <1>2

LEMMA PostKeeps ==
    ASSUME ReviewInvariant, Review!Post \/ Review!LosePost
    PROVE  ReviewInvariant'
<1>1. /\ UNCHANGED <<scope, cache, queue, run, excused>> /\ act.step = "post"
      /\ Review!Room(act)
  BY DEF Review!Post, Review!LosePost
<1>2. /\ act' = [act EXCEPT !.step = "batches"] \/ act' = [act EXCEPT !.step = "read"]
      /\ server' \in {server} \cup
           (IF Review!Answer(act) = 200 THEN {Review!Accepted(act)} ELSE {})
  <2>1. CASE Review!Post
    BY <2>1 DEF Review!Post
  <2>2. CASE Review!LosePost
    BY <2>2 DEF Review!LosePost
  <2> QED BY <2>1, <2>2
<1>3. act.op \in Op /\ act.named \in SUBSET ReviewSerial
  BY <1>1, ActIsTyped DEF Operating
<1>4. ServerSound' /\ MembersStay
  BY <1>1, <1>2, <1>3, PerhapsAccepted DEF ReviewInvariant
<1>5. act' \in Operating /\ ActKeeps /\ StepsSound'
  BY <1>1, <1>2, ActStepsOn
<1>6. CacheKeeps /\ QueueKeeps
  BY <1>1, NothingChanges DEF ReviewInvariant
<1>7. AnswerKnown'
  BY <1>1, <1>4, <1>6, AnswerStillKnown, KeptParts DEF ReviewInvariant
<1>8. DeviceRows' /\ RowsOwed'
  BY <1>1, <1>5, RowsStayWith, SyncUnchanged DEF ReviewInvariant, DeviceRows
<1> QED BY <1>1, <1>4, <1>5, <1>6, <1>7, <1>8, ReviewKept

LEMMA PullAfterKeeps ==
    ASSUME ReviewInvariant, Review!PullAfter
    PROVE  ReviewInvariant'
<1>1. /\ UNCHANGED <<scope, server, queue, run, excused>> /\ act.step \in {"batches", "rows"}
      /\ act' = [act EXCEPT !.step = "rows"] \/ act' = Review!NoAct
      /\ cache' = cache \/ cache' = Review!WithBatches(cache) \/ cache' = Review!WithRows(cache)
  BY DEF Review!PullAfter
<1>2. CacheKeeps /\ SyncStays
  BY <1>1, PulledBatchesKeep, PulledRowsKeep, NothingChanges, SyncUnchanged DEF ReviewInvariant
<1>3. act' \in Operating /\ ActKeeps /\ StepsSound'
  BY <1>1, ActStepsOn
<1>4. MembersStay /\ QueueKeeps /\ ServerSound'
  BY <1>1, NothingChanges, ServerStays DEF ReviewInvariant
<1>5. AnswerKnown'
  BY <1>1, <1>2, <1>4, AnswerStillKnown, KeptParts DEF ReviewInvariant
<1>6. DeviceRows' /\ RowsOwed'
  BY <1>1, <1>2, <1>3, RowsStayWith DEF ReviewInvariant, DeviceRows, CacheKeeps
<1> QED BY <1>1, <1>2, <1>3, <1>4, <1>5, <1>6, ReviewKept


(* An operation begins.                                                    *)
LEMMA StartKeeps ==
    ASSUME ReviewInvariant, NEW op \in Op, NEW b \in Cached \cup {0},
           NEW named \in SUBSET ReviewSerial, NEW online,
           Review!Start(op, b, named, online),
           op # "SUBMIT" => b \in Cached /\ cache.batch[b].status = "SUBMITTED",
           op # "SUBMIT" /\ online => b \in Review!Batch
    PROVE  ReviewInvariant'
<1>1. UNCHANGED <<scope, server, cache, queue, run, excused>> /\ act.op = "none"
  BY DEF Review!Start
<1>2. PICK n, step, bv :
        /\ n = Review!NoAct
        /\ step = (IF online THEN "post" ELSE "read")
        /\ bv = (IF b = 0 THEN 0 ELSE cache.batch[b].version)
  OBVIOUS
<1>3. act' = [n EXCEPT !.op = op, !.batch = b, !.named = named, !.step = step,
                       !.rv = cache.version, !.bv = bv]
  BY <1>2, Zenon DEF Review!Start
<1>4. n \in Operating /\ step \in {"post", "read"} /\ (step = "post" => online)
  BY <1>2, NoActIsDone
<1>5. cache.version \in Nat /\ bv \in Nat
  BY <1>2 DEF ReviewInvariant, DeviceRows, CacheRows, BatchRow
<1>6. act' \in Operating /\ act'.op = op /\ act'.batch = b /\ act'.step = step
  BY <1>3, <1>4, <1>5 DEF Operating, ActStep
<1>7. MembersStay /\ CacheKeeps /\ QueueKeeps /\ BookingsKept /\ ServersKept
  BY <1>1, NothingChanges, KeptParts DEF ReviewInvariant
<1>8. AnswerKnown' /\ QueueKnows'
  BY <1>1, <1>7, AnswerStillKnown, QueueStillKnows DEF ReviewInvariant
<1>9. ReviewsReach'
  BY <1>1, <1>7, ReviewsStillReach DEF ReviewInvariant, DeviceRows
<1>10. ServerSound' /\ DeviceRows' /\ RowsOwed'
  BY <1>1, <1>6, ServerStays, RowsStayWith, SyncUnchanged DEF ReviewInvariant, DeviceRows
<1>11. BatchesKnown'
  BY <1>1, <1>4, <1>6 DEF ReviewInvariant, BatchesKnown, Review!Made, StepsSound
<1>12. StepsSound'
  BY <1>1, <1>4, <1>6 DEF ReviewInvariant, StepsSound, Review!Waiting, Review!Reviewing, Op
<1>13. ActKnows'
  <2>1. op # "SUBMIT" /\ b \in Review!Temp => IsBooked(queue, b)
    BY <1>1 DEF ReviewInvariant, BatchesKnown
  <2> QED BY <1>1, <1>4, <1>6, <2>1 DEF ActKnows, Review!Reviewing
<1> QED BY <1>8, <1>9, <1>10, <1>11, <1>12, <1>13 DEF ReviewInvariant

LEMMA BeginningKeeps ==
    ASSUME ReviewInvariant,
           \/ \E named \in SUBSET ReviewSerial : Review!Submit(named)
           \/ \E op \in Review!Reviewing, b \in Review!Temp \cup Review!Batch,
                 named \in SUBSET ReviewSerial : Review!Review(op, b, named)
    PROVE  ReviewInvariant'
<1>1. ASSUME NEW named \in SUBSET ReviewSerial, Review!Submit(named)
      PROVE  ReviewInvariant'
  BY <1>1, StartKeeps DEF Review!Submit, Op
<1>2. ASSUME NEW op \in Review!Reviewing, NEW b \in Review!Temp \cup Review!Batch,
             NEW named \in SUBSET ReviewSerial, Review!Review(op, b, named)
      PROVE  ReviewInvariant'
  BY <1>2, StartKeeps DEF Review!Review, Op, Cached, Review!Reviewing
<1> QED BY <1>1, <1>2

(* A temporary id that no request has is free.                             *)
LEMMA NewTempIsFree ==
    ASSUME ReviewInvariant, act.step = "read",
           \E t \in Review!Temp : \A k \in DOMAIN queue : queue[k].made # t
    PROVE  /\ Review!NewTemp \in Review!Temp
           /\ ~IsBooked(queue, Review!NewTemp)
<1>1. PICK t \in Review!Temp : \A k \in DOMAIN queue : queue[k].made # t
  OBVIOUS
<1>2. cache.batch[t].status = "none"
  BY <1>1 DEF ReviewInvariant, BatchesKnown, IsBooked
<1>3. \E u \in Review!Temp :
        cache.batch[u].status = "none" /\ (\A k \in DOMAIN queue : queue[k].made # u)
  BY <1>1, <1>2
<1>4. Review!NewTemp \in Review!Temp /\ \A k \in DOMAIN queue : queue[k].made # Review!NewTemp
  BY <1>3, Zenon DEF Review!NewTemp
<1> QED BY <1>4 DEF IsBooked

LEMMA BatchMadeKeeps ==
    ASSUME ReviewInvariant, Review!ReadForQueue, act.op = "SUBMIT"
    PROVE  ReviewInvariant'
<1>1. /\ UNCHANGED <<scope, server, queue, run, excused>> /\ act.step = "read"
      /\ \E t \in Review!Temp : \A k \in DOMAIN queue : queue[k].made # t
  BY DEF Review!ReadForQueue
<1>2. PICK t, o, row :
        /\ t = Review!NewTemp
        /\ o = Review!Opened(act.named)
        /\ row = [o EXCEPT !.sync = "PENDING"]
  OBVIOUS
<1>3. /\ cache' = [cache EXCEPT !.batch[t] = row]
      /\ act' = [act EXCEPT !.step = "enqueue", !.batch = t, !.rv = cache.version,
                            !.sees = act.named]
  BY <1>2, Zenon DEF Review!ReadForQueue
<1>4. t \in Review!Temp /\ ~IsBooked(queue, t) /\ t \in Cached /\ t \notin Review!Batch
  BY <1>1, <1>2, NewTempIsFree, BatchIds
<1>5. act \in Operating /\ act.named \in SUBSET ReviewSerial /\ cache \in CacheRows
      /\ cache.version \in Nat
  BY ActIsTyped DEF Operating, ReviewInvariant, DeviceRows, CacheRows
<1>6. o \in BatchRow /\ o.members = act.named
  BY <1>2, <1>5 DEF Review!Opened, BatchRow
<1>7. row \in BatchRow /\ row.members = act.named /\ row.status = "SUBMITTED"
  <2>1. o.status = "SUBMITTED"
    BY <1>2 DEF Review!Opened
  <2> QED BY <1>2, <1>6, <2>1 DEF BatchRow
<1>8. /\ cache' \in CacheRows /\ cache'.sync = cache.sync
      /\ cache'.batch[t] = row
      /\ \A b \in Cached \ {t} : cache'.batch[b] = cache.batch[b]
  BY <1>3, <1>4, <1>5, <1>7 DEF CacheRows
<1>9. /\ act' \in Operating /\ act'.step = "enqueue" /\ act'.batch = t /\ act'.op = "SUBMIT"
      /\ act'.sees = act.named /\ act'.named = act.named
  BY <1>3, <1>4, <1>5 DEF Operating, ActStep
<1>10. MembersStay /\ QueueKeeps /\ BookingsKept
  BY <1>1, NothingChanges, KeptParts DEF ReviewInvariant
<1>11. ServersKept
  BY <1>4, <1>8, BatchIds DEF ServersKept
<1>12. \A b \in Cached : cache'.batch[b].status = "none" => cache.batch[b].status = "none"
  BY <1>7, <1>8
<1>13. AnswerKnown' /\ QueueKnows'
  BY <1>1, <1>10, <1>11, AnswerStillKnown, QueueStillKnows DEF ReviewInvariant
<1>14. ReviewsReach'
  BY <1>1, <1>10, <1>12, ReviewsStillReach DEF ReviewInvariant, DeviceRows
<1>15. SyncStays
  BY <1>8 DEF SyncStays
<1>16. ServerSound' /\ DeviceRows' /\ RowsOwed'
  BY <1>1, <1>8, <1>9, <1>15, ServerStays, RowsStayWith DEF ReviewInvariant, DeviceRows
<1>17. StepsSound'
  BY <1>1, <1>4, <1>9 DEF ReviewInvariant, StepsSound, Review!Waiting, Review!Reviewing
<1>18. ActKnows'
  BY <1>1, <1>4, <1>7, <1>8, <1>9 DEF ActKnows, Review!Reviewing
<1>19. BatchesKnown'
  <2>1. \A b \in Review!Batch : cache'.batch[b].status # "none" =>
          b \in Review!Made' /\ cache'.batch[b].members = server'.batch[b].members
    BY <1>1, <1>4, <1>8, BatchIds DEF ReviewInvariant, BatchesKnown, Review!Made
  <2>2. ASSUME NEW u \in Review!Temp
        PROVE  /\ cache'.batch[u].status = "none" => cache'.batch[u].members = {}
               /\ cache'.batch[u].status # "none" =>
                     IsBooked(queue', u)
                     \/ (act'.op = "SUBMIT" /\ act'.step = "enqueue" /\ act'.batch = u)
               /\ cache'.batch[u].status = "SUBMITTED" =>
                     Booked(queue', u, cache'.batch[u].members)
    <3>1. CASE u = t
      BY <1>1, <1>4, <1>7, <1>8, <1>9, <3>1 DEF Booked, IsBooked
    <3>2. CASE u # t
      <4>1. cache'.batch[u] = cache.batch[u]
        BY <1>8, <3>2, BatchIds
      <4> QED BY <1>1, <4>1 DEF ReviewInvariant, BatchesKnown
    <3> QED BY <3>1, <3>2
  <2> QED BY <2>1, <2>2 DEF BatchesKnown
<1> QED BY <1>13, <1>14, <1>16, <1>17, <1>18, <1>19 DEF ReviewInvariant

LEMMA BatchReadKeeps ==
    ASSUME ReviewInvariant, Review!ReadForQueue, act.op # "SUBMIT"
    PROVE  ReviewInvariant'
<1>1. /\ UNCHANGED <<scope, server, cache, queue, run, excused>> /\ act.step = "read"
  BY DEF Review!ReadForQueue
<1>2. PICK sees, bv : sees = cache.batch[act.batch].members /\ bv = cache.batch[act.batch].version
  OBVIOUS
<1>3. \/ act' = Review!NoAct
      \/ /\ cache.batch[act.batch].status # "none"
         /\ act' = [act EXCEPT !.step = "enqueue", !.rv = cache.version, !.bv = bv, !.sees = sees]
  BY <1>2 DEF Review!ReadForQueue
<1>4. act \in Operating /\ act.op \in Review!Reviewing /\ act.batch \in Cached
      /\ cache \in CacheRows
  BY <1>1, ActIsTyped DEF ReviewInvariant, DeviceRows, StepsSound, Op, Review!Reviewing
<1>5. sees \in SUBSET ReviewSerial /\ bv \in Nat /\ cache.version \in Nat
  BY <1>2, <1>4 DEF CacheRows, BatchRow
<1>6. \/ act' \in Operating /\ act'.op = "none" /\ act'.step = "done"
      \/ /\ cache.batch[act.batch].status # "none"
         /\ act' \in Operating /\ act'.op = act.op /\ act'.batch = act.batch
         /\ act'.step = "enqueue" /\ act'.sees = sees
  <2>1. CASE act' = Review!NoAct
    BY <2>1, NoActIsDone
  <2>2. CASE act' = [act EXCEPT !.step = "enqueue", !.rv = cache.version, !.bv = bv, !.sees = sees]
    BY <1>3, <1>4, <1>5, <2>2, NoActIsDone DEF Operating, ActStep
  <2> QED BY <1>3, <2>1, <2>2
<1>7. MembersStay /\ CacheKeeps /\ QueueKeeps /\ BookingsKept /\ ServersKept
  BY <1>1, NothingChanges, KeptParts DEF ReviewInvariant
<1>8. AnswerKnown' /\ QueueKnows'
  BY <1>1, <1>7, AnswerStillKnown, QueueStillKnows DEF ReviewInvariant
<1>9. ReviewsReach'
  BY <1>1, <1>7, ReviewsStillReach DEF ReviewInvariant, DeviceRows
<1>10. ServerSound' /\ DeviceRows' /\ RowsOwed'
  BY <1>1, <1>6, ServerStays, RowsStayWith, SyncUnchanged DEF ReviewInvariant, DeviceRows
<1>11. BatchesKnown'
  BY <1>1, <1>4, <1>6 DEF ReviewInvariant, BatchesKnown, Review!Made, Review!Reviewing
<1>12. StepsSound'
  BY <1>1, <1>4, <1>6 DEF ReviewInvariant, StepsSound, Review!Waiting, Review!Reviewing
<1>13. ActKnows'
  <2>1. CASE act'.op = "none"
    BY <2>1 DEF ActKnows, Review!Reviewing
  <2>2. CASE /\ cache.batch[act.batch].status # "none"
             /\ act'.op = act.op /\ act'.batch = act.batch
             /\ act'.step = "enqueue" /\ act'.sees = sees
    <3>1. act.batch \in Review!Batch => sees = server.batch[act.batch].members
      BY <1>2, <2>2 DEF ReviewInvariant, BatchesKnown
    <3>2. act.batch \in Review!Temp => IsBooked(queue, act.batch) /\ Booked(queue, act.batch, sees)
          /\ cache.batch[act.batch].status = "SUBMITTED"
      BY <1>2, <1>4, <2>2 DEF ReviewInvariant, BatchesKnown, ActKnows
    <3> QED BY <1>1, <1>2, <1>4, <2>2, <3>1, <3>2 DEF ActKnows, Review!Reviewing
  <2> QED BY <1>6, <2>1, <2>2
<1> QED BY <1>8, <1>9, <1>10, <1>11, <1>12, <1>13 DEF ReviewInvariant


(* The request of an operation is queued.                                  *)
LEMMA EnqueueKeeps ==
    ASSUME ReviewInvariant, Review!Enqueue
    PROVE  ReviewInvariant'
<1>1. UNCHANGED <<scope, server, cache, run>> /\ act.step = "enqueue"
  BY DEF Review!Enqueue
<1>2. PICK r, n : r = Review!Request /\ n = Len(queue) + 1
  OBVIOUS
<1>3. /\ queue' = Append(queue, r)
      /\ act' = [act EXCEPT !.step = "mark", !.item = n]
      /\ excused' = excused \cup
            (IF cache.batch[act.batch].status = "none" THEN ReviewSerial ELSE {})
  BY <1>2, Zenon DEF Review!Enqueue
<1>4. act \in Operating /\ act.op \in Op /\ act.batch \in Cached
  BY <1>1, ActIsTyped, BatchIds DEF ReviewInvariant, StepsSound, Op, Review!Reviewing
<1>5. act.op = "SUBMIT" => act.batch \in Review!Temp
  BY <1>1 DEF ReviewInvariant, StepsSound
<1>6. /\ r \in Queued
      /\ r.op = act.op /\ r.batch = act.batch /\ r.named = act.named /\ r.sees = act.sees
      /\ r.status = "PENDING"
      /\ r.made = (IF act.op = "SUBMIT" THEN act.batch ELSE 0)
  BY <1>2, <1>4, <1>5 DEF Review!Request, Queued, Operating
<1>7. /\ queue' \in Seq(Queued) /\ n \in Nat /\ n \notin DOMAIN queue
      /\ DOMAIN queue' = DOMAIN queue \cup {n}
      /\ queue'[n] = r
      /\ \A k \in DOMAIN queue : queue'[k] = queue[k]
  <2>1. queue \in Seq(Queued)
    BY DEF ReviewInvariant, DeviceRows
  <2> QED BY <2>1, <1>2, <1>3, <1>6
<1>8. /\ act' \in Operating /\ act'.step = "mark" /\ act'.item = n /\ act'.op = act.op
      /\ act'.batch = act.batch /\ act'.named = act.named /\ act'.sees = act.sees
  BY <1>3, <1>4, <1>7 DEF Operating, ActStep
<1>9. excused' \subseteq ReviewSerial /\ excused \subseteq excused'
  BY <1>3 DEF ReviewInvariant, DeviceRows
<1>10. /\ \A t : IsBooked(queue, t) => IsBooked(queue', t)
       /\ \A t, M : Booked(queue, t, M) /\ (r.made = t => r.named = M) => Booked(queue', t, M)
  BY <1>7 DEF IsBooked, Booked
<1>11. ServerSound'
  BY <1>1, ServerStays DEF ReviewInvariant
<1>12. DeviceRows'
  BY <1>1, <1>7, <1>8, <1>9 DEF ReviewInvariant, DeviceRows
<1>13. StepsSound'
  <2>1. /\ act'.op # "none"
        /\ act'.op = "SUBMIT" => act'.batch \in Review!Temp
        /\ act'.item \in DOMAIN queue' /\ queue'[act'.item].op = act'.op
        /\ queue'[act'.item].named = act'.named /\ queue'[act'.item].sees = act'.sees
        /\ act'.batch \in Cached
    BY <1>4, <1>5, <1>6, <1>7, <1>8 DEF Op
  <2>2. /\ run.item # 0 =>
              run.item \in DOMAIN queue' /\ run.item \notin run.todo
              /\ queue'[run.item].status = "PENDING"
        /\ \A k \in run.todo : queue'[k].status = "PENDING"
    BY <1>7 DEF ReviewInvariant, DeviceRows, StepsSound, Review!Waiting
  <2>3. run.step \in SendStep <=> run.item # 0
    BY DEF ReviewInvariant, StepsSound
  <2> QED BY <1>1, <1>8, <2>1, <2>2, <2>3 DEF StepsSound, Review!Waiting
<1>14. BatchesKnown'
  <2>1. \A b \in Review!Batch : cache'.batch[b].status # "none" =>
          b \in Review!Made' /\ cache'.batch[b].members = server'.batch[b].members
    BY <1>1 DEF ReviewInvariant, BatchesKnown, Review!Made
  <2>2. ASSUME NEW t \in Review!Temp
        PROVE  /\ cache.batch[t].status = "none" => cache.batch[t].members = {}
               /\ cache.batch[t].status # "none" => IsBooked(queue', t)
               /\ cache.batch[t].status = "SUBMITTED" => Booked(queue', t, cache.batch[t].members)
    <3>1. cache.batch[t].status = "none" => cache.batch[t].members = {}
      BY DEF ReviewInvariant, BatchesKnown
    <3>2. act.op = "SUBMIT" => IsBooked(queue', act.batch)
      BY <1>6, <1>7 DEF IsBooked
    <3>3. cache.batch[t].status # "none" => IsBooked(queue', t)
      BY <1>10, <3>2 DEF ReviewInvariant, BatchesKnown
    <3>4. r.made = t => cache.batch[t].members = r.named
      BY <1>1, <1>6, BatchIds DEF ReviewInvariant, ActKnows
    <3>5. cache.batch[t].status = "SUBMITTED" => Booked(queue, t, cache.batch[t].members)
      BY DEF ReviewInvariant, BatchesKnown
    <3> QED BY <1>10, <3>1, <3>3, <3>4, <3>5
  <2> QED BY <1>1, <2>1, <2>2 DEF BatchesKnown
<1>15. ActKnows'
  <2>1. act.op = "SUBMIT" => act.sees = act.named
    BY <1>1 DEF ReviewInvariant, ActKnows
  <2>2. act.op \in Review!Reviewing /\ act.batch \in Review!Batch =>
          cache.batch[act.batch].status # "none" /\ act.sees = server.batch[act.batch].members
    BY <1>1 DEF ReviewInvariant, ActKnows
  <2>3. act.op \in Review!Reviewing /\ act.batch \in Review!Temp =>
          /\ IsBooked(queue', act.batch)
          /\ cache.batch[act.batch].status \in {"none", "SUBMITTED"}
          /\ Booked(queue', act.batch, act.sees)
          /\ cache.batch[act.batch].members \subseteq act.sees
    <3> SUFFICES ASSUME act.op \in Review!Reviewing, act.batch \in Review!Temp
                 PROVE  /\ IsBooked(queue', act.batch)
                        /\ cache.batch[act.batch].status \in {"none", "SUBMITTED"}
                        /\ Booked(queue', act.batch, act.sees)
                        /\ cache.batch[act.batch].members \subseteq act.sees
      OBVIOUS
    <3>1. r.made = 0 /\ act.batch # 0
      BY <1>6, BatchIds DEF Review!Reviewing
    <3>2. /\ IsBooked(queue, act.batch)
          /\ cache.batch[act.batch].status \in {"none", "SUBMITTED"}
          /\ Booked(queue, act.batch, act.sees)
          /\ cache.batch[act.batch].members \subseteq act.sees
      BY <1>1 DEF ReviewInvariant, ActKnows
    <3> QED BY <1>10, <3>1, <3>2
  <2> QED BY <1>1, <1>8, <2>1, <2>2, <2>3 DEF ActKnows
<1>16. QueueKnows'
  <2>1. ASSUME NEW k \in DOMAIN queue
        PROVE  IF queue[k].op = "SUBMIT"
               THEN /\ queue[k].batch = queue[k].made /\ queue[k].made \in Review!Temp
                    /\ queue[k].sees = queue[k].named
               ELSE /\ queue[k].made = 0
                    /\ queue[k].batch \in Review!Batch =>
                          /\ cache.batch[queue[k].batch].status # "none"
                          /\ server.batch[queue[k].batch].members = queue[k].sees
                    /\ queue[k].batch \in Review!Temp =>
                          IsBooked(queue', queue[k].batch)
                          /\ Booked(queue', queue[k].batch, queue[k].sees)
    <3>1. CASE queue[k].op = "SUBMIT"
      BY <3>1 DEF ReviewInvariant, QueueKnows
    <3>2. CASE queue[k].op # "SUBMIT"
      <4>1. /\ queue[k].made = 0
            /\ queue[k].batch \in Review!Batch =>
                  /\ cache.batch[queue[k].batch].status # "none"
                  /\ server.batch[queue[k].batch].members = queue[k].sees
        BY <3>2 DEF ReviewInvariant, QueueKnows
      <4>2. queue[k].batch \in Review!Temp =>
               IsBooked(queue, queue[k].batch) /\ Booked(queue, queue[k].batch, queue[k].sees)
        BY <3>2 DEF ReviewInvariant, QueueKnows
      <4>3. queue[k].batch \in Review!Temp => queue[k].batch # r.made
        BY <1>1, <1>6, <4>2, BatchIds DEF ReviewInvariant, ActKnows
      <4> QED BY <1>10, <3>2, <4>1, <4>2, <4>3
    <3> QED BY <3>1, <3>2
  <2>2. IF r.op = "SUBMIT"
        THEN r.batch = r.made /\ r.made \in Review!Temp /\ r.sees = r.named
        ELSE /\ r.made = 0
             /\ r.batch \in Review!Batch =>
                   cache.batch[r.batch].status # "none" /\ server.batch[r.batch].members = r.sees
             /\ r.batch \in Review!Temp => IsBooked(queue', r.batch) /\ Booked(queue', r.batch, r.sees)
    <3>1. CASE act.op = "SUBMIT"
      BY <1>1, <1>5, <1>6, <3>1 DEF ReviewInvariant, ActKnows
    <3>2. CASE act.op \in Review!Reviewing
      <4>1. r.op # "SUBMIT" /\ r.made = 0 /\ r.batch = act.batch /\ r.sees = act.sees
        BY <1>6, <3>2 DEF Review!Reviewing
      <4>2. act.batch \in Review!Batch =>
              cache.batch[act.batch].status # "none" /\ server.batch[act.batch].members = act.sees
        BY <1>1, <3>2 DEF ReviewInvariant, ActKnows
      <4>3. act.batch \in Review!Temp =>
              IsBooked(queue', act.batch) /\ Booked(queue', act.batch, act.sees)
        BY <1>1, <1>8, <1>15, <3>2 DEF ActKnows
      <4> QED BY <4>1, <4>2, <4>3
    <3> QED BY <1>4, <3>1, <3>2 DEF Op, Review!Reviewing
  <2>3. \A j, k \in DOMAIN queue' : queue'[j].made = queue'[k].made /\ queue'[j].made # 0 => j = k
    <3>1. \A k \in DOMAIN queue : r.made # 0 => queue[k].made # r.made
      BY <1>1, <1>6 DEF ReviewInvariant, ActKnows, IsBooked
    <3>2. \A j, k \in DOMAIN queue : queue[j].made = queue[k].made /\ queue[j].made # 0 => j = k
      BY DEF ReviewInvariant, QueueKnows
    <3> QED BY <1>7, <3>1, <3>2
  <2>4. ASSUME NEW k \in DOMAIN queue'
        PROVE  IF queue'[k].op = "SUBMIT"
               THEN /\ queue'[k].batch = queue'[k].made /\ queue'[k].made \in Review!Temp
                    /\ queue'[k].sees = queue'[k].named
               ELSE /\ queue'[k].made = 0
                    /\ queue'[k].batch \in Review!Batch =>
                          /\ cache'.batch[queue'[k].batch].status # "none"
                          /\ server'.batch[queue'[k].batch].members = queue'[k].sees
                    /\ queue'[k].batch \in Review!Temp =>
                          IsBooked(queue', queue'[k].batch)
                          /\ Booked(queue', queue'[k].batch, queue'[k].sees)
    <3>1. CASE k = n
      BY <1>1, <1>7, <2>2, <3>1
    <3>2. CASE k \in DOMAIN queue
      BY <1>1, <1>7, <2>1, <3>2
    <3> QED BY <1>7, <2>4, <3>1, <3>2
  <2> QED BY <2>3, <2>4 DEF QueueKnows
<1>17. AnswerKnown'
  <2>1. run.step \in {"cache", "remap"} => run.item \in DOMAIN queue
    BY DEF ReviewInvariant, StepsSound, SendStep
  <2> QED BY <1>1, <1>7, <2>1 DEF ReviewInvariant, AnswerKnown, Review!Item, Review!Made
<1>18. ReviewsReach'
  <2> SUFFICES ASSUME NEW k \in DOMAIN queue', queue'[k].status = "PENDING",
                      queue'[k].op # "SUBMIT", cache.batch[queue'[k].batch].status = "none"
               PROVE  excused' = ReviewSerial
                      \/ (run.step = "remap" /\ queue'[run.item].batch = queue'[k].batch)
    BY <1>1 DEF ReviewsReach, Review!Waiting, Review!Item
  <2>1. CASE k = n
    BY <1>3, <1>6, <1>7, <1>9, <2>1
  <2>2. CASE k \in DOMAIN queue
    <3>1. excused = ReviewSerial
          \/ (run.step = "remap" /\ queue[run.item].batch = queue[k].batch)
      BY <1>7, <2>2 DEF ReviewInvariant, ReviewsReach, Review!Waiting, Review!Item
    <3>2. run.step = "remap" => run.item \in DOMAIN queue
      BY DEF ReviewInvariant, StepsSound, SendStep
    <3> QED BY <1>7, <1>9, <2>2, <3>1, <3>2
  <2> QED BY <1>7, <2>1, <2>2
<1>19. RowsOwed'
  BY <1>1, <1>7, <1>9 DEF ReviewInvariant, RowsOwed
<1> QED BY <1>11, <1>12, <1>13, <1>14, <1>15, <1>16, <1>17, <1>18, <1>19 DEF ReviewInvariant


(* The rows of a request are marked on the device.                         *)
LEMMA WrittenRows ==
    ASSUME DeviceRows, NEW op \in Op, NEW rows \in SUBSET ReviewSerial
    PROVE  /\ Review!Written(cache, rows, op) \in CacheRows
           /\ Review!Written(cache, rows, op).batch = cache.batch
           /\ \A s \in ReviewSerial : Review!Written(cache, rows, op).sync[s] = "PENDING" =>
                 s \in Review!Touched(rows) \/ cache.sync[s] = "PENDING"
<1>1. PICK w, status, sync :
        /\ w = Review!Written(cache, rows, op)
        /\ status = Review!Marked(cache.status, rows, op)
        /\ sync = [s \in ReviewSerial |->
                     IF s \in Review!Touched(rows) THEN "PENDING" ELSE cache.sync[s]]
  OBVIOUS
<1>2. w = [cache EXCEPT !.status = status, !.sync = sync]
  BY <1>1, Zenon DEF Review!Written
<1>3. cache \in CacheRows
  BY DEF DeviceRows
<1>4. status \in StatusMap
  <2>1. Review!StatusAfter(op) \in RowStatus
    BY DEF Review!StatusAfter, RowStatus, Op
  <2>2. cache.status \in StatusMap
    BY <1>3 DEF CacheRows
  <2> QED BY <1>1, <2>1, <2>2 DEF Review!Marked, StatusMap
<1>5. sync \in [ReviewSerial -> {"SYNCED", "PENDING"}]
      /\ \A s \in ReviewSerial : sync[s] = "PENDING" =>
            s \in Review!Touched(rows) \/ cache.sync[s] = "PENDING"
  BY <1>1, <1>3 DEF CacheRows
<1>6. w \in CacheRows /\ w.batch = cache.batch /\ w.sync = sync
  BY <1>2, <1>3, <1>4, <1>5 DEF CacheRows
<1> QED BY <1>1, <1>5, <1>6

(* What marking does to the cached batches.                                *)
RowsMarked(rows) ==
    /\ cache' \in CacheRows
    /\ \A b \in Cached :
          /\ cache'.batch[b].members = cache.batch[b].members
          /\ \/ cache'.batch[b].status = cache.batch[b].status
             \/ /\ b = act.batch /\ act.op # "SUBMIT"
                /\ cache'.batch[b].status \in {"APPROVED", "RETURNED"}
    /\ \A s \in ReviewSerial : cache'.sync[s] = "PENDING" =>
          s \in Review!Touched(rows) \/ cache.sync[s] = "PENDING"

LEMMA MarkingKeepsMembers ==
    ASSUME ReviewInvariant, Review!MarkRows
    PROVE  \E rows \in SUBSET ReviewSerial :
              /\ RowsMarked(rows)
              /\ act.op = "SUBMIT" => rows = act.named
              /\ act.op # "SUBMIT" =>
                    rows = Review!Targets(act, cache.batch[act.batch].members, cache.status)
              /\ excused' = excused \cup
                   (IF queue[act.item].status # "PENDING" \/ run.item = act.item
                    THEN Review!Touched(rows) ELSE {})
<1>1. PICK b, members, rows, marked, links, old, verdict, bv :
        /\ b = act.batch
        /\ members = cache.batch[act.batch].members
        /\ rows = (IF act.op = "SUBMIT" THEN act.named
                   ELSE Review!Targets(act, cache.batch[act.batch].members, cache.status))
        /\ marked = Review!Written(cache, rows, act.op)
        /\ links = cache.batch[act.batch].pending \ rows
        /\ old = marked.batch[act.batch]
        /\ verdict = Review!Verdict(act.op)
        /\ bv = act.bv
  OBVIOUS
<1>2. PICK row :
        row = [old EXCEPT !.status = verdict, !.version = bv, !.members = members, !.pending = links]
  OBVIOUS
<1>3. act.step = "mark" /\ act \in Operating /\ act.op \in Op /\ cache \in CacheRows
  BY ActIsTyped DEF Review!MarkRows, ReviewInvariant, DeviceRows
<1>4. \/ act.op = "SUBMIT" /\ cache' = marked
      \/ act.op # "SUBMIT" /\ cache' = [marked EXCEPT !.batch[b].pending = links]
      \/ act.op # "SUBMIT" /\ cache' = [marked EXCEPT !.batch[b] = row]
  BY <1>1, <1>2, Zenon DEF Review!MarkRows
<1>5. act.op # "SUBMIT" => b \in Cached
  BY <1>1, <1>3 DEF ReviewInvariant, StepsSound, Op, Review!Reviewing
<1>6. rows \in SUBSET ReviewSerial
  <2>1. CASE act.op = "SUBMIT"
    BY <1>1, <1>3, <2>1 DEF Operating
  <2>2. CASE act.op # "SUBMIT"
    <3>1. cache.batch[act.batch].members \in SUBSET ReviewSerial
      BY <1>1, <1>3, <1>5, <2>2 DEF CacheRows, BatchRow
    <3> QED BY <1>1, <1>3, <2>2, <3>1 DEF Operating, Review!Targets
  <2> QED BY <2>1, <2>2
<1>7. /\ marked \in CacheRows /\ marked.batch = cache.batch
      /\ \A s \in ReviewSerial : marked.sync[s] = "PENDING" =>
            s \in Review!Touched(rows) \/ cache.sync[s] = "PENDING"
  BY <1>1, <1>3, <1>6, WrittenRows DEF ReviewInvariant
<1>8. RowsMarked(rows)
  <2>1. CASE cache' = marked
    BY <1>7, <2>1 DEF RowsMarked
  <2>2. CASE act.op # "SUBMIT" /\ cache' = [marked EXCEPT !.batch[b].pending = links]
    <3>1. links \in SUBSET ReviewSerial
      BY <1>1, <1>3, <1>5, <2>2 DEF CacheRows, BatchRow
    <3>2. b \in Cached /\ marked \in CacheRows /\ cache' = [marked EXCEPT !.batch[b].pending = links]
      BY <1>5, <1>7, <2>2
    <3>3. cache' \in CacheRows
      <4>1. PICK batch : batch = [marked.batch EXCEPT ![b].pending = links]
        OBVIOUS
      <4>2. marked.batch \in [Cached -> BatchRow]
        BY <3>2 DEF CacheRows
      <4>3. batch \in [Cached -> BatchRow]
        BY <3>1, <3>2, <4>1, <4>2 DEF BatchRow
      <4>4. cache' = [marked EXCEPT !.batch = batch]
        BY <3>2, <4>1
      <4> QED BY <3>2, <4>3, <4>4 DEF CacheRows
    <3>4. cache'.sync = marked.sync
          /\ \A c \in Cached : cache'.batch[c].status = marked.batch[c].status
                               /\ cache'.batch[c].members = marked.batch[c].members
      BY <3>1, <3>2 DEF CacheRows, BatchRow
    <3> QED BY <1>7, <3>3, <3>4 DEF RowsMarked
  <2>3. CASE act.op # "SUBMIT" /\ cache' = [marked EXCEPT !.batch[b] = row]
    <3>1. links \in SUBSET ReviewSerial /\ members \in SUBSET ReviewSerial /\ old \in BatchRow
      BY <1>1, <1>3, <1>5, <1>7, <2>3 DEF CacheRows, BatchRow
    <3>2. verdict \in {"APPROVED", "RETURNED"} /\ bv \in Nat
      BY <1>1, <1>3 DEF Review!Verdict, Operating
    <3>3. row \in BatchRow /\ row.status = verdict /\ row.members = members
      BY <1>2, <3>1, <3>2 DEF BatchRow
    <3>4. cache' \in CacheRows /\ cache'.sync = marked.sync
          /\ cache'.batch[b] = row
          /\ \A c \in Cached \ {b} : cache'.batch[c] = marked.batch[c]
      BY <1>5, <1>7, <2>3, <3>3 DEF CacheRows
    <3> QED BY <1>1, <1>7, <2>3, <3>2, <3>3, <3>4 DEF RowsMarked
  <2> QED BY <1>4, <2>1, <2>2, <2>3
<1>9. excused' = excused \cup
        (IF queue[act.item].status # "PENDING" \/ run.item = act.item
         THEN Review!Touched(rows) ELSE {})
  BY <1>1, Zenon DEF Review!MarkRows
<1> QED BY <1>1, <1>6, <1>8, <1>9

LEMMA MarkRowsKeeps ==
    ASSUME ReviewInvariant, Review!MarkRows
    PROVE  ReviewInvariant'
<1>1. /\ UNCHANGED <<scope, server, queue, run>> /\ act.step = "mark" /\ act' = Review!NoAct
  BY DEF Review!MarkRows
<1>2. PICK rows \in SUBSET ReviewSerial :
        /\ RowsMarked(rows)
        /\ act.op = "SUBMIT" => rows = act.named
        /\ act.op # "SUBMIT" =>
              rows = Review!Targets(act, cache.batch[act.batch].members, cache.status)
        /\ excused' = excused \cup
             (IF queue[act.item].status # "PENDING" \/ run.item = act.item
              THEN Review!Touched(rows) ELSE {})
  BY MarkingKeepsMembers
<1>3. act'.op = "none" /\ act'.step = "done" /\ act' \in Operating
  BY <1>1, NoActIsDone
<1>4. act.op \in Op /\ act \in Operating /\ (act.op # "SUBMIT" => act.op \in Review!Reviewing)
      /\ (act.op # "SUBMIT" => act.batch \in Cached)
  BY <1>1, ActIsTyped DEF ReviewInvariant, StepsSound, Op, Review!Reviewing
<1>5. Review!Touched(rows) \subseteq ReviewSerial
  BY DEF Review!Touched
<1>6. excused \subseteq excused' /\ excused' \subseteq ReviewSerial
  BY <1>2, <1>5 DEF ReviewInvariant, DeviceRows
<1>7. MembersStay /\ QueueKeeps /\ BookingsKept /\ ServerSound'
  BY <1>1, NothingChanges, KeptParts, ServerStays DEF ReviewInvariant
<1>8. \A b \in Cached : cache'.batch[b].status = "none" => cache.batch[b].status = "none"
  BY <1>2 DEF RowsMarked
<1>9. ServersKept
  BY <1>8, BatchIds DEF ServersKept
<1>10. AnswerKnown' /\ QueueKnows'
  BY <1>1, <1>7, <1>9, AnswerStillKnown, QueueStillKnows DEF ReviewInvariant
<1>11. ReviewsReach'
  BY <1>1, <1>6, <1>7, <1>8, ReviewsStillReach DEF ReviewInvariant
<1>12. DeviceRows'
  BY <1>1, <1>2, <1>3, <1>6 DEF ReviewInvariant, DeviceRows, RowsMarked
<1>13. StepsSound'
  BY <1>1, <1>3 DEF ReviewInvariant, StepsSound, Review!Waiting, Review!Reviewing
<1>14. ActKnows'
  BY <1>3 DEF ActKnows, Review!Reviewing
<1>15. BatchesKnown'
  <2>1. \A b \in Review!Batch : cache'.batch[b].status # "none" => cache.batch[b].status # "none"
    <3>1. act.op # "SUBMIT" /\ act.batch \in Review!Batch => cache.batch[act.batch].status # "none"
      BY <1>4 DEF ReviewInvariant, ActKnows
    <3> QED BY <1>2, <3>1, BatchIds DEF RowsMarked
  <2>2. \A b \in Review!Batch : cache'.batch[b].status # "none" =>
          b \in Review!Made' /\ cache'.batch[b].members = server'.batch[b].members
    <3> SUFFICES ASSUME NEW b \in Review!Batch, cache'.batch[b].status # "none"
                 PROVE  b \in Review!Made' /\ cache'.batch[b].members = server'.batch[b].members
      OBVIOUS
    <3>1. b \in Review!Made /\ cache.batch[b].members = server.batch[b].members
      BY <2>1 DEF ReviewInvariant, BatchesKnown
    <3> QED BY <1>1, <1>2, <3>1, BatchIds DEF RowsMarked, Review!Made
  <2>3. ASSUME NEW t \in Review!Temp
        PROVE  /\ cache'.batch[t].status = "none" => cache'.batch[t].members = {}
               /\ cache'.batch[t].status # "none" => IsBooked(queue', t)
               /\ cache'.batch[t].status = "SUBMITTED" => Booked(queue', t, cache'.batch[t].members)
    <3>1. /\ cache'.batch[t].members = cache.batch[t].members
          /\ \/ cache'.batch[t].status = cache.batch[t].status
             \/ /\ t = act.batch /\ act.op # "SUBMIT"
                /\ cache'.batch[t].status \in {"APPROVED", "RETURNED"}
      BY <1>2, BatchIds DEF RowsMarked
    <3>2. t = act.batch /\ act.op # "SUBMIT" => IsBooked(queue, t)
      BY <1>4 DEF ReviewInvariant, ActKnows
    <3>3. /\ cache.batch[t].status = "none" => cache.batch[t].members = {}
          /\ cache.batch[t].status # "none" => IsBooked(queue, t)
          /\ cache.batch[t].status = "SUBMITTED" => Booked(queue, t, cache.batch[t].members)
      BY <1>1 DEF ReviewInvariant, BatchesKnown
    <3> QED BY <1>1, <3>1, <3>2, <3>3
  <2> QED BY <2>2, <2>3 DEF BatchesKnown
<1>16. RowsOwed'
  <2> SUFFICES ASSUME scope = "report", NEW s \in ReviewSerial \ excused',
                      cache'.sync[s] = "PENDING"
               PROVE  \E k \in DOMAIN queue : s \in RowsOf(queue[k]) /\ queue[k].status # "SYNCED"
    BY <1>1 DEF RowsOwed
  <2>1. CASE cache.sync[s] = "PENDING"
    BY <1>6, <2>1 DEF ReviewInvariant, RowsOwed
  <2>2. CASE s \in rows
    <3>1. Review!Touched(rows) = rows
      BY DEF Review!Touched
    <3>2. queue[act.item].status = "PENDING"
      BY <1>2, <2>2, <3>1
    <3>3. /\ act.item \in DOMAIN queue
          /\ queue[act.item].named = act.named /\ queue[act.item].sees = act.sees
      BY <1>1 DEF ReviewInvariant, StepsSound
    <3>4. s \in RowsOf(act)
      <4>1. CASE act.op = "SUBMIT"
        BY <1>2, <2>2, <4>1 DEF RowsOf
      <4>2. CASE act.op # "SUBMIT"
        <5>1. cache.batch[act.batch].members \subseteq act.sees
          <6>1. CASE act.batch \in Review!Temp
            BY <1>1, <1>4, <4>2, <6>1 DEF ReviewInvariant, ActKnows
          <6>2. CASE act.batch \in Review!Batch
            BY <1>1, <1>4, <4>2, <6>2 DEF ReviewInvariant, ActKnows, BatchesKnown
          <6> QED BY <1>4, <4>2, <6>1, <6>2 DEF Cached
        <5> QED BY <1>2, <2>2, <4>2, <5>1 DEF RowsOf, Review!Targets
      <4> QED BY <4>1, <4>2
    <3> QED BY <3>2, <3>3, <3>4 DEF RowsOf
  <2> QED BY <1>2, <2>1, <2>2 DEF RowsMarked, Review!Touched
<1> QED BY <1>7, <1>10, <1>11, <1>12, <1>13, <1>14, <1>15, <1>16 DEF ReviewInvariant


(* The server's answer is taken over.                                      *)
LEMMA SubmissionTaken ==
    ASSUME ReviewInvariant, Review!CacheAnswer, Review!Item.op = "SUBMIT"
    PROVE  ReviewInvariant'
<1>1. UNCHANGED <<scope, server, queue, act, excused>> /\ run.step = "cache"
  BY DEF Review!CacheAnswer
<1>2. PICK t, answer, row, none, r :
        /\ r = Review!Item /\ t = Review!Item.batch /\ answer = run.answer
        /\ row = Review!Opened(Review!Item.named) /\ none = Review!NoBatch
  OBVIOUS
<1>3. cache' = [cache EXCEPT !.batch[t] = none, !.batch[answer] = row]
  BY <1>2, Zenon DEF Review!CacheAnswer
<1>4. /\ run.item \in DOMAIN queue /\ r = queue[run.item] /\ r \in Queued
      /\ Review!Waiting(run.item) /\ r.op = "SUBMIT" /\ t = r.batch
  BY <1>1, <1>2, ItemAtHand DEF SendStep, Review!Item
<1>5. t \in Review!Temp /\ r.made = t /\ IsBooked(queue, t)
  BY <1>4 DEF ReviewInvariant, QueueKnows, IsBooked
<1>6. answer \in Review!Made /\ server.batch[answer].members = r.named
      /\ answer \in Review!Batch /\ answer # t
  BY <1>1, <1>2, <1>5, BatchIds DEF ReviewInvariant, AnswerKnown, Review!Made
<1>7. /\ none \in BatchRow /\ none.status = "none" /\ none.members = {}
      /\ row \in BatchRow /\ row.status = "SUBMITTED" /\ row.members = r.named
  BY <1>2, <1>4 DEF Review!NoBatch, Review!Opened, BatchRow, Queued
<1>8. cache \in CacheRows /\ run \in Running
  BY DEF ReviewInvariant, DeviceRows
<1>9. /\ cache' \in CacheRows /\ cache'.sync = cache.sync
      /\ cache'.batch[t] = none /\ cache'.batch[answer] = row
      /\ \A b \in Cached \ {t, answer} : cache'.batch[b] = cache.batch[b]
  <2>1. PICK batch : batch = [cache.batch EXCEPT ![t] = none, ![answer] = row]
    OBVIOUS
  <2>2. cache' = [cache EXCEPT !.batch = batch]
    BY <1>3, <1>8, <2>1 DEF CacheRows
  <2>3. t \in Cached /\ answer \in Cached
    BY <1>5, <1>6, BatchIds
  <2>4. /\ batch \in [Cached -> BatchRow]
        /\ batch[t] = none /\ batch[answer] = row
        /\ \A b \in Cached \ {t, answer} : batch[b] = cache.batch[b]
    BY <1>6, <1>7, <1>8, <2>1, <2>3 DEF CacheRows
  <2> QED BY <1>8, <2>2, <2>4 DEF CacheRows
<1>10. run' \in Running /\ run'.step = "remap" /\ run'.item = run.item /\ run'.todo = run.todo
       /\ run'.answer = answer
  <2>1. run' = [run EXCEPT !.step = "remap"]
    BY DEF Review!CacheAnswer
  <2> QED BY <1>2, <1>8, <2>1 DEF Running, SendStep
<1>11. MembersStay /\ QueueKeeps /\ BookingsKept /\ ServerSound'
  BY <1>1, NothingChanges, KeptParts, ServerStays DEF ReviewInvariant
<1>12. ServersKept
  BY <1>5, <1>7, <1>9, BatchIds DEF ServersKept
<1>13. QueueKnows'
  BY <1>11, <1>12, QueueStillKnows DEF ReviewInvariant
<1>14. AnswerKnown'
  BY <1>1, <1>4, <1>6, <1>7, <1>9, <1>10 DEF AnswerKnown, Review!Item, Review!Made
<1>15. SyncStays
  BY <1>9 DEF SyncStays
<1>16. DeviceRows' /\ RowsOwed'
  BY <1>1, <1>9, <1>10, <1>15, RowsStayWith DEF ReviewInvariant, DeviceRows
<1>17. StepsSound'
  BY <1>1, <1>10 DEF ReviewInvariant, StepsSound, Review!Waiting, SendStep
<1>18. BatchesKnown'
  <2>1. ASSUME NEW b \in Review!Batch, cache'.batch[b].status # "none"
        PROVE  b \in Review!Made /\ cache'.batch[b].members = server.batch[b].members
    <3>1. CASE b = answer
      BY <1>6, <1>7, <1>9, <3>1
    <3>2. CASE b # answer
      <4>1. cache'.batch[b] = cache.batch[b]
        BY <1>5, <1>9, <3>2, BatchIds
      <4> QED BY <2>1, <4>1 DEF ReviewInvariant, BatchesKnown
    <3> QED BY <3>1, <3>2
  <2>2. ASSUME NEW u \in Review!Temp
        PROVE  /\ cache'.batch[u].status = "none" => cache'.batch[u].members = {}
               /\ cache'.batch[u].status # "none" =>
                     IsBooked(queue', u)
                     \/ (act'.op = "SUBMIT" /\ act'.step = "enqueue" /\ act'.batch = u)
               /\ cache'.batch[u].status = "SUBMITTED" =>
                     Booked(queue', u, cache'.batch[u].members)
    <3>1. CASE u = t
      BY <1>7, <1>9, <3>1
    <3>2. CASE u # t
      <4>1. cache'.batch[u] = cache.batch[u]
        BY <1>6, <1>9, <3>2, BatchIds
      <4> QED BY <1>1, <4>1 DEF ReviewInvariant, BatchesKnown
    <3> QED BY <3>1, <3>2
  <2>3. Review!Made' = Review!Made
    BY <1>1 DEF Review!Made
  <2> QED BY <1>1, <2>1, <2>2, <2>3 DEF BatchesKnown
<1>19. ActKnows'
  <2>1. act.op = "SUBMIT" /\ act.step \in {"enqueue", "mark"} => act.sees = act.named
    BY DEF ReviewInvariant, ActKnows
  <2>2. act.op = "SUBMIT" /\ act.step = "enqueue" =>
          ~IsBooked(queue, act.batch) /\ cache'.batch[act.batch].members = act.named
    <3> SUFFICES ASSUME act.op = "SUBMIT", act.step = "enqueue"
                 PROVE  ~IsBooked(queue, act.batch) /\ cache'.batch[act.batch].members = act.named
      OBVIOUS
    <3>1. ~IsBooked(queue, act.batch) /\ cache.batch[act.batch].members = act.named
          /\ act.batch \in Review!Temp
      BY DEF ReviewInvariant, ActKnows, StepsSound
    <3>2. cache'.batch[act.batch] = cache.batch[act.batch]
      BY <1>5, <1>6, <1>9, <3>1, BatchIds
    <3> QED BY <3>1, <3>2
  <2>3. act.op \in Review!Reviewing /\ act.batch \in Review!Batch =>
          /\ cache'.batch[act.batch].status # "none"
          /\ act.step \in {"enqueue", "mark"} => act.sees = server.batch[act.batch].members
    BY <1>12 DEF ReviewInvariant, ActKnows, ServersKept
  <2>4. act.op \in Review!Reviewing /\ act.batch \in Review!Temp =>
          /\ IsBooked(queue, act.batch)
          /\ cache'.batch[act.batch].status \in {"none", "SUBMITTED"}
          /\ act.step \in {"enqueue", "mark"} =>
                /\ Booked(queue, act.batch, act.sees)
                /\ cache'.batch[act.batch].members \subseteq act.sees
    <3> SUFFICES ASSUME act.op \in Review!Reviewing, act.batch \in Review!Temp
                 PROVE  /\ IsBooked(queue, act.batch)
                        /\ cache'.batch[act.batch].status \in {"none", "SUBMITTED"}
                        /\ act.step \in {"enqueue", "mark"} =>
                              /\ Booked(queue, act.batch, act.sees)
                              /\ cache'.batch[act.batch].members \subseteq act.sees
      OBVIOUS
    <3>1. /\ IsBooked(queue, act.batch)
          /\ cache.batch[act.batch].status \in {"none", "SUBMITTED"}
          /\ act.step \in {"enqueue", "mark"} =>
                /\ Booked(queue, act.batch, act.sees)
                /\ cache.batch[act.batch].members \subseteq act.sees
      BY DEF ReviewInvariant, ActKnows
    <3>2. CASE act.batch = t
      BY <1>7, <1>9, <3>1, <3>2
    <3>3. CASE act.batch # t
      BY <1>6, <1>9, <3>1, <3>3, BatchIds
    <3> QED BY <3>2, <3>3
  <2> QED BY <1>1, <2>1, <2>2, <2>3, <2>4 DEF ActKnows
<1>20. ReviewsReach'
  <2> SUFFICES ASSUME NEW k \in DOMAIN queue, queue[k].status = "PENDING", queue[k].op # "SUBMIT",
                      cache'.batch[queue[k].batch].status = "none"
               PROVE  excused = ReviewSerial \/ queue[run.item].batch = queue[k].batch
    BY <1>1, <1>10 DEF ReviewsReach, Review!Waiting, Review!Item
  <2>1. queue[k].batch \in Cached
    BY QueueRows DEF ReviewInvariant, Queued
  <2>2. CASE queue[k].batch = t
    BY <1>4, <2>2
  <2>3. CASE queue[k].batch # t
    <3>1. cache.batch[queue[k].batch].status = "none"
      BY <1>7, <1>9, <2>1, <2>3
    <3> QED BY <1>1, <3>1 DEF ReviewInvariant, ReviewsReach, Review!Waiting
  <2> QED BY <2>2, <2>3
<1> QED BY <1>11, <1>13, <1>14, <1>16, <1>17, <1>18, <1>19, <1>20 DEF ReviewInvariant

LEMMA VerdictTaken ==
    ASSUME ReviewInvariant, Review!CacheAnswer, Review!Item.op # "SUBMIT"
    PROVE  ReviewInvariant'
<1>1. UNCHANGED <<scope, server, queue, act, excused>> /\ run.step = "cache"
  BY DEF Review!CacheAnswer
<1>2. PICK v, row, version, r :
        /\ r = Review!Item /\ v = Review!Item.batch /\ row = server.batch[Review!Item.batch]
        /\ version = Review!Item.rv + 1
  OBVIOUS
<1>3. cache' = [cache EXCEPT !.batch[v] = row, !.version = version]
  BY <1>2, Zenon DEF Review!CacheAnswer
<1>4. r \in Queued /\ version \in Nat
  BY <1>1, <1>2, ItemAtHand DEF SendStep, Queued
<1>5. v \in Review!Made
  BY <1>1, <1>2 DEF ReviewInvariant, AnswerKnown
<1>6. v \in Review!Batch /\ v \in Cached /\ row \in BatchRow /\ row.status # "none"
      /\ row.members = server.batch[v].members
  BY <1>2, <1>5, BatchIds DEF ReviewInvariant, ServerSound, ServerRows, Review!Made
<1>7. cache \in CacheRows /\ run \in Running
  BY DEF ReviewInvariant, DeviceRows
<1>8. /\ cache' \in CacheRows /\ cache'.sync = cache.sync /\ cache'.batch[v] = row
      /\ \A b \in Cached \ {v} : cache'.batch[b] = cache.batch[b]
  BY <1>3, <1>4, <1>6, <1>7 DEF CacheRows
<1>9. CacheKeeps /\ SyncStays
  <2>1. \A b \in Review!Batch : b # v => cache'.batch[b] = cache.batch[b]
    BY <1>8, BatchIds
  <2>2. \A t \in Review!Temp : cache'.batch[t] = cache.batch[t]
    BY <1>6, <1>8, BatchIds
  <2> QED BY <1>5, <1>6, <1>8, <2>1, <2>2 DEF CacheKeeps, SyncStays
<1>10. run' \in Running /\ run'.step = "rows" /\ run'.item = run.item /\ run'.todo = run.todo
  <2>1. run' = [run EXCEPT !.step = "rows"]
    BY DEF Review!CacheAnswer
  <2> QED BY <1>7, <2>1 DEF Running, SendStep
<1>11. MembersStay /\ QueueKeeps /\ ActKeeps /\ ServerSound'
  BY <1>1, NothingChanges, ServerStays DEF ReviewInvariant
<1>12. AnswerKnown'
  BY <1>10 DEF AnswerKnown
<1>13. DeviceRows' /\ RowsOwed'
  BY <1>1, <1>8, <1>9, <1>10, RowsStayWith DEF ReviewInvariant, DeviceRows
<1>14. StepsSound'
  BY <1>1, <1>10 DEF ReviewInvariant, StepsSound, Review!Waiting, SendStep
<1> QED BY <1>1, <1>9, <1>11, <1>12, <1>13, <1>14, ReviewKept

(* The reviews that wait for the batch get its new id.                     *)
LEMMA RedirectedRequests ==
    ASSUME ReviewInvariant, Review!Remap
    PROVE  /\ queue' \in Seq(Queued) /\ DOMAIN queue' = DOMAIN queue
           /\ \A k \in DOMAIN queue :
                 /\ queue'[k].op = queue[k].op /\ queue'[k].named = queue[k].named
                 /\ queue'[k].made = queue[k].made /\ queue'[k].sees = queue[k].sees
                 /\ queue'[k].status = queue[k].status
                 /\ queue'[k].batch = (IF Review!Remapped(k) THEN run.answer ELSE queue[k].batch)
<1>1. PICK answer, q :
        /\ answer = run.answer
        /\ q = [k \in DOMAIN queue |-> IF Review!Remapped(k)
                                       THEN Review!Redirected(queue[k], run.answer) ELSE queue[k]]
  OBVIOUS
<1>2. queue' = q /\ run.step = "remap"
  BY <1>1, Zenon DEF Review!Remap
<1>3. answer \in Cached
  BY <1>1, <1>2, BatchIds DEF ReviewInvariant, AnswerKnown, Review!Made
<1>4. \A x \in Queued :
         /\ Review!Redirected(x, answer) \in Queued
         /\ Review!Redirected(x, answer).op = x.op /\ Review!Redirected(x, answer).named = x.named
         /\ Review!Redirected(x, answer).made = x.made /\ Review!Redirected(x, answer).sees = x.sees
         /\ Review!Redirected(x, answer).status = x.status
         /\ Review!Redirected(x, answer).batch = answer
  BY <1>3 DEF Review!Redirected, Queued
<1>5. DOMAIN queue = 1 .. Len(queue) /\ Len(queue) \in Nat
      /\ \A k \in DOMAIN queue : queue[k] \in Queued
  BY QueueRows DEF ReviewInvariant
<1>6. \A k \in DOMAIN queue :
         q[k] = (IF Review!Remapped(k) THEN Review!Redirected(queue[k], answer) ELSE queue[k])
  BY <1>1
<1>7. q \in [1 .. Len(queue) -> Queued]
  BY <1>1, <1>4, <1>5, <1>6
<1>8. q \in Seq(Queued) /\ DOMAIN q = DOMAIN queue
  BY <1>5, <1>7
<1> QED BY <1>1, <1>2, <1>4, <1>5, <1>6, <1>8

LEMMA RemapKeeps ==
    ASSUME ReviewInvariant, Review!Remap
    PROVE  ReviewInvariant'
<1>1. UNCHANGED <<scope, server, cache, act, excused>> /\ run.step = "remap"
  BY DEF Review!Remap
<1>2. PICK t, answer, r : r = Review!Item /\ t = Review!Item.batch /\ answer = run.answer
  OBVIOUS
<1>3. /\ queue' \in Seq(Queued) /\ DOMAIN queue' = DOMAIN queue
      /\ \A k \in DOMAIN queue :
            /\ queue'[k].op = queue[k].op /\ queue'[k].named = queue[k].named
            /\ queue'[k].made = queue[k].made /\ queue'[k].sees = queue[k].sees
            /\ queue'[k].status = queue[k].status
            /\ queue'[k].batch = (IF Review!Remapped(k) THEN answer ELSE queue[k].batch)
  BY <1>2, RedirectedRequests
<1>4. /\ run.item \in DOMAIN queue /\ r = queue[run.item] /\ r \in Queued
      /\ Review!Waiting(run.item) /\ r.op = "SUBMIT" /\ t = r.batch
  BY <1>1, <1>2, ItemAtHand DEF SendStep, Review!Item, ReviewInvariant, AnswerKnown
<1>5. t \in Review!Temp /\ r.made = t
  BY <1>4 DEF ReviewInvariant, QueueKnows
<1>6. /\ answer \in Review!Batch /\ cache.batch[answer].status # "none"
      /\ server.batch[answer].members = r.named
  BY <1>1, <1>2, <1>4 DEF ReviewInvariant, AnswerKnown, Review!Made
<1>7. \A k \in DOMAIN queue : Review!Remapped(k) =>
         /\ queue[k].batch = t /\ k # run.item /\ Review!Waiting(k)
         /\ queue[k].op # "SUBMIT"
         /\ queue[k].sees = r.named
  <2> SUFFICES ASSUME NEW k \in DOMAIN queue, Review!Remapped(k)
               PROVE  /\ queue[k].batch = t /\ k # run.item /\ Review!Waiting(k)
                      /\ queue[k].op # "SUBMIT"
                      /\ queue[k].sees = r.named
    OBVIOUS
  <2>1. queue[k].batch = t /\ k # run.item /\ Review!Waiting(k)
    BY <1>2 DEF Review!Remapped
  <2>2. queue[k].op # "SUBMIT"
    BY <1>4, <1>5, <2>1, BatchIds DEF ReviewInvariant, QueueKnows
  <2>3. Booked(queue, t, queue[k].sees)
    BY <1>5, <2>1, <2>2 DEF ReviewInvariant, QueueKnows
  <2> QED BY <1>4, <1>5, <2>1, <2>2, <2>3 DEF Booked
<1>8. run' \in Running /\ run'.step = "rows" /\ run'.item = run.item /\ run'.todo = run.todo
  <2>1. run' = [run EXCEPT !.step = "rows"] /\ run \in Running
    BY DEF Review!Remap, ReviewInvariant, DeviceRows
  <2> QED BY <2>1 DEF Running, SendStep
<1>9. MembersStay /\ CacheKeeps /\ ActKeeps /\ BookingsKept /\ ServerSound'
  <2>1. BookingsKept
    BY <1>3 DEF BookingsKept
  <2> QED BY <1>1, <2>1, NothingChanges, ServerStays DEF ReviewInvariant
<1>10. BatchesKnown' /\ ActKnows'
  BY <1>9, BatchesStayKnown, ActStillKnows DEF ReviewInvariant
<1>11. QueueKnows'
  <2>1. ASSUME NEW k \in DOMAIN queue
        PROVE  IF queue'[k].op = "SUBMIT"
               THEN /\ queue'[k].batch = queue'[k].made /\ queue'[k].made \in Review!Temp
                    /\ queue'[k].sees = queue'[k].named
               ELSE /\ queue'[k].made = 0
                    /\ queue'[k].batch \in Review!Batch =>
                          /\ cache.batch[queue'[k].batch].status # "none"
                          /\ server.batch[queue'[k].batch].members = queue'[k].sees
                    /\ queue'[k].batch \in Review!Temp =>
                          IsBooked(queue', queue'[k].batch)
                          /\ Booked(queue', queue'[k].batch, queue'[k].sees)
    <3>1. CASE Review!Remapped(k)
      <4>1. /\ queue'[k].op # "SUBMIT" /\ queue'[k].batch = answer
            /\ queue'[k].made = 0 /\ queue'[k].sees = r.named
        BY <1>3, <1>7, <3>1 DEF ReviewInvariant, QueueKnows
      <4> QED BY <1>6, <4>1, BatchIds
    <3>2. CASE ~Review!Remapped(k)
      <4>1. /\ queue'[k].op = queue[k].op /\ queue'[k].batch = queue[k].batch
            /\ queue'[k].named = queue[k].named /\ queue'[k].made = queue[k].made
            /\ queue'[k].sees = queue[k].sees
        BY <1>3, <3>2
      <4>2. CASE queue[k].op = "SUBMIT"
        BY <4>1, <4>2 DEF ReviewInvariant, QueueKnows
      <4>3. CASE queue[k].op # "SUBMIT"
        <5>1. /\ queue[k].made = 0
              /\ queue[k].batch \in Review!Batch =>
                    /\ cache.batch[queue[k].batch].status # "none"
                    /\ server.batch[queue[k].batch].members = queue[k].sees
          BY <4>3 DEF ReviewInvariant, QueueKnows
        <5>2. queue[k].batch \in Review!Temp =>
                 IsBooked(queue', queue[k].batch) /\ Booked(queue', queue[k].batch, queue[k].sees)
          BY <1>9, <4>3, BookingsStay DEF ReviewInvariant, QueueKnows
        <5> QED BY <4>1, <4>3, <5>1, <5>2
      <4> QED BY <4>2, <4>3
    <3> QED BY <3>1, <3>2
  <2>2. \A j, k \in DOMAIN queue' : queue'[j].made = queue'[k].made /\ queue'[j].made # 0 => j = k
    BY <1>3 DEF ReviewInvariant, QueueKnows
  <2> QED BY <1>1, <1>3, <2>1, <2>2 DEF QueueKnows
<1>12. AnswerKnown'
  BY <1>8 DEF AnswerKnown
<1>13. ReviewsReach'
  <2> SUFFICES ASSUME NEW k \in DOMAIN queue, queue'[k].status = "PENDING", queue'[k].op # "SUBMIT",
                      cache.batch[queue'[k].batch].status = "none"
               PROVE  excused = ReviewSerial
    BY <1>1, <1>3 DEF ReviewsReach, Review!Waiting
  <2>1. ~Review!Remapped(k)
    BY <1>3, <1>6
  <2>2. queue[k].status = "PENDING" /\ queue[k].op # "SUBMIT" /\ queue'[k].batch = queue[k].batch
    BY <1>3, <2>1
  <2>3. queue[k].batch # t
    BY <1>2, <1>4, <2>1, <2>2 DEF Review!Remapped, Review!Waiting
  <2> QED BY <1>2, <2>2, <2>3 DEF ReviewInvariant, ReviewsReach, Review!Waiting
<1>14. DeviceRows'
  BY <1>1, <1>3, <1>8 DEF ReviewInvariant, DeviceRows
<1>15. RowsOwed'
  BY <1>1, <1>3 DEF ReviewInvariant, RowsOwed, RowsOf
<1>16. StepsSound'
  <2>1. act.step = "mark" =>
            /\ act.item \in DOMAIN queue'
            /\ queue'[act.item].op = act.op
            /\ queue'[act.item].named = act.named
            /\ queue'[act.item].sees = act.sees
    BY <1>3 DEF ReviewInvariant, StepsSound
  <2>2. /\ queue'[run.item].status = "PENDING"
        /\ \A j \in run.todo : queue'[j].status = "PENDING"
    BY <1>3, <1>4 DEF ReviewInvariant, StepsSound, Review!Waiting, DeviceRows
  <2> QED BY <1>1, <1>3, <1>4, <1>8, <2>1, <2>2 DEF ReviewInvariant, StepsSound, Review!Waiting, SendStep
<1> QED BY <1>9, <1>10, <1>11, <1>12, <1>13, <1>14, <1>15, <1>16 DEF ReviewInvariant


(* The invariant of the reviews holds at first, and every step keeps it.   *)
LEMMA InitReviewSound ==
    ASSUME Review!OfflineReviewInit
    PROVE  ReviewInvariant
<1>1. PICK none, drafts, synced :
        /\ none = Review!NoBatch
        /\ drafts = [s \in ReviewSerial |-> "INSPECTED_DRAFT"]
        /\ synced = [s \in ReviewSerial |-> "SYNCED"]
  OBVIOUS
<1>2. /\ server = [version |-> 1, status |-> drafts, batch |-> [b \in Review!Batch |-> none]]
      /\ cache = [version |-> 1, status |-> server.status, sync |-> synced,
                  batch |-> [b \in Review!Temp \cup Review!Batch |-> none]]
      /\ queue = <<>> /\ act = Review!NoAct /\ run = Review!Idle /\ excused = {}
  BY <1>1, Zenon DEF Review!OfflineReviewInit
<1>3. none \in BatchRow /\ none.status = "none" /\ none.members = {} /\ none.pending = {}
  BY <1>1 DEF Review!NoBatch, BatchRow
<1>4. drafts \in StatusMap /\ synced \in [ReviewSerial -> {"SYNCED", "PENDING"}]
      /\ \A s \in ReviewSerial : synced[s] = "SYNCED"
  BY <1>1 DEF StatusMap, RowStatus
<1>5. /\ server \in ServerRows /\ \A b \in Review!Batch : server.batch[b] = none
      /\ cache \in CacheRows /\ \A b \in Cached : cache.batch[b] = none
      /\ cache.sync = synced
  BY <1>2, <1>3, <1>4 DEF ServerRows, CacheRows, Cached
<1>6. Review!Made = {}
  BY <1>3, <1>5 DEF Review!Made
<1>7. ServerSound
  <2>1. 0 \in 0 .. MaxBatches /\ Review!Made = 1 .. 0
    BY <1>6, BatchIds
  <2> QED BY <1>3, <1>5, <1>6, <2>1 DEF ServerSound, Review!ResubmittedAfterReview
<1>8. act \in Operating /\ act.op = "none" /\ act.step = "done"
      /\ run \in Running /\ run.item = 0 /\ run.step = "idle" /\ run.todo = {}
  BY <1>2, NoActIsDone, IdleIsRun
<1>9. DOMAIN queue = {} /\ queue \in Seq(Queued)
  BY <1>2
<1>10. DeviceRows /\ StepsSound
  BY <1>2, <1>5, <1>8, <1>9 DEF DeviceRows, StepsSound, SendStep, Review!Reviewing
<1>11. BatchesKnown
  BY <1>3, <1>5, BatchIds DEF BatchesKnown
<1>12. ActKnows /\ QueueKnows /\ AnswerKnown /\ ReviewsReach
  BY <1>8, <1>9 DEF ActKnows, QueueKnows, AnswerKnown, ReviewsReach, Review!Reviewing
<1>13. RowsOwed
  BY <1>4, <1>5 DEF RowsOwed
<1> QED BY <1>7, <1>10, <1>11, <1>12, <1>13 DEF ReviewInvariant

LEMMA ReviewStepKeeps ==
    ASSUME ReviewInvariant, Review!OfflineReviewNext
    PROVE  ReviewInvariant'
<1>1. CASE Review!ScreenStep
  <2>1. CASE \/ \E named \in SUBSET ReviewSerial : Review!Submit(named)
             \/ \E op \in Review!Reviewing, b \in Review!Temp \cup Review!Batch,
                   named \in SUBSET ReviewSerial : Review!Review(op, b, named)
    BY <2>1, BeginningKeeps
  <2>2. CASE Review!Post \/ Review!LosePost
    BY <2>2, PostKeeps
  <2>3. CASE Review!PullAfter
    BY <2>3, PullAfterKeeps
  <2>4. CASE Review!ReadForQueue
    BY <2>4, BatchMadeKeeps, BatchReadKeeps
  <2>5. CASE Review!Enqueue
    BY <2>5, EnqueueKeeps
  <2>6. CASE Review!MarkRows
    BY <2>6, MarkRowsKeeps
  <2> QED BY <1>1, <2>1, <2>2, <2>3, <2>4, <2>5, <2>6, Zenon DEF Review!ScreenStep
<1>2. CASE Review!DeliveryStep
  <2>1. CASE Review!StartRun
    BY <2>1, StartRunKeeps
  <2>2. CASE Review!Judge
    BY <2>2, JudgeKeeps
  <2>3. CASE Review!Deliver
    BY <2>3, DeliverKeeps
  <2>4. CASE Review!Refuse
    BY <2>4, RefuseKeeps
  <2>5. CASE Review!LoseDelivery
    BY <2>5, LoseDeliveryKeeps
  <2>6. CASE Review!CacheAnswer
    BY <2>6, SubmissionTaken, VerdictTaken
  <2>7. CASE Review!Remap
    BY <2>7, RemapKeeps
  <2>8. CASE Review!FinishItem
    BY <2>8, FinishKeeps
  <2>9. CASE Review!EndRun
    BY <2>9, EndRunKeeps
  <2> QED BY <1>2, <2>1, <2>2, <2>3, <2>4, <2>5, <2>6, <2>7, <2>8, <2>9, Zenon
         DEF Review!DeliveryStep
<1>3. CASE Review!Refresh
  BY <1>3, RefreshKeeps
<1>4. CASE Review!OthersAct
  BY <1>4, OthersKeep
<1>5. CASE Review!Disconnect \/ Review!Reconnect
  BY <1>5, ConnectionKeeps
<1> QED BY <1>1, <1>2, <1>3, <1>4, <1>5, Zenon DEF Review!OfflineReviewNext

LEMMA ReviewStutterKeeps == ReviewInvariant /\ UNCHANGED Review!reviewVars => ReviewInvariant'
<1> SUFFICES ASSUME ReviewInvariant, UNCHANGED Review!reviewVars
             PROVE  ReviewInvariant'
  OBVIOUS
<1>1. UNCHANGED <<scope, server, cache, queue, act, run, excused>>
  BY DEF Review!reviewVars
<1>2. MembersStay /\ CacheKeeps /\ QueueKeeps /\ ActKeeps
  BY <1>1, NothingChanges DEF ReviewInvariant
<1>3. AnswerKnown'
  BY <1>1, <1>2, AnswerStillKnown, KeptParts DEF ReviewInvariant
<1>4. ServerSound' /\ DeviceRows' /\ StepsSound' /\ RowsOwed'
  BY <1>1, StepsStay, ServerStays, RowsStayWith, SyncUnchanged DEF ReviewInvariant, DeviceRows
<1> QED BY <1>1, <1>2, <1>3, <1>4, ReviewKept

LEMMA ReviewPromises ==
    ASSUME ReviewInvariant
    PROVE  Review!ResubmittedAfterReview /\ Review!VerdictForItsBatch
<1>1. Review!VerdictForItsBatch
  BY DEF ReviewInvariant, QueueKnows, Review!VerdictForItsBatch, Review!Reviewing
<1> QED BY <1>1 DEF ReviewInvariant, ServerSound

(* A verdict names serials of the batch that its reviewer saw.             *)
NamedSeen ==
    /\ act.op \in Review!Reviewing /\ act.batch \in Review!Batch =>
          act.named \subseteq server.batch[act.batch].members
    /\ act.op \in Review!Reviewing /\ act.batch \in Review!Temp =>
          \A k \in DOMAIN queue : queue[k].made = act.batch => act.named \subseteq queue[k].named
    /\ \A k \in DOMAIN queue :
          queue[k].op \in Review!Reviewing => queue[k].named \subseteq queue[k].sees

RequestsStay ==
    /\ DOMAIN queue' = DOMAIN queue
    /\ \A k \in DOMAIN queue :
          /\ queue'[k].op = queue[k].op /\ queue'[k].named = queue[k].named
          /\ queue'[k].made = queue[k].made /\ queue'[k].sees = queue[k].sees

VerdictStays ==
    act'.op \in Review!Reviewing =>
        act'.op = act.op /\ act'.batch = act.batch /\ act'.named = act.named

LEMMA RequestsNamed ==
    /\ UNCHANGED queue => RequestsStay
    /\ QueueKeeps => RequestsStay
BY DEF RequestsStay, QueueKeeps

(* The batch of a verdict is on the server, or was made on the device.     *)
LEMMA NamedStays ==
    ASSUME ReviewInvariant, NamedSeen, MembersStay, RequestsStay, VerdictStays
    PROVE  NamedSeen'
<1>1. ASSUME act'.op \in Review!Reviewing, act'.batch \in Review!Batch
      PROVE  act'.named \subseteq server'.batch[act'.batch].members
  <2>1. act.op \in Review!Reviewing /\ act'.batch = act.batch /\ act'.named = act.named
    BY <1>1 DEF VerdictStays
  <2>2. act.batch \in Review!Made
    BY <1>1, <2>1 DEF ReviewInvariant, ActKnows, BatchesKnown
  <2> QED BY <1>1, <2>1, <2>2 DEF NamedSeen, MembersStay
<1>2. ASSUME act'.op \in Review!Reviewing, act'.batch \in Review!Temp, NEW k \in DOMAIN queue',
             queue'[k].made = act'.batch
      PROVE  act'.named \subseteq queue'[k].named
  BY <1>2 DEF VerdictStays, RequestsStay, NamedSeen
<1>3. ASSUME NEW k \in DOMAIN queue', queue'[k].op \in Review!Reviewing
      PROVE  queue'[k].named \subseteq queue'[k].sees
  BY <1>3 DEF RequestsStay, NamedSeen
<1> QED BY <1>1, <1>2, <1>3 DEF NamedSeen

LEMMA VerdictBegins ==
    ASSUME ReviewInvariant, NamedSeen, NEW op \in Review!Reviewing, NEW b \in Cached,
           NEW named \in SUBSET ReviewSerial, Review!Review(op, b, named)
    PROVE  NamedSeen'
<1>1. UNCHANGED <<server, queue>>
  BY DEF Review!Review, Review!Start
<1>2. /\ act'.op = op /\ act'.batch = b /\ act'.named = named
  BY DEF Review!Review, Review!Start, Review!NoAct
<1>3. cache.batch[b].status = "SUBMITTED" /\ named \subseteq cache.batch[b].members
  BY DEF Review!Review
<1>4. b \in Review!Batch => named \subseteq server.batch[b].members
  BY <1>3 DEF ReviewInvariant, BatchesKnown
<1>5. b \in Review!Temp => \A k \in DOMAIN queue : queue[k].made = b => named \subseteq queue[k].named
  BY <1>3 DEF ReviewInvariant, BatchesKnown, Booked
<1> QED BY <1>1, <1>2, <1>4, <1>5 DEF NamedSeen

LEMMA VerdictQueued ==
    ASSUME ReviewInvariant, NamedSeen, Review!Enqueue
    PROVE  NamedSeen'
<1>1. UNCHANGED server /\ act.step = "enqueue"
  BY DEF Review!Enqueue
<1>2. PICK r, n : r = Review!Request /\ n = Len(queue) + 1
  OBVIOUS
<1>3. queue' = Append(queue, r) /\ act' = [act EXCEPT !.step = "mark", !.item = n]
  BY <1>2, Zenon DEF Review!Enqueue
<1>4. act \in Operating /\ act.op \in Op /\ (act.op \in Review!Reviewing => act.batch \in Cached)
  BY <1>1, ActIsTyped DEF ReviewInvariant, StepsSound
<1>5. /\ r.op = act.op /\ r.named = act.named /\ r.sees = act.sees
      /\ r.made = (IF act.op = "SUBMIT" THEN act.batch ELSE 0)
  BY <1>2 DEF Review!Request
<1>6. /\ DOMAIN queue' = DOMAIN queue \cup {n}
      /\ queue'[n] = r
      /\ \A k \in DOMAIN queue : queue'[k] = queue[k]
  <2>1. queue \in Seq(Queued)
    BY DEF ReviewInvariant, DeviceRows
  <2> QED BY <2>1, <1>2, <1>3
<1>7. act'.op = act.op /\ act'.batch = act.batch /\ act'.named = act.named
  BY <1>3, <1>4 DEF Operating
<1>8. ASSUME act.op \in Review!Reviewing
      PROVE  act.named \subseteq act.sees
  <2>1. CASE act.batch \in Review!Batch
    BY <1>1, <1>8, <2>1 DEF ReviewInvariant, ActKnows, NamedSeen
  <2>2. CASE act.batch \in Review!Temp
    <3>1. IsBooked(queue, act.batch) /\ Booked(queue, act.batch, act.sees)
      BY <1>1, <1>8, <2>2 DEF ReviewInvariant, ActKnows
    <3>2. PICK k \in DOMAIN queue : queue[k].made = act.batch /\ queue[k].named = act.sees
      BY <3>1 DEF IsBooked, Booked
    <3> QED BY <1>8, <2>2, <3>2 DEF NamedSeen
  <2> QED BY <1>4, <1>8, <2>1, <2>2 DEF Cached
<1>9. act.op \in Review!Reviewing => r.made = 0 /\ 0 \notin Review!Temp
  BY <1>5, BatchIds DEF Review!Reviewing
<1>10. ASSUME act'.op \in Review!Reviewing, act'.batch \in Review!Batch
       PROVE  act'.named \subseteq server'.batch[act'.batch].members
  BY <1>1, <1>7, <1>10 DEF NamedSeen
<1>11. ASSUME act'.op \in Review!Reviewing, act'.batch \in Review!Temp, NEW k \in DOMAIN queue',
              queue'[k].made = act'.batch
       PROVE  act'.named \subseteq queue'[k].named
  BY <1>6, <1>7, <1>9, <1>11 DEF NamedSeen
<1>12. ASSUME NEW k \in DOMAIN queue', queue'[k].op \in Review!Reviewing
       PROVE  queue'[k].named \subseteq queue'[k].sees
  BY <1>5, <1>6, <1>8, <1>12 DEF NamedSeen
<1> QED BY <1>10, <1>11, <1>12 DEF NamedSeen

(* The server never takes serials from a batch, nor gives it more.         *)
LEMMA BatchesKeepMembers ==
    ASSUME ReviewInvariant, Review!OfflineReviewNext
    PROVE  MembersStay
<1>1. CASE Review!Post \/ Review!LosePost
  <2>1. /\ act.step = "post" /\ Review!Room(act)
        /\ server' \in {server} \cup
             (IF Review!Answer(act) = 200 THEN {Review!Accepted(act)} ELSE {})
    BY <1>1 DEF Review!Post, Review!LosePost
  <2>2. act.op \in Op /\ act.named \in SUBSET ReviewSerial
    BY <2>1, ActIsTyped DEF Operating
  <2>3. ServerSound
    BY DEF ReviewInvariant
  <2> QED BY <2>1, <2>2, <2>3, PerhapsAccepted
<1>2. CASE Review!Deliver \/ Review!LoseDelivery
  <2>1. PICK r : r = Review!Item
    OBVIOUS
  <2>2. /\ run.step = "send" /\ Review!Room(r)
        /\ server' \in {server} \cup
             (IF Review!Answer(r) = 200 THEN {Review!Accepted(r)} ELSE {})
    BY <1>2, <2>1 DEF Review!Deliver, Review!LoseDelivery
  <2>3. r.op \in Op /\ r.named \in SUBSET ReviewSerial
    BY <2>1, <2>2, ItemAtHand DEF SendStep, Queued
  <2>4. ServerSound
    BY DEF ReviewInvariant
  <2> QED BY <2>2, <2>3, <2>4, PerhapsAccepted
<1>3. CASE Review!OthersAct
  <2>1. ServerGrows
    BY <1>3, OthersGrow DEF ReviewInvariant
  <2> QED BY <2>1, NothingChanges
<1>4. CASE UNCHANGED server
  BY <1>4, NothingChanges
<1>5. \/ UNCHANGED server \/ Review!OthersAct
      \/ Review!Post \/ Review!LosePost \/ Review!Deliver \/ Review!LoseDelivery
  BY DEF Review!OfflineReviewNext, Review!ScreenStep, Review!DeliveryStep, Review!Submit,
         Review!Review, Review!Start, Review!PullAfter, Review!ReadForQueue, Review!Enqueue,
         Review!MarkRows, Review!StartRun, Review!Judge, Review!Refuse, Review!CacheAnswer,
         Review!Remap, Review!FinishItem, Review!EndRun, Review!Refresh, Review!Disconnect,
         Review!Reconnect
<1> QED BY <1>1, <1>2, <1>3, <1>4, <1>5

LEMMA RequestsKeepNames ==
    ASSUME ReviewInvariant, Review!OfflineReviewNext
    PROVE  RequestsStay \/ Review!Enqueue
<1>1. CASE Review!Remap
  BY <1>1, RedirectedRequests DEF RequestsStay
<1>2. CASE Review!Judge
  <2>1. PICK k \in run.todo : UNCHANGED queue \/ \E x \in {"SYNCED", "CONFLICT"} : Review!Ends(k, x)
    BY <1>2 DEF Review!Judge
  <2>2. k \in DOMAIN queue
    BY DEF ReviewInvariant, DeviceRows
  <2> QED BY <2>1, <2>2, ItemEnds, RequestsNamed DEF ReviewInvariant
<1>3. CASE Review!Refuse \/ Review!FinishItem
  <2>1. run.step \in SendStep /\ \E x \in {"SYNCED", "CONFLICT", "FAILED"} : Review!Ends(run.item, x)
    BY <1>3 DEF Review!Refuse, Review!FinishItem, SendStep
  <2>2. run.item \in DOMAIN queue
    BY <2>1, ItemAtHand
  <2> QED BY <2>1, <2>2, ItemEnds, RequestsNamed DEF ReviewInvariant
<1>4. CASE UNCHANGED queue
  BY <1>4, RequestsNamed
<1>5. \/ UNCHANGED queue \/ Review!Enqueue \/ Review!Remap
      \/ Review!Judge \/ Review!Refuse \/ Review!FinishItem
  BY DEF Review!OfflineReviewNext, Review!ScreenStep, Review!DeliveryStep, Review!Submit,
         Review!Review, Review!Start, Review!Post, Review!LosePost, Review!PullAfter,
         Review!ReadForQueue, Review!MarkRows, Review!StartRun, Review!Deliver,
         Review!LoseDelivery, Review!CacheAnswer, Review!EndRun, Review!Refresh,
         Review!OthersAct, Review!Disconnect, Review!Reconnect
<1> QED BY <1>1, <1>2, <1>3, <1>4, <1>5

LEMMA VerdictsKeepNames ==
    ASSUME ReviewInvariant, Review!OfflineReviewNext
    PROVE  \/ VerdictStays \/ Review!Enqueue
           \/ \E op \in Review!Reviewing, b \in Review!Temp \cup Review!Batch,
                 named \in SUBSET ReviewSerial : Review!Review(op, b, named)
<1>1. CASE \E named \in SUBSET ReviewSerial : Review!Submit(named)
  BY <1>1 DEF Review!Submit, Review!Start, Review!NoAct, VerdictStays, Review!Reviewing
<1>2. CASE act' = Review!NoAct
  BY <1>2, NoActIsDone DEF VerdictStays, Review!Reviewing
<1>3. CASE Review!Post \/ Review!LosePost \/ Review!PullAfter
  <2>1. act' = Review!NoAct \/ \E x \in ActStep : act' = [act EXCEPT !.step = x]
    BY <1>3 DEF Review!Post, Review!LosePost, Review!PullAfter, ActStep
  <2>2. ASSUME NEW x \in ActStep, act' = [act EXCEPT !.step = x]
        PROVE  VerdictStays
    BY <2>2, ActIsTyped DEF Operating, VerdictStays
  <2> QED BY <1>2, <2>1, <2>2
<1>4. CASE Review!ReadForQueue
  <2>1. CASE act.op = "SUBMIT"
    <3>1. PICK t : act' = [act EXCEPT !.step = "enqueue", !.batch = t, !.rv = cache.version,
                                      !.sees = act.named]
      BY <1>4, <2>1 DEF Review!ReadForQueue
    <3>2. act'.op = "SUBMIT"
      BY <2>1, <3>1, ActIsTyped DEF Operating
    <3> QED BY <3>2 DEF VerdictStays, Review!Reviewing
  <2>2. CASE act.op # "SUBMIT"
    <3>1. PICK bv, sees : act' = Review!NoAct
              \/ act' = [act EXCEPT !.step = "enqueue", !.rv = cache.version, !.bv = bv, !.sees = sees]
      BY <1>4, <2>2 DEF Review!ReadForQueue
    <3>2. CASE act' = [act EXCEPT !.step = "enqueue", !.rv = cache.version, !.bv = bv, !.sees = sees]
      BY <3>2, ActIsTyped DEF Operating, VerdictStays
    <3> QED BY <1>2, <3>1, <3>2
  <2> QED BY <2>1, <2>2
<1>5. CASE Review!MarkRows
  BY <1>2, <1>5 DEF Review!MarkRows
<1>6. CASE UNCHANGED act
  BY <1>6 DEF VerdictStays
<1>7. CASE Review!DeliveryStep \/ Review!Refresh \/ Review!OthersAct \/ Review!Disconnect
           \/ Review!Reconnect
  <2>1. UNCHANGED act
    BY <1>7 DEF Review!DeliveryStep, Review!StartRun, Review!Judge, Review!Deliver,
           Review!Refuse, Review!LoseDelivery, Review!CacheAnswer, Review!Remap,
           Review!FinishItem, Review!EndRun, Review!Refresh, Review!OthersAct,
           Review!Disconnect, Review!Reconnect
  <2> QED BY <1>6, <2>1
<1>8. CASE Review!ScreenStep
  BY <1>1, <1>3, <1>4, <1>5, <1>8 DEF Review!ScreenStep
<1> QED BY <1>7, <1>8 DEF Review!OfflineReviewNext

LEMMA NamedStepKeeps ==
    ASSUME ReviewInvariant, NamedSeen, Review!OfflineReviewNext
    PROVE  NamedSeen'
<1>1. CASE Review!Enqueue
  BY <1>1, VerdictQueued
<1>2. ASSUME NEW op \in Review!Reviewing, NEW b \in Review!Temp \cup Review!Batch,
             NEW named \in SUBSET ReviewSerial, Review!Review(op, b, named)
      PROVE  NamedSeen'
  BY <1>2, VerdictBegins DEF Cached
<1>3. CASE VerdictStays /\ RequestsStay
  BY <1>3, NamedStays, BatchesKeepMembers
<1> QED BY <1>1, <1>2, <1>3, RequestsKeepNames, VerdictsKeepNames

LEMMA NamedRests == NamedSeen /\ UNCHANGED Review!reviewVars => NamedSeen'
BY DEF NamedSeen, Review!reviewVars

LEMMA NamedStarts == Review!OfflineReviewInit => NamedSeen
BY DEF Review!OfflineReviewInit, NamedSeen, Review!NoAct, Review!Reviewing

LEMMA ReviewRowsAreOwed ==
    ASSUME ReviewInvariant, NamedSeen
    PROVE  Review!UnsyncedIsOwed
<1>1. ASSUME NEW k \in DOMAIN queue
      PROVE  RowsOf(queue[k]) \subseteq queue[k].sees
  <2>1. queue[k] \in Queued
    BY QueueRows DEF ReviewInvariant
  <2>2. queue[k].op = "SUBMIT" \/ queue[k].op \in Review!Reviewing
    BY <2>1 DEF Queued, Op, Review!Reviewing
  <2> QED BY <2>1, <2>2 DEF RowsOf, NamedSeen, ReviewInvariant, QueueKnows
<1> QED BY <1>1 DEF ReviewInvariant, RowsOwed, Review!UnsyncedIsOwed, Review!Owed

----------------------------------------------------------------------------
(* The portal: the screen that is open keeps its invariant.                *)

PortalInvariant ==
    /\ scene = "drawer" => DrawerInvariant
    /\ scene = "review" => ReviewInvariant /\ NamedSeen
    /\ scene = "admin" => AdminInvariant /\ strangers \in Nat
    /\ scene = "screen" => ScreenInvariant /\ others \in Nat
    /\ scene = "list" => ListInvariant

(* While the drawer is open, or nothing happens.                           *)
LEMMA OpenDrawerKeeps ==
    ASSUME PortalInvariant, [PortalNext]_portalVars, scene' = "drawer"
    PROVE  DrawerInvariant'

<1>1. CASE DrawerOpen
  <2>1. DrawerInvariant /\ Drawer!SerialDrawerNext
    BY <1>1 DEF DrawerOpen, PortalInvariant
  <2>2. DrawerSound' /\ DraftsFollowed'
    BY <2>1, DrawerStepKeepsSound, DrawerStepFollows DEF DrawerInvariant
  <2> QED BY <2>2 DEF DrawerInvariant
<1>2. CASE ReviewOpen \/ AdminOpen \/ ScreenOpen \/ ListOpen
  BY <1>2 DEF ReviewOpen, AdminOpen, ScreenOpen, ListOpen
<1>3. CASE UNCHANGED portalVars
  <2>1. DrawerInvariant
    BY <1>3 DEF portalVars, PortalInvariant
  <2>2. UNCHANGED <<connected, server, cache, outbox, shown, editable, drawer, form, calls,
                    refreshes, typed, excused>>
    BY <1>3 DEF portalVars, Drawer!drawerVars
  <2>3. DrawerSound'
    BY <2>1, <2>2 DEF DrawerInvariant, DrawerSound, DeviceSound, ScreenSound, FormSound
  <2>4. ASSUME NEW s \in Serial, NEW c \in Content, DraftIs(s, c)
        PROVE  DraftIs(s, c)'
    <3>1. Drawer!Latest(s)' = Drawer!Latest(s)
      BY <2>2, LatestStays
    <3> QED BY <2>2, <2>4, <3>1 DEF DraftIs
  <2>5. DraftsFollowed'
    BY <2>1, <2>2, <2>4 DEF DrawerInvariant, DraftsFollowed
  <2> QED BY <2>3, <2>5 DEF DrawerInvariant
<1> QED BY <1>1, <1>2, <1>3 DEF PortalNext

LEMMA OpenReviewKeeps ==
    ASSUME PortalInvariant, [PortalNext]_portalVars, scene' = "review"
    PROVE  ReviewInvariant' /\ NamedSeen'
<1>1. CASE ReviewOpen
  <2>1. ReviewInvariant /\ NamedSeen /\ Review!OfflineReviewNext
    BY <1>1 DEF ReviewOpen, PortalInvariant
  <2> QED BY <2>1, ReviewStepKeeps, NamedStepKeeps
<1>2. CASE DrawerOpen \/ AdminOpen \/ ScreenOpen \/ ListOpen
  BY <1>2 DEF DrawerOpen, AdminOpen, ScreenOpen, ListOpen
<1>3. CASE UNCHANGED portalVars
  <2>1. ReviewInvariant /\ NamedSeen /\ UNCHANGED Review!reviewVars
    BY <1>3 DEF portalVars, PortalInvariant, Drawer!drawerVars, OutsideDrawer, Review!reviewVars
  <2> QED BY <2>1, ReviewStutterKeeps, NamedRests
<1> QED BY <1>1, <1>2, <1>3 DEF PortalNext

LEMMA OpenAdminKeeps ==
    ASSUME PortalInvariant, [PortalNext]_portalVars, scene' = "admin"
    PROVE  AdminInvariant' /\ strangers' \in Nat
<1>1. CASE AdminOpen
  <2>1. AdminInvariant /\ strangers \in Nat /\ Admin!AdminSyncNext
    BY <1>1 DEF AdminOpen, PortalInvariant
  <2> QED BY <2>1, AdminStepKeeps, StrangersCount
<1>2. CASE DrawerOpen \/ ReviewOpen \/ ScreenOpen \/ ListOpen
  BY <1>2 DEF DrawerOpen, ReviewOpen, ScreenOpen, ListOpen
<1>3. CASE UNCHANGED portalVars
  <2>1. AdminInvariant /\ strangers \in Nat
    BY <1>3 DEF portalVars, PortalInvariant
  <2>2. UNCHANGED <<kept, server, cache, queue, act, run, pull, dropped, excused, strangers>>
    BY <1>3 DEF portalVars, Drawer!drawerVars, OutsideDrawer
  <2> QED BY <2>1, <2>2, AdminRests
<1> QED BY <1>1, <1>2, <1>3 DEF PortalNext

LEMMA OpenScreenKeeps ==
    ASSUME PortalInvariant, [PortalNext]_portalVars, scene' = "screen"
    PROVE  ScreenInvariant' /\ others' \in Nat
<1>1. CASE ScreenOpen
  <2>1. ScreenInvariant /\ others \in Nat /\ Screen!ReportScreenNext
    BY <1>1 DEF ScreenOpen, PortalInvariant
  <2> QED BY <2>1, ScreenStepKeeps, ScreenChangesServer
<1>2. CASE DrawerOpen \/ ReviewOpen \/ AdminOpen \/ ListOpen
  BY <1>2 DEF DrawerOpen, ReviewOpen, AdminOpen, ListOpen
<1>3. CASE UNCHANGED portalVars
  <2>1. ScreenInvariant /\ others \in Nat
    BY <1>3 DEF portalVars, PortalInvariant
  <2>2. UNCHANGED <<host, server, cache, shown, holdLog, chosen, queue, act, run, excused, others>>
    BY <1>3 DEF portalVars, Drawer!drawerVars, OutsideDrawer
  <2> QED BY <2>1, <2>2, ScreenRests
<1> QED BY <1>1, <1>2, <1>3 DEF PortalNext

LEMMA OpenListKeeps ==
    ASSUME PortalInvariant, [PortalNext]_portalVars, scene' = "list"
    PROVE  ListInvariant'
<1>1. CASE ListOpen
  <2>1. ListInvariant /\ List!SerialListNext
    BY <1>1 DEF ListOpen, PortalInvariant
  <2> QED BY <2>1, ListStepKeeps
<1>2. CASE DrawerOpen \/ ReviewOpen \/ AdminOpen \/ ScreenOpen
  BY <1>2 DEF DrawerOpen, ReviewOpen, AdminOpen, ScreenOpen
<1>3. CASE UNCHANGED portalVars
  <2>1. ListInvariant
    BY <1>3 DEF portalVars, PortalInvariant
  <2>2. UNCHANGED <<server, early, cache, queue, act, run, dropped, excused>>
    BY <1>3 DEF portalVars, Drawer!drawerVars, OutsideDrawer
  <2> QED BY <2>1, <2>2, ListRests
<1> QED BY <1>1, <1>2, <1>3 DEF PortalNext

LEMMA PortalStarts == PortalInit => PortalInvariant
<1> SUFFICES ASSUME PortalInit
             PROVE  PortalInvariant
  OBVIOUS
<1>1. scene = "drawer" => DrawerInvariant
  BY InitDrawerSound, InitDraftsFollowed DEF PortalInit, DrawerInvariant
<1>2. scene = "review" => ReviewInvariant /\ NamedSeen
  BY InitReviewSound, NamedStarts DEF PortalInit
<1>3. ASSUME scene = "admin"
      PROVE  AdminInvariant /\ strangers \in Nat
  <2>1. Admin!AdminSyncInit
    BY <1>3 DEF PortalInit
  <2>2. kept \subseteq Kept /\ strangers = 0
    BY <2>1 DEF Admin!AdminSyncInit, Kept
  <2> QED BY <2>1, <2>2, AdminStarts
<1>4. scene = "list" => ListInvariant
  BY ListStarts DEF PortalInit
<1>5. scene = "screen" => ScreenInvariant /\ others \in Nat
  BY ScreenBegins DEF PortalInit
<1> QED BY <1>1, <1>2, <1>3, <1>4, <1>5 DEF PortalInvariant

LEMMA PortalInvariantHolds == PortalSpec => []PortalInvariant
<1>1. PortalInit => PortalInvariant
  BY PortalStarts
<1>2. PortalInvariant /\ [PortalNext]_portalVars => PortalInvariant'
  BY OpenDrawerKeeps, OpenReviewKeeps, OpenAdminKeeps, OpenScreenKeeps, OpenListKeeps
     DEF PortalInvariant
<1> QED BY <1>1, <1>2, PTL DEF PortalSpec

(* What was last typed in a field of a serial's form is in the open form   *)
(* as pending, in a call under way, queued, or on the server, however the  *)
(* drawer moves on, closes and is opened again while autosaves, refreshes  *)
(* and lost requests are under way - but for the drafts the code may lose, *)
(* those that SerialDrawer excuses.                                        *)
THEOREM DraftsAreKept == PortalSpec => []DraftKept
<1>1. PortalInvariant => DraftKept
  BY FollowedDraftIsKept DEF PortalInvariant, DraftKept
<1> QED BY <1>1, PortalInvariantHolds, PTL

(* Nothing reaches a field of a serial - on the server, in the cache or in *)
(* the queue - in which nobody typed for that serial.                      *)
THEOREM DraftsStayApart == PortalSpec => []DraftForItsSerial
<1>1. PortalInvariant => DraftForItsSerial
  BY SoundDraftsStayApart DEF PortalInvariant, DrawerInvariant, DraftForItsSerial
<1> QED BY <1>1, PortalInvariantHolds, PTL

(* Saves of a serial that carry the same version are not both autosaves:   *)
(* an autosave reads its version when all before it have ended, so that    *)
(* autosaves never make each other fail.                                   *)
THEOREM AutosavesFollowOneAnother == PortalSpec => []AutosavesReadNewVersions
<1>1. PortalInvariant => AutosavesReadNewVersions
  BY BegunInTurn DEF PortalInvariant, DrawerInvariant, AutosavesReadNewVersions
<1> QED BY <1>1, PortalInvariantHolds, PTL

(* However a submission or a review was retried - on the device after an   *)
(* answer was lost, or delivered twice, or by several people - a serial is *)
(* pending in two batches only when a third batch had it reviewed, and it  *)
(* is submitted again after that.                                          *)
THEOREM ResubmissionFollowsReview == PortalSpec => []ResubmittedAfterReview
<1>1. PortalInvariant => ResubmittedAfterReview
  BY ReviewPromises DEF PortalInvariant, ResubmittedAfterReview
<1> QED BY <1>1, PortalInvariantHolds, PTL

(* A verdict given offline reaches the batch its reviewer looked at: the   *)
(* request that is queued names the batch with the very members he saw,    *)
(* also when the batch was itself made offline, and had a temporary id     *)
(* until its submission was delivered.                                     *)
THEOREM VerdictsReachTheirBatch == PortalSpec => []VerdictForItsBatch
<1>1. PortalInvariant => VerdictForItsBatch
  BY ReviewPromises DEF PortalInvariant, VerdictForItsBatch
<1> QED BY <1>1, PortalInvariantHolds, PTL

(* What an administrator deleted stays decided: it is gone from the server,*)
(* or its request is on the device, waiting or refused - whatever was lost *)
(* or reloaded, however often the temporary id was replaced.               *)
THEOREM DeletionsStayDecided == PortalSpec => []DeletionIsDecided
<1>1. PortalInvariant => DeletionIsDecided
  BY DeletionsAreDecided DEF PortalInvariant, DeletionIsDecided
<1> QED BY <1>1, PortalInvariantHolds, PTL

(* A customer is edited on the server only over a state that the author of *)
(* the edit was shown: the version that a row, a request or an answer      *)
(* carries is never ahead of what was read with it, at any of the awaits.  *)
THEOREM EditsFollowWhatWasShown == PortalSpec => EditOverSeen
<1>1. PortalInvariant /\ [PortalNext]_portalVars => [scene = "admin" => Admin!OverSeen]_portalVars
  <2> SUFFICES ASSUME PortalInvariant, PortalNext, scene = "admin"
               PROVE  Admin!OverSeen
    OBVIOUS
  <2>1. AdminInvariant /\ strangers \in Nat /\ Admin!AdminSyncNext
    BY DEF PortalInvariant, PortalNext, DrawerOpen, ReviewOpen, AdminOpen, ScreenOpen, ListOpen
  <2> QED BY <2>1, EditsAreOverSeen
<1> QED BY <1>1, PortalInvariantHolds, PTL DEF PortalSpec, EditOverSeen

(* What the screen of a report or child report offers of a row that is     *)
(* synced and the server's, to whatever role, the server accepts with the  *)
(* reason the screen asks for: the portal's policy and the matrices of the *)
(* server agree - except on the releases of a hold that ReportScreen names.*)
THEOREM OffersAgree == PortalSpec => []OfferedIsAccepted
<1>1. PortalInvariant => OfferedIsAccepted
  BY OffersAreAccepted DEF PortalInvariant, ScreenInvariant, OfferedIsAccepted
<1> QED BY <1>1, PortalInvariantHolds, PTL

(* A transition that the server makes starts from the status in which it   *)
(* was offered, however long it was selected, queued or on its way and     *)
(* whatever others did - unless its row had changed, or was not synced,    *)
(* when its user confirmed; a child report then leaves no status but DRAFT.*)
THEOREM TransitionsFollowOffers == PortalSpec => TransitionOnOfferedStatus
<1>1. PortalInvariant /\ [PortalNext]_portalVars => [scene = "screen" => Screen!OnOfferedStatus]_portalVars
  <2> SUFFICES ASSUME PortalInvariant, PortalNext, scene = "screen"
               PROVE  Screen!OnOfferedStatus
    OBVIOUS
  <2>1. ScreenInvariant /\ others \in Nat /\ Screen!ReportScreenNext
    BY DEF PortalInvariant, PortalNext, DrawerOpen, ReviewOpen, AdminOpen, ScreenOpen, ListOpen
  <2> QED BY <2>1, ScreenMovesAsOffered
<1> QED BY <1>1, PortalInvariantHolds, PTL DEF PortalSpec, TransitionOnOfferedStatus

(* A serial that was deleted on the device is gone from the server, or its *)
(* deletion is under way or waiting, or was refused under an id that the   *)
(* server knows - whatever was lost, reloaded or delivered meanwhile - but *)
(* for the two races that SerialList excuses.                              *)
THEOREM DeletedSerialsAreDecided == PortalSpec => []DeletedSerialIsDecided
<1>1. PortalInvariant => DeletedSerialIsDecided
  BY ListDeletionsAreDecided DEF PortalInvariant, DeletedSerialIsDecided
<1> QED BY <1>1, PortalInvariantHolds, PTL

(* A row that is shown as not yet synced outside the drawer - a serial of  *)
(* a review or the list, a report, a user, a customer - has a request that  *)
(* waits or was refused and is there to see, or an operation under way;    *)
(* so whatever is lost, reloaded, pulled or delivered meanwhile, no change *)
(* is shown as about to be saved that nothing will save - but for the rows *)
(* that each module excuses, marked when their request was already gone.   *)
THEOREM UnsyncedRowsAwaitDelivery == PortalSpec => []UnsyncedRowIsOwed
<1>1. PortalInvariant => UnsyncedRowIsOwed
  BY ReviewRowsAreOwed, AdminRowsAreOwed, ScreenRowIsOwed, ListRowsAreOwed
     DEF PortalInvariant, UnsyncedRowIsOwed
<1> QED BY <1>1, PortalInvariantHolds, PTL
=============================================================================
