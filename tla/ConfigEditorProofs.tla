------------------------- MODULE ConfigEditorProofs -------------------------
(***************************************************************************)
(* What holds of ConfigEditor for every set of pages, bodies, addresses    *)
(* and texts, every number of clicks and acts, and whatever may happen.    *)
(***************************************************************************)
EXTENDS ConfigEditor, TLAPS

-----------------------------------------------------------------------------
(* The inductive invariants                                                *)

\* What a click has applied, or is about to, is a configuration that runs.
JobsRun ==
    \A k \in Click : pc[k] \in {"apply", "save", "form", "late"} => job[k] \in Running

TypeInv == TypeOK /\ JobsRun

\* The file is behind the daemon only until a page that has its answer saves.
FileInv ==
    up /\ ~stray /\ (\A k \in Click : pc[k] # "save") => Parsed(file) = config

Busy == {"apply", "save", "form"}

\* A page has one click on Apply under way at most.
ClickInv ==
    \A j, k \in Click : pc[j] \in Busy /\ pc[k] \in Busy /\ at[j] = at[k] => j = k

\* The form pane is shown only once what was typed has gone through the form,
\* and a page that failed to render has no click under way.
PaneOK(p) ==
    /\ page[p].mode = "friendly" => page[p].formed
    /\ page[p].mode = "broken" => ~Applying(p)

PaneInv == \A p \in Page : PaneOK(p)

\* What one pass through the form makes of c.
Passed(c) == Collected(Rendered(c))

Keeps(p) ==
    Renders(page[p].typed) =>
        Given(p) = IF page[p].formed THEN Passed(page[p].typed) ELSE page[p].typed

\* What p gives is what was typed, and Apply has no answer to show.
Showing(p) ==
    /\ page[p].conv = {} /\ page[p].pend = {} /\ Keeps(p)
    /\ \A k \in Click : at[k] = p => pc[k] # "form"

\* p waits for the other pane to be filled with what it gives.
Converting(p) ==
    /\ page[p].conv = {Given(p)} /\ page[p].pend = {} /\ Keeps(p) /\ ~Applying(p)

\* The form pane is shown; the form that is fetched for it gives what was typed.
Fetching(p) ==
    /\ page[p].conv = {} /\ page[p].mode = "friendly" /\ ~Applying(p)
    /\ \E c \in Content :
         /\ page[p].pend = {c}
         /\ Renders(page[p].typed) =>
              Renders(c) /\ Passed(c) = Passed(page[p].typed)

\* The same, after Apply: the form fetched is of what was applied.
Refreshing(p) ==
    /\ page[p].conv = {} /\ page[p].pend = {} /\ page[p].mode = "friendly"
    /\ \E k \in Click : at[k] = p /\ pc[k] = "form" /\ job[k] = page[p].typed

\* A page whose user waits for its calls is in one of these states, until it
\* reloads itself.
EditOK(p) ==
    ~page[p].hasty /\ ~page[p].due =>
        Showing(p) \/ Converting(p) \/ Fetching(p) \/ Refreshing(p)

EditInv == \A p \in Page : EditOK(p)

IInv == TypeInv /\ FileInv /\ ClickInv /\ PaneInv /\ EditInv

-----------------------------------------------------------------------------
(* Configurations, and what is made of them                                *)

\* The constants the module chooses are what they stand for.
LEMMA Chosen ==
  /\ Default \in Socket /\ SomePage \in Page
  /\ EmptyForm \in Content /\ Renders(EmptyForm)
  /\ EmptyText \in Content /\ ~Renders(EmptyText) /\ Initial \in Running /\ Initial \in Content
<1>1. Initial \in Running /\ Initial \in Content /\ Initial.socket \in Socket
  BY ContentAssumption DEF Running, Content
<1>2. Default \in Socket
  BY <1>1 DEF Default
<1>3. SomePage \in Page
  BY ContentAssumption DEF SomePage
<1>4. QED
  BY <1>1, <1>2, <1>3, ContentAssumption
  DEF EmptyForm, EmptyText, Whole, Content, Sort, Renders

\* What a form shows is rendered as it is.
LEMMA RenderedType ==
  ASSUME NEW c \in Content
  PROVE  /\ Rendered(c) \in Content
         /\ Rendered(c).sort \notin {"hidden", "unset", "odd"}
         /\ Renders(c) <=> Renders(Rendered(c))
<1>1. CASE c.sort = "hidden"
  <2>1. Rendered(c) = [c EXCEPT !.sort = "plain"]
    BY <1>1 DEF Rendered
  <2>2. QED BY <1>1, <2>1 DEF Content, Sort, Renders
<1>2. CASE c.sort \in {"unset", "odd"}
  <2>1. Rendered(c) = [c EXCEPT !.sort = "first"]
    BY <1>2 DEF Rendered
  <2>2. QED BY <1>2, <2>1 DEF Content, Sort, Renders
<1>3. CASE c.sort \notin {"hidden", "unset", "odd"}
  BY <1>3 DEF Rendered
<1>4. QED BY <1>1, <1>2, <1>3

LEMMA RenderedOnce ==
  ASSUME NEW c \in Content, c.sort \notin {"hidden", "unset", "odd"}
  PROVE  Rendered(c) = c
BY DEF Rendered

\* What is collected from a form is rendered, and collected again, as it is.
LEMMA CollectedOnce ==
  ASSUME NEW c \in Content, c.sort \notin {"hidden", "unset", "odd"}
  PROVE  /\ Collected(c) \in Content /\ Passed(c) = Collected(c)
         /\ Passed(Collected(c)) = Collected(c)
         /\ Renders(c) <=> Renders(Collected(c))
<1>1. Rendered(c) = c
  BY RenderedOnce
<1>2. CASE c.sort = "fraction"
  <2> DEFINE d == [c EXCEPT !.sort = "plain"]
  <2>1. Collected(c) = d
    BY <1>2 DEF Collected
  <2>2. d \in Content /\ d.sort = "plain"
    BY DEF Content, Sort
  <2> HIDE DEF d
  <2>3. Rendered(d) = d /\ Collected(d) = d
    BY <2>2, RenderedOnce DEF Collected
  <2>4. QED BY <1>1, <1>2, <2>1, <2>2, <2>3 DEF Passed, Renders
<1>3. CASE c.sort # "fraction"
  BY <1>1, <1>3 DEF Collected, Passed
<1>4. QED BY <1>2, <1>3

\* One pass through the form is as good as many.
LEMMA PassedOnce ==
  ASSUME NEW c \in Content
  PROVE  /\ Passed(c) \in Content /\ Passed(Passed(c)) = Passed(c)
         /\ Renders(c) <=> Renders(Passed(c))
BY RenderedType, CollectedOnce DEF Passed

\* A configuration that parses is one that runs; one that runs parses to itself.
LEMMA ParsedRuns ==
  ASSUME NEW c \in Content
  PROVE  /\ Parses(c) => Parsed(c) \in Running
         /\ Running \subseteq Content
         /\ c \in Running => Parsed(c) = c
<1>1. CASE c.sort \in {"bare", "unset"}
  <2>1. Parsed(c) = [c EXCEPT !.sort = "plain"]
    BY <1>1 DEF Parsed
  <2>2. QED BY <1>1, <2>1 DEF Content, Sort, Running
<1>2. CASE c.sort \notin {"bare", "unset"}
  BY <1>2 DEF Parsed, Parses, Running, Content, Sort
<1>3. QED BY <1>1, <1>2

\* A page that is loaded gives what it got.
LEMMA FreshPane ==
  ASSUME NEW c \in Content
  PROVE  /\ Fresh(c) \in Pane
         /\ Fresh(c).mode = (IF Renders(c) THEN "friendly" ELSE "broken")
         /\ Fresh(c).formed /\ ~Fresh(c).hasty /\ Fresh(c).conv = {} /\ Fresh(c).pend = {}
         /\ Fresh(c).form = Rendered(c) /\ Fresh(c).typed = c
  BY RenderedType DEF Fresh, Pane

\* A page whose daemon cannot be reached gives what no one typed.
LEMMA DownPane ==
  /\ Down \in Pane /\ Down.mode = "friendly"
  /\ Down.formed /\ ~Down.hasty /\ Down.conv = {} /\ Down.pend = {}
  /\ ~Renders(Down.typed)
<1> DEFINE f == Fresh(EmptyForm)
<1>1. /\ f \in Pane /\ f.mode = "friendly" /\ f.formed /\ ~f.hasty
      /\ f.conv = {} /\ f.pend = {}
  BY Chosen, FreshPane
<1>2. Down = [f EXCEPT !.form = EmptyForm, !.text = EmptyText, !.typed = EmptyText]
  BY DEF Down
<1> HIDE DEF f
<1>3. QED BY <1>1, <1>2, Chosen DEF Pane

-----------------------------------------------------------------------------
(* What a step does to clicks and panes                                    *)

ClickType ==
    /\ pc \in [Click -> {"new", "apply", "save", "form", "late", "over"}]
    /\ at \in [Click -> Page] /\ job \in [Click -> Content]
    /\ JobsRun

Kept(k) == pc'[k] = pc[k] /\ at'[k] = at[k] /\ job'[k] = job[k]

\* A click that ends is forgotten; the others go on.
LEMMA OverStep ==
  ASSUME TypeInv, NEW k \in Click, Over(k)
  PROVE  ClickType' /\ pc'[k] = "over" /\ \A j \in Click : j # k => Kept(j)
<1>1. /\ pc' = [pc EXCEPT ![k] = "over"] /\ at' = [at EXCEPT ![k] = SomePage]
      /\ job' = [job EXCEPT ![k] = EmptyForm]
  BY DEF Over
<1>2. QED BY <1>1, Chosen DEF TypeInv, TypeOK, ClickType, JobsRun, Kept

\* The same, of several clicks.
LEMMA EndStep ==
  ASSUME TypeInv, NEW S, End(S)
  PROVE  ClickType' /\ \A j \in Click : IF j \in S THEN pc'[j] = "over" ELSE Kept(j)
BY Chosen DEF End, TypeInv, TypeOK, ClickType, JobsRun, Kept

\* A click of which only the place changes.
LEMMA MoveStep ==
  ASSUME TypeInv, NEW k \in Click, pc[k] \in {"apply", "save", "form", "late"},
         NEW to \in {"apply", "save", "form", "late"},
         pc' = [pc EXCEPT ![k] = to], UNCHANGED <<at, job>>
  PROVE  /\ ClickType' /\ pc'[k] = to /\ at'[k] = at[k] /\ job'[k] = job[k]
         /\ \A j \in Click : j # k => Kept(j)
BY DEF TypeInv, TypeOK, ClickType, JobsRun, Kept

\* The clicks of a page that is left: none is busy any more.
LEMMA LeaveStep ==
  ASSUME TypeInv, NEW p \in Page, Leave(p)
  PROVE  /\ ClickType'
         /\ \A k \in Click :
              /\ at[k] # p => pc'[k] = pc[k]
              /\ pc'[k] # "over" => at'[k] = at[k] /\ job'[k] = job[k]
              /\ pc'[k] \in Busy => pc'[k] = pc[k] /\ at[k] # p
         /\ stray' = (stray \/ \E k \in Click : at[k] = p /\ pc[k] = "save")
<1> DEFINE after(k) == IF at[k] # p THEN pc[k]
                       ELSE CASE pc[k] = "apply" -> "late"
                              [] pc[k] \in {"save", "form"} -> "over"
                              [] OTHER -> pc[k]
<1>1. ASSUME NEW k \in Click
      PROVE  /\ after(k) \in {"new", "apply", "save", "form", "late", "over"}
             /\ at[k] # p => after(k) = pc[k]
             /\ after(k) \in Busy => after(k) = pc[k] /\ at[k] # p
             /\ after(k) = "late" => pc[k] \in {"apply", "late"}
  BY DEF TypeInv, TypeOK, Busy
<1>2. pc' = [k \in Click |-> after(k)]
  BY DEF Leave
<1> HIDE DEF after
<1>3. \A k \in Click : pc'[k] = after(k)
  BY <1>2
<1>4. /\ job' = [k \in Click |-> IF pc'[k] = "over" THEN EmptyForm ELSE job[k]]
      /\ at' = [k \in Click |-> IF pc'[k] = "over" THEN SomePage ELSE at[k]]
      /\ stray' = (stray \/ \E k \in Click : at[k] = p /\ pc[k] = "save")
  BY DEF Leave
<1>5. /\ pc' \in [Click -> {"new", "apply", "save", "form", "late", "over"}]
      /\ at' \in [Click -> Page] /\ job' \in [Click -> Content]
  BY <1>1, <1>2, <1>4, Chosen DEF TypeInv, TypeOK
<1>6. JobsRun'
  BY <1>1, <1>3, <1>4 DEF TypeInv, JobsRun, Busy
<1>7. QED BY <1>1, <1>3, <1>4, <1>5, <1>6 DEF ClickType

\* One pane changes.
LEMMA PaneStep ==
  ASSUME TypeInv, NEW p \in Page, NEW r \in Pane, page' = [page EXCEPT ![p] = r]
  PROVE  /\ page' \in [Page -> Pane] /\ page'[p] = r
         /\ \A q \in Page : q # p => page'[q] = page[q]
BY DEF TypeInv, TypeOK

\* What a page gives is a content.
LEMMA GivenType ==
  ASSUME TypeInv, NEW p \in Page
  PROVE  Given(p) \in Content
<1>1. page[p].form \in Content /\ page[p].text \in Content
  BY DEF TypeInv, TypeOK, Pane
<1>2. Collected(page[p].form) \in Content
  BY <1>1 DEF Collected, Content, Sort
<1>3. QED BY <1>1, <1>2 DEF Given

\* Acting on a page only marks it, when one of its calls is under way.
LEMMA HastyPane ==
  ASSUME TypeInv, NEW p \in Page
  PROVE  LET h == Hastily(p)[p]
         IN  /\ h \in Pane /\ h.hasty = (page[p].hasty \/ ~Calm(p))
             /\ h.mode = page[p].mode /\ h.form = page[p].form /\ h.text = page[p].text
             /\ h.conv = page[p].conv /\ h.pend = page[p].pend /\ h.due = page[p].due
             /\ h.typed = page[p].typed /\ h.formed = page[p].formed
             /\ Hastily(p) = [page EXCEPT ![p] = h]
<1> DEFINE r == page[p]
           h == [r EXCEPT !.hasty = r.hasty \/ ~Calm(p)]
<1>1. page \in [Page -> Pane] /\ r \in Pane
  BY DEF TypeInv, TypeOK
<1>2. Hastily(p) = [page EXCEPT ![p] = h]
  BY DEF Hastily
<1>3. Hastily(p)[p] = h
  BY <1>1, <1>2
<1>4. (r.hasty \/ ~Calm(p)) \in BOOLEAN
  OBVIOUS
<1> DEFINE b == r.hasty \/ ~Calm(p)
<1> HIDE DEF r, b
<1>5. h = [r EXCEPT !.hasty = b]
  BY DEF b
<1>6. b \in BOOLEAN
  BY DEF b
<1> HIDE DEF h
<1>7. /\ h \in Pane /\ h.hasty = b
      /\ h.mode = r.mode /\ h.form = r.form /\ h.text = r.text
      /\ h.conv = r.conv /\ h.pend = r.pend /\ h.due = r.due
      /\ h.typed = r.typed /\ h.formed = r.formed
  BY <1>1, <1>5, <1>6 DEF Pane
<1>8. QED BY <1>2, <1>3, <1>7 DEF r, b

-----------------------------------------------------------------------------
(* The steps of the daemon, and of clicks that wait for it                 *)

\* What a page shows to its user is untouched by what the clicks of other
\* pages do, and by its own as long as it gets no answer.
LEMMA Untouched ==
  ASSUME NEW q \in Page, EditOK(q), page'[q] = page[q],
         \A k \in Click : pc'[k] \in Busy /\ at'[k] = q => pc[k] \in Busy /\ at[k] = q,
         \A k \in Click : pc'[k] = "form" /\ at'[k] = q <=> pc[k] = "form" /\ at[k] = q,
         \A k \in Click : pc[k] = "form" /\ at[k] = q => job'[k] = job[k]
  PROVE  EditOK(q)'
<1>1. Given(q)' = Given(q) /\ (Keeps(q)' <=> Keeps(q))
  BY DEF Given, Keeps
<1>2. Applying(q)' => Applying(q)
  BY DEF Applying, Busy
<1>3. Showing(q) => Showing(q)'
  BY <1>1 DEF Showing
<1>4. Converting(q) => Converting(q)'
  BY <1>1, <1>2 DEF Converting
<1>5. Fetching(q) => Fetching(q)'
  BY <1>2 DEF Fetching
<1>6. Refreshing(q) => Refreshing(q)'
  BY DEF Refreshing
<1>7. QED BY <1>3, <1>4, <1>5, <1>6 DEF EditOK

\* A click that has no answer to show goes on or ends.
Quiet(k) ==
    \/ Kept(k)
    \/ /\ pc[k] # "form" /\ pc'[k] # "form"
       /\ pc'[k] \in Busy => pc[k] \in Busy /\ at'[k] = at[k]

LEMMA QuietStep ==
  ASSUME IInv, UNCHANGED page, \A k \in Click : Quiet(k)
  PROVE  ClickInv' /\ PaneInv' /\ EditInv'
<1>1. ClickInv'
  BY DEF IInv, ClickInv, Quiet, Kept
<1>2. ASSUME NEW q \in Page
      PROVE  PaneOK(q)'
  <2>1. Applying(q)' => Applying(q)
    BY DEF Applying, Quiet, Kept, Busy
  <2>2. QED BY <2>1 DEF IInv, PaneInv, PaneOK
<1>3. ASSUME NEW q \in Page
      PROVE  EditOK(q)'
  <2>1. EditOK(q) /\ page'[q] = page[q]
    BY DEF IInv, EditInv
  <2>2. \A k \in Click : pc'[k] \in Busy /\ at'[k] = q => pc[k] \in Busy /\ at[k] = q
    BY DEF Quiet, Kept
  <2>3. \A k \in Click : pc'[k] = "form" /\ at'[k] = q <=> pc[k] = "form" /\ at[k] = q
    BY DEF Quiet, Kept
  <2>4. \A k \in Click : pc[k] = "form" /\ at[k] = q => job'[k] = job[k]
    BY DEF Quiet, Kept
  <2>5. QED BY <2>1, <2>2, <2>3, <2>4, Untouched
<1>4. QED BY <1>1, <1>2, <1>3 DEF EditInv, PaneInv

\* What remains of the types.
LEMMA TypeStep ==
  ASSUME ClickType', page' \in [Page -> Pane], address' \in Socket, acts' \in 0 .. MaxActs,
         up' \in BOOLEAN, config' \in Running, file' \in Content, stray' \in BOOLEAN
  PROVE  TypeInv'
BY DEF ClickType, TypeInv, TypeOK

\* A count of acts stays within its bound.
LEMMA ActsBound ==
  ASSUME TypeInv, Act
  PROVE  acts' \in 0 .. MaxActs
BY BoundAssumption DEF Act, TypeInv, TypeOK

\* An apply is done: its page is about to save, or is not there any more.
LEMMA ApplyDoneInv ==
  ASSUME IInv, NEW k \in Click, ApplyDone(k)
  PROVE  IInv'
<1>1. /\ pc[k] \in {"apply", "late"} /\ job[k] \in Running /\ config \in Running
      /\ up /\ UNCHANGED <<page, address, acts, up, file>>
      /\ config' = Installed(k) /\ TypeInv
  BY DEF ApplyDone, IInv, TypeInv, TypeOK, JobsRun
<1>2. config' \in Running /\ config' \in Content
  BY <1>1 DEF Installed, Running, Content
<1>3. CASE pc[k] = "apply"
  <2>1. pc' = [pc EXCEPT ![k] = "save"] /\ job' = [job EXCEPT ![k] = config']
        /\ UNCHANGED <<at, stray>>
    BY <1>3 DEF ApplyDone
  <2>2. ClickType'
    BY <1>1, <1>2, <2>1 DEF TypeInv, TypeOK, ClickType, JobsRun
  <2>3. pc'[k] = "save" /\ at'[k] = at[k] /\ \A j \in Click : j # k => Kept(j)
    BY <1>1, <2>1 DEF TypeInv, TypeOK, Kept
  <2>4. ClickInv' /\ PaneInv' /\ EditInv'
    BY <1>1, <1>3, <2>3, QuietStep DEF Quiet, Busy
  <2>5. TypeInv'
    BY <1>1, <1>2, <2>1, <2>2, TypeStep DEF TypeInv, TypeOK
  <2>6. FileInv'
    BY <2>3 DEF FileInv
  <2>7. QED BY <2>4, <2>5, <2>6 DEF IInv
<1>4. CASE pc[k] = "late"
  <2>1. Over(k) /\ stray' = (Parsed(file) # config')
    BY <1>4 DEF ApplyDone
  <2>2. ClickType' /\ pc'[k] = "over" /\ \A j \in Click : j # k => Kept(j)
    BY <1>1, <2>1, OverStep
  <2>3. ClickInv' /\ PaneInv' /\ EditInv'
    BY <1>1, <1>4, <2>2, QuietStep DEF Quiet, Busy
  <2>4. TypeInv'
    BY <1>1, <1>2, <2>1, <2>2, TypeStep DEF TypeInv, TypeOK
  <2>5. FileInv'
    BY <1>1, <2>1 DEF FileInv, Parsed
  <2>6. QED BY <2>3, <2>4, <2>5 DEF IInv
<1>5. QED BY <1>1, <1>3, <1>4

\* A click ends, or its page gives up, without a save.
LEMMA NoSaveInv ==
  ASSUME IInv, NEW k \in Click,
         ApplyRaises(k) \/ GiveUp(k) \/ SaveRefused(k)
  PROVE  IInv'
<1>1. /\ pc[k] \in {"apply", "late", "save"}
      /\ UNCHANGED <<page, address, up, config, file>> /\ TypeInv
      /\ acts' \in 0 .. MaxActs /\ stray' \in BOOLEAN
  BY ActsBound DEF ApplyRaises, GiveUp, SaveRefused, May, IInv, TypeInv, TypeOK, daemon
<1>2. /\ ClickType' /\ pc'[k] \in {"late", "over"} /\ \A j \in Click : j # k => Kept(j)
  BY <1>1, OverStep, MoveStep DEF ApplyRaises, GiveUp, SaveRefused
<1>3. ClickInv' /\ PaneInv' /\ EditInv'
  BY <1>1, <1>2, QuietStep DEF Quiet, Busy
<1>4. TypeInv'
  BY <1>1, <1>2, TypeStep DEF TypeInv, TypeOK
<1>5. \/ stray' = TRUE
      \/ stray' = stray /\ pc[k] # "save"
  BY DEF ApplyRaises, GiveUp, SaveRefused
<1>6. FileInv'
  BY <1>1, <1>2, <1>5 DEF IInv, FileInv, Kept, Parsed
<1>7. QED BY <1>3, <1>4, <1>6 DEF IInv

\* The file is edited, or a save of it fails.
LEMMA TornInv ==
  ASSUME IInv,
         \/ \E c \in Typed : HandEdit(c)
         \/ \E k \in Click : SaveFails(k) \/ CrashSaving(k)
  PROVE  IInv'
<1>1. Torn => file' \in Content
  BY Chosen, ContentAssumption DEF Torn, Whole, Content, Sort
<1>2. /\ UNCHANGED <<page, address, config>> /\ stray' = TRUE /\ file' \in Content
      /\ acts' \in 0 .. MaxActs /\ up' \in BOOLEAN /\ TypeInv
  BY <1>1, ActsBound, ContentAssumption
  DEF HandEdit, SaveFails, CrashSaving, Torn, May, IInv, TypeInv, TypeOK
<1>3. ClickType' /\ \A k \in Click : Quiet(k)
  <2>1. CASE \E c \in Typed : HandEdit(c)
    BY <1>2, <2>1 DEF HandEdit, clicks, ClickType, JobsRun, Quiet, Kept, TypeInv, TypeOK
  <2>2. ASSUME NEW k \in Click, SaveFails(k)
        PROVE  ClickType' /\ \A j \in Click : Quiet(j)
    BY <1>2, <2>2, OverStep DEF SaveFails, Quiet, Busy
  <2>3. ASSUME NEW k \in Click, CrashSaving(k)
        PROVE  ClickType' /\ \A j \in Click : Quiet(j)
    <3>1. pc[k] = "save" /\ End(Served \cup {k})
      BY <2>3 DEF CrashSaving
    <3>2. \A j \in Served \cup {k} : pc[j] # "form"
      BY <3>1 DEF Served
    <3>3. QED BY <1>2, <3>1, <3>2, EndStep DEF Quiet, Busy
  <2>4. QED BY <2>1, <2>2, <2>3
<1>4. ClickInv' /\ PaneInv' /\ EditInv'
  BY <1>2, <1>3, QuietStep
<1>5. TypeInv'
  BY <1>2, <1>3, TypeStep DEF TypeInv, TypeOK
<1>6. FileInv'
  BY <1>2 DEF FileInv
<1>7. QED BY <1>4, <1>5, <1>6 DEF IInv

\* The daemon ends, and is started again.
LEMMA CrashInv ==
  ASSUME IInv, Crash \/ Boot
  PROVE  IInv'
<1>1. TypeInv
  BY DEF IInv
<1>2. CASE Crash
  <2>1. /\ UNCHANGED <<page, address, config, file, stray>> /\ ~up'
        /\ up' \in BOOLEAN /\ acts' \in 0 .. MaxActs /\ End(Served)
    BY <1>1, <1>2, ActsBound DEF Crash, May
  <2>2. ClickType' /\ \A k \in Click : Quiet(k)
    BY <1>1, <2>1, EndStep DEF Served, Quiet, Busy
  <2>3. ClickInv' /\ PaneInv' /\ EditInv'
    BY <2>1, <2>2, QuietStep
  <2>4. TypeInv'
    BY <1>1, <2>1, <2>2, TypeStep DEF TypeInv, TypeOK
  <2>5. QED BY <2>1, <2>3, <2>4 DEF IInv, FileInv
<1>3. CASE Boot
  <2>1. /\ UNCHANGED <<page, address, acts, clicks, file>>
        /\ up' \in BOOLEAN /\ stray' = FALSE /\ config' = Parsed(file) /\ Parses(file)
    BY <1>3 DEF Boot
  <2>2. config' \in Running
    BY <1>1, <2>1, ParsedRuns DEF TypeInv, TypeOK
  <2>3. ClickType' /\ \A k \in Click : Quiet(k)
    BY <1>1, <2>1 DEF clicks, ClickType, JobsRun, Quiet, Kept, TypeInv, TypeOK
  <2>4. ClickInv' /\ PaneInv' /\ EditInv'
    BY <2>1, <2>3, QuietStep
  <2>5. TypeInv'
    BY <1>1, <2>1, <2>2, <2>3, TypeStep DEF TypeInv, TypeOK
  <2>6. FileInv'
    BY <2>1 DEF FileInv, Parsed
  <2>7. QED BY <2>4, <2>5, <2>6 DEF IInv
<1>4. QED BY <1>2, <1>3

-----------------------------------------------------------------------------
(* The steps of a page                                                     *)

\* The clicks of the pages other than p go on as they were.
Local(p) ==
    \A k \in Click :
        /\ pc'[k] \in Busy /\ at'[k] # p => pc[k] \in Busy /\ at'[k] = at[k]
        /\ pc'[k] = "form" /\ at'[k] # p => pc[k] = "form" /\ at'[k] = at[k]
        /\ pc[k] = "form" /\ at[k] # p =>
             pc'[k] = "form" /\ at'[k] = at[k] /\ job'[k] = job[k]

\* A step of p's pane and clicks keeps what the panes show of what was typed.
LEMMA PageStep ==
  ASSUME IInv, NEW p \in Page, Local(p),
         \A q \in Page : q # p => page'[q] = page[q],
         PaneOK(p)', EditOK(p)'
  PROVE  PaneInv' /\ EditInv'
<1>1. ASSUME NEW q \in Page, q # p
      PROVE  EditOK(q)'
  <2>1. EditOK(q) /\ page'[q] = page[q]
    BY <1>1 DEF IInv, EditInv
  <2>2. \A k \in Click : pc'[k] \in Busy /\ at'[k] = q => pc[k] \in Busy /\ at[k] = q
    BY <1>1 DEF Local
  <2>3. \A k \in Click : pc'[k] = "form" /\ at'[k] = q <=> pc[k] = "form" /\ at[k] = q
    BY <1>1 DEF Local
  <2>4. \A k \in Click : pc[k] = "form" /\ at[k] = q => job'[k] = job[k]
    BY <1>1 DEF Local
  <2>5. QED BY <2>1, <2>2, <2>3, <2>4, Untouched
<1>2. EditInv'
  BY <1>1 DEF EditInv
<1>3. ASSUME NEW q \in Page, q # p
      PROVE  PaneOK(q)'
  <2>1. Applying(q)' => Applying(q)
    BY <1>3 DEF Applying, Local, Busy
  <2>2. page'[q] = page[q]
    BY <1>3
  <2>3. QED BY <2>1, <2>2 DEF IInv, PaneInv, PaneOK
<1>4. QED BY <1>2, <1>3 DEF PaneInv

\* A page none of whose calls is under way shows what was typed.
LEMMA CalmShows ==
  ASSUME IInv, NEW p \in Page, Calm(p), ~page[p].hasty
  PROVE  Showing(p) /\ ~Applying(p) /\ ~page[p].due
<1>1. EditOK(p)
  BY DEF IInv, EditInv
<1>2. page[p].conv = {} /\ page[p].pend = {} /\ ~page[p].due /\ ~Applying(p)
  BY DEF Calm
<1>3. \A k \in Click : at[k] = p => pc[k] # "form"
  BY <1>2 DEF Applying
<1>4. ~Converting(p) /\ ~Fetching(p) /\ ~Refreshing(p)
  BY <1>2, <1>3 DEF Converting, Fetching, Refreshing
<1>5. QED BY <1>1, <1>2, <1>4 DEF EditOK

\* What stays when the clicks and the daemon do nothing.
LEMMA PagesOnly ==
  ASSUME IInv, UNCHANGED <<pc, at, job, up, config, file, stray>>
  PROVE  /\ ClickType' /\ ClickInv' /\ FileInv' /\ \A p \in Page : Local(p)
         /\ up' \in BOOLEAN /\ config' \in Running /\ file' \in Content /\ stray' \in BOOLEAN
<1>1. ClickType' /\ ClickInv' /\ \A p \in Page : Local(p)
  BY DEF IInv, TypeInv, TypeOK, ClickType, JobsRun, ClickInv, Local
<1>2. FileInv'
  BY DEF IInv, FileInv, Parsed
<1>3. QED BY <1>1, <1>2 DEF IInv, TypeInv, TypeOK

\* The user types in the pane that is shown.
LEMMA TypeTextInv ==
  ASSUME IInv, NEW p \in Author, NEW c \in Typed, Type(p, c)
  PROVE  IInv'
<1> DEFINE h == Hastily(p)[p]
<1>1. p \in Page /\ c \in Content /\ TypeInv
  BY ContentAssumption DEF IInv
<1>2. /\ h \in Pane /\ h.hasty = (page[p].hasty \/ ~Calm(p))
      /\ h.mode = page[p].mode /\ h.form = page[p].form /\ h.text = page[p].text
      /\ h.conv = page[p].conv /\ h.pend = page[p].pend /\ h.due = page[p].due
      /\ h.typed = page[p].typed /\ h.formed = page[p].formed
      /\ Hastily(p) = [page EXCEPT ![p] = h]
  BY <1>1, HastyPane
<1>3. /\ UNCHANGED <<address, pc, at, job, up, config, file, stray>>
      /\ acts' \in 0 .. MaxActs
  BY <1>1, ActsBound DEF Type, clicks, daemon
<1> HIDE DEF h
<1>4. ASSUME NEW r \in Pane, page' = [page EXCEPT ![p] = r],
             r.hasty = h.hasty, r.due = h.due, r.conv = h.conv, r.pend = h.pend,
             \/ r.mode = "friendly" /\ r.formed /\ Collected(r.form) = Passed(r.typed)
             \/ r.mode = "raw" /\ ~r.formed /\ r.text = r.typed
      PROVE  IInv'
  <2>1. /\ page' \in [Page -> Pane] /\ page'[p] = r
        /\ \A q \in Page : q # p => page'[q] = page[q]
    BY <1>1, <1>4, PaneStep
  <2>2. EditOK(p)'
    <3>1. SUFFICES ASSUME ~r.hasty, ~r.due
                   PROVE  Showing(p)'
      BY <2>1, <3>1 DEF EditOK
    <3>2. Calm(p) /\ ~page[p].hasty
      BY <1>2, <1>4, <3>1
    <3>3. Showing(p)
      BY <1>1, <3>2, CalmShows
    <3>4. Keeps(p)'
      BY <1>4, <2>1 DEF Keeps, Given
    <3>5. r.conv = {} /\ r.pend = {}
      BY <1>2, <1>4, <3>3 DEF Showing
    <3>6. QED BY <1>3, <2>1, <3>3, <3>4, <3>5 DEF Showing
  <2>3. PaneOK(p)'
    BY <1>4, <2>1 DEF PaneOK
  <2>4. PaneInv' /\ EditInv'
    BY <1>1, <1>3, <2>1, <2>2, <2>3, PageStep, PagesOnly
  <2>5. TypeInv'
    BY <1>1, <1>3, <2>1, PagesOnly, TypeStep DEF TypeInv, TypeOK
  <2>6. QED BY <1>3, <2>4, <2>5, PagesOnly DEF IInv
<1>5. page[p].form \in Content
  BY <1>1 DEF TypeInv, TypeOK, Pane
<1>6. CASE page[p].mode = "raw"
  <2> DEFINE r == [h EXCEPT !.text = c, !.typed = c, !.formed = FALSE]
  <2>1. page' = [page EXCEPT ![p] = r]
    <3>1. page' = [Hastily(p) EXCEPT ![p].text = c, ![p].typed = c, ![p].formed = FALSE]
      BY <1>6 DEF Type
    <3>2. page \in [Page -> Pane]
      BY <1>1 DEF TypeInv, TypeOK
    <3>3. QED BY <1>1, <1>2, <3>1, <3>2
  <2>2. /\ r \in Pane /\ r.hasty = h.hasty /\ r.due = h.due /\ r.conv = h.conv
        /\ r.pend = h.pend /\ r.mode = h.mode
        /\ r.text = c /\ r.typed = c /\ r.formed = FALSE
    BY <1>1, <1>2 DEF Pane
  <2> HIDE DEF r
  <2>3. QED BY <1>2, <1>4, <1>6, <2>1, <2>2
<1>7. CASE page[p].mode = "friendly"
  <2> DEFINE f == [Rendered(c) EXCEPT !.socket = page[p].form.socket]
             r == [h EXCEPT !.form = f, !.typed = f, !.formed = TRUE]
  <2>1. f \in Content /\ Collected(f) = Passed(f)
    <3>1. Rendered(c) \in Content /\ Rendered(c).sort \notin {"hidden", "unset", "odd"}
      BY <1>1, RenderedType
    <3>2. f \in Content /\ f.sort \notin {"hidden", "unset", "odd"}
      BY <1>5, <3>1 DEF Content
    <3> HIDE DEF f
    <3>3. QED BY <3>2, CollectedOnce
  <2>2. page' = [page EXCEPT ![p] = r]
    <3>1. page' = [Hastily(p) EXCEPT ![p].form = f, ![p].typed = f, ![p].formed = TRUE]
      BY <1>7 DEF Type
    <3>2. page \in [Page -> Pane]
      BY <1>1 DEF TypeInv, TypeOK
    <3> HIDE DEF f
    <3>3. QED BY <1>1, <1>2, <3>1, <3>2
  <2> HIDE DEF f
  <2>3. /\ r \in Pane /\ r.hasty = h.hasty /\ r.due = h.due /\ r.conv = h.conv
        /\ r.pend = h.pend /\ r.mode = h.mode /\ r.form = f
        /\ r.typed = f /\ r.formed = TRUE
    BY <1>1, <1>2, <2>1 DEF Pane
  <2> HIDE DEF r
  <2>4. QED BY <1>2, <1>4, <1>7, <2>1, <2>2, <2>3
<1>8. QED BY <1>6, <1>7 DEF Type

\* Panes are switched: until the other is filled, what is shown stays.
LEMMA SwitchInv ==
  ASSUME IInv, NEW p \in Author, Switch(p)
  PROVE  IInv'
<1> DEFINE h == Hastily(p)[p]
           r == [h EXCEPT !.conv = {Given(p)}]
<1>1. p \in Page /\ TypeInv /\ page \in [Page -> Pane] /\ Given(p) \in Content
      /\ page[p].mode # "broken"
  BY ContentAssumption, GivenType DEF IInv, TypeInv, TypeOK, Switch, Works
<1>2. /\ h \in Pane /\ h.hasty = (page[p].hasty \/ ~Calm(p))
      /\ h.mode = page[p].mode /\ h.form = page[p].form /\ h.text = page[p].text
      /\ h.conv = page[p].conv /\ h.pend = page[p].pend /\ h.due = page[p].due
      /\ h.typed = page[p].typed /\ h.formed = page[p].formed
      /\ Hastily(p) = [page EXCEPT ![p] = h]
  BY <1>1, HastyPane
<1>3. /\ UNCHANGED <<address, pc, at, job, up, config, file, stray>>
      /\ acts' \in 0 .. MaxActs
  BY <1>1, ActsBound DEF Switch, clicks, daemon
<1> HIDE DEF h
<1>4. page' = [page EXCEPT ![p] = r]
  <2>1. page' = [Hastily(p) EXCEPT ![p].conv = {Given(p)}]
    BY DEF Switch
  <2>2. QED BY <1>1, <1>2, <2>1
<1>5. /\ r \in Pane /\ r.hasty = h.hasty /\ r.due = h.due /\ r.conv = {Given(p)}
      /\ r.pend = h.pend /\ r.mode = h.mode /\ r.form = h.form
      /\ r.text = h.text /\ r.typed = h.typed /\ r.formed = h.formed
  BY <1>1, <1>2 DEF Pane
<1> HIDE DEF r
<1>6. /\ page' \in [Page -> Pane] /\ page'[p] = r
      /\ \A q \in Page : q # p => page'[q] = page[q]
  BY <1>1, <1>4, <1>5, PaneStep
<1>7. Given(p)' = Given(p) /\ (Keeps(p)' <=> Keeps(p)) /\ (Applying(p)' <=> Applying(p))
  BY <1>2, <1>3, <1>5, <1>6 DEF Given, Keeps, Applying
<1>8. EditOK(p)'
  <2>1. SUFFICES ASSUME ~r.hasty
                 PROVE  Converting(p)'
    BY <1>6, <2>1 DEF EditOK
  <2>2. Calm(p) /\ ~page[p].hasty
    BY <1>2, <1>5, <2>1
  <2>3. QED BY <1>1, <1>2, <1>5, <1>6, <1>7, <2>2, CalmShows DEF Converting, Showing
<1>9. PaneOK(p)'
  BY <1>1, <1>2, <1>5, <1>6 DEF IInv, PaneInv, PaneOK
<1>10. PaneInv' /\ EditInv'
  BY <1>1, <1>3, <1>6, <1>8, <1>9, PageStep, PagesOnly
<1>11. TypeInv'
  BY <1>1, <1>3, <1>6, PagesOnly, TypeStep DEF TypeInv, TypeOK
<1>12. QED BY <1>3, <1>10, <1>11, PagesOnly DEF IInv

\* What a page calls while it awaits an answer: it is not applying, unless its
\* user was hasty.
LEMMA Waiting ==
  ASSUME IInv, NEW p \in Page, ~page[p].hasty, ~page[p].due
  PROVE  /\ page[p].conv # {} => Converting(p)
         /\ page[p].pend # {} => Fetching(p)
BY DEF IInv, EditInv, EditOK, Showing, Converting, Fetching, Refreshing

\* /api/convert answers: the other pane is shown.
LEMMA ConvertedInv ==
  ASSUME IInv, NEW p \in Page, Converted(p)
  PROVE  IInv'
<1> DEFINE o == page[p]
<1>1. TypeInv /\ page \in [Page -> Pane] /\ o \in Pane
  BY DEF IInv, TypeInv, TypeOK
<1>2. PICK c \in o.conv :
         IF o.mode = "friendly"
           THEN page' = [page EXCEPT ![p].text = c, ![p].mode = "raw",
                                     ![p].conv = {}, ![p].formed = TRUE]
           ELSE page' = [page EXCEPT ![p].mode = "friendly", ![p].conv = {},
                                     ![p].pend = @ \cup {c}, ![p].formed = TRUE]
  BY DEF Converted
<1>3. c \in Content
  BY <1>1, <1>2 DEF Pane
<1>4. UNCHANGED <<address, acts, pc, at, job, up, config, file, stray>>
  BY DEF Converted, clicks, daemon
<1>5. o.typed \in Content
  BY <1>1 DEF Pane
<1>6. ASSUME ~o.hasty, ~o.due
      PROVE  c = Given(p) /\ o.pend = {} /\ Keeps(p) /\ ~Applying(p)
  <2>1. Converting(p)
    BY <1>2, <1>6, Waiting
  <2>2. QED BY <1>2, <2>1 DEF Converting
<1>7. Applying(p)' <=> Applying(p)
  BY <1>4 DEF Applying
<1>8. ASSUME NEW r \in Pane, page' = [page EXCEPT ![p] = r], r.mode # "broken",
             r.formed, EditOK(p)'
      PROVE  IInv'
  <2>1. /\ page' \in [Page -> Pane] /\ page'[p] = r
        /\ \A q \in Page : q # p => page'[q] = page[q]
    BY <1>1, <1>8, PaneStep
  <2>2. PaneInv' /\ EditInv'
    BY <1>4, <1>8, <2>1, PageStep, PagesOnly DEF PaneOK
  <2>3. TypeInv'
    BY <1>1, <1>4, <2>1, PagesOnly, TypeStep DEF TypeInv, TypeOK
  <2>4. QED BY <1>4, <2>2, <2>3, PagesOnly DEF IInv
<1>9. CASE o.mode = "friendly"
  <2> DEFINE r == [o EXCEPT !.text = c, !.mode = "raw", !.conv = {}, !.formed = TRUE]
  <2>1. page' = [page EXCEPT ![p] = r]
    BY <1>1, <1>2, <1>9
  <2>2. /\ r \in Pane /\ r.hasty = o.hasty /\ r.due = o.due /\ r.conv = {}
        /\ r.pend = o.pend /\ r.mode = "raw" /\ r.form = o.form
        /\ r.text = c /\ r.typed = o.typed /\ r.formed = TRUE
    BY <1>1, <1>3 DEF Pane
  <2> HIDE DEF r
  <2>3. page'[p] = r
    BY <1>1, <2>1, <2>2, PaneStep
  <2>4. EditOK(p)'
    <3>1. SUFFICES ASSUME ~o.hasty, ~o.due
                   PROVE  Showing(p)'
      BY <2>2, <2>3, <3>1 DEF EditOK
    <3>2. c = Given(p) /\ Given(p)' = c
      BY <1>6, <2>2, <2>3, <3>1 DEF Given
    <3>3. Keeps(p)'
      <4>1. o.formed
        BY <1>9 DEF IInv, PaneInv, PaneOK
      <4>2. QED BY <1>6, <2>2, <2>3, <3>1, <3>2, <4>1 DEF Keeps
    <3>4. \A k \in Click : at'[k] = p => pc'[k] # "form"
      BY <1>4, <1>6, <3>1 DEF Applying
    <3>5. QED BY <1>6, <2>2, <2>3, <3>1, <3>3, <3>4 DEF Showing
  <2>5. QED BY <1>8, <2>1, <2>2, <2>4
<1>10. CASE o.mode # "friendly"
  <2> DEFINE r == [o EXCEPT !.mode = "friendly", !.conv = {}, !.pend = o.pend \cup {c},
                            !.formed = TRUE]
  <2>1. page' = [page EXCEPT ![p] = r]
    BY <1>1, <1>2, <1>10
  <2>2. /\ r \in Pane /\ r.hasty = o.hasty /\ r.due = o.due /\ r.conv = {}
        /\ r.pend = o.pend \cup {c} /\ r.mode = "friendly" /\ r.form = o.form
        /\ r.text = o.text /\ r.typed = o.typed /\ r.formed = TRUE
    BY <1>1, <1>3 DEF Pane
  <2> HIDE DEF r
  <2>3. page'[p] = r
    BY <1>1, <2>1, <2>2, PaneStep
  <2>4. EditOK(p)'
    <3>1. SUFFICES ASSUME ~o.hasty, ~o.due
                   PROVE  Fetching(p)'
      BY <2>2, <2>3, <3>1 DEF EditOK
    <3>2. Renders(o.typed) => c = Passed(o.typed) \/ c = o.typed
      BY <1>6, <3>1 DEF Keeps
    <3>3. Renders(o.typed) => Renders(c) /\ Passed(c) = Passed(o.typed)
      BY <1>5, <3>2, PassedOnce
    <3>4. QED BY <1>3, <1>6, <1>7, <2>2, <2>3, <3>1, <3>3 DEF Fetching
  <2>5. QED BY <1>8, <2>1, <2>2, <2>4
<1>11. QED BY <1>9, <1>10

\* /fragment/form answers.
LEMMA FormArrivesInv ==
  ASSUME IInv, NEW p \in Page, NEW c \in Content, FormArrives(p, c)
  PROVE  IInv'
<1> DEFINE o == page[p]
           pane == [o EXCEPT !.pend = @ \ {c}]
           r == IF Renders(c) THEN [pane EXCEPT !.form = Rendered(c)] ELSE pane
<1>1. TypeInv /\ page \in [Page -> Pane] /\ o \in Pane
  BY DEF IInv, TypeInv, TypeOK
<1>2. c \in o.pend /\ page' = [page EXCEPT ![p] = r]
  BY DEF FormArrives
<1>3. UNCHANGED <<address, acts, pc, at, job, up, config, file, stray>>
  BY DEF FormArrives, clicks, daemon
<1>4. /\ r \in Pane /\ r.hasty = o.hasty /\ r.due = o.due /\ r.conv = o.conv
      /\ r.pend = o.pend \ {c} /\ r.mode = o.mode
      /\ r.form = (IF Renders(c) THEN Rendered(c) ELSE o.form)
      /\ r.text = o.text /\ r.typed = o.typed /\ r.formed = o.formed
  <2>1. /\ pane \in Pane /\ pane.hasty = o.hasty /\ pane.due = o.due /\ pane.conv = o.conv
        /\ pane.pend = o.pend \ {c} /\ pane.mode = o.mode /\ pane.form = o.form
        /\ pane.text = o.text /\ pane.typed = o.typed /\ pane.formed = o.formed
    <3>1. pane = [o EXCEPT !.pend = o.pend \ {c}]
      OBVIOUS
    <3>2. o.pend \ {c} \in SUBSET Content
      BY <1>1 DEF Pane
    <3> HIDE DEF pane
    <3>3. QED BY <1>1, <3>1, <3>2 DEF Pane
  <2> HIDE DEF pane
  <2>2. CASE ~Renders(c)
    BY <2>1, <2>2
  <2>3. CASE Renders(c)
    BY <2>1, <2>3, RenderedType DEF Pane
  <2>4. QED BY <2>2, <2>3
<1> HIDE DEF r
<1>5. /\ page' \in [Page -> Pane] /\ page'[p] = r
      /\ \A q \in Page : q # p => page'[q] = page[q]
  BY <1>1, <1>2, <1>4, PaneStep
<1>6. EditOK(p)'
  <2>1. SUFFICES ASSUME ~o.hasty, ~o.due
                 PROVE  Showing(p)'
    BY <1>4, <1>5, <2>1 DEF EditOK
  <2>2. Fetching(p)
    BY <1>2, <2>1, Waiting
  <2>3. /\ o.pend = {c} /\ o.conv = {} /\ o.mode = "friendly" /\ ~Applying(p)
        /\ Renders(o.typed) => Renders(c) /\ Passed(c) = Passed(o.typed)
    BY <1>2, <2>2 DEF Fetching
  <2>4. \A k \in Click : at'[k] = p => pc'[k] # "form"
    BY <1>3, <2>3 DEF Applying
  <2>5. o.formed
    BY <2>3 DEF IInv, PaneInv, PaneOK
  <2>6. Keeps(p)'
    <3>1. r.typed = o.typed /\ r.formed /\ page'[p] = r
      BY <1>4, <1>5, <2>5
    <3>2. Renders(o.typed) => r.form = Rendered(c) /\ Passed(c) = Passed(o.typed)
      BY <1>4, <2>3
    <3>3. Renders(o.typed) => Given(p)' = Passed(o.typed)
      BY <1>4, <2>3, <3>1, <3>2 DEF Given, Passed
    <3>4. QED BY <3>1, <3>3 DEF Keeps
  <2>7. QED BY <1>4, <1>5, <2>3, <2>4, <2>6 DEF Showing
<1>7. PaneOK(p)'
  BY <1>3, <1>4, <1>5 DEF IInv, PaneInv, PaneOK, Applying
<1>8. PaneInv' /\ EditInv'
  BY <1>3, <1>5, <1>6, <1>7, PageStep, PagesOnly
<1>9. TypeInv'
  BY <1>1, <1>3, <1>5, PagesOnly, TypeStep DEF TypeInv, TypeOK
<1>10. QED BY <1>3, <1>8, <1>9, PagesOnly DEF IInv

-----------------------------------------------------------------------------
(* Clicks: from the page and back to it                                    *)

\* A click that is new has no part in what the other pages show.
LEMMA NewClick ==
  ASSUME IInv, NEW p \in Page, NEW k \in Click, IsNext(k),
         pc'[k] \in {"apply", "late", "over"}, pc'[k] = "apply" => at'[k] = p /\ ~Applying(p),
         \A j \in Click : j # k => Kept(j)
  PROVE  /\ ClickInv' /\ Local(p)
         /\ \A j \in Click : at'[j] = p /\ pc'[j] = "form" => at[j] = p /\ pc[j] = "form"
         /\ \A j \in Click : pc'[j] = "save" <=> pc[j] = "save"
<1>1. pc[k] = "new"
  BY DEF IsNext
<1>2. ClickInv'
  BY <1>1 DEF IInv, ClickInv, Busy, Kept, Applying
<1>3. Local(p)
  BY <1>1 DEF Local, Busy, Kept
<1>4. QED BY <1>1, <1>2, <1>3 DEF Kept

\* Apply is clicked.
LEMMA ApplyInv ==
  ASSUME IInv, NEW p \in Page, NEW k \in Click, ApplyRefused(p, k) \/ Apply(p, k)
  PROVE  IInv'
<1> DEFINE h == Hastily(p)[p]
<1>1. TypeInv /\ page \in [Page -> Pane] /\ Given(p) \in Content
      /\ page[p].mode # "broken"
  BY GivenType DEF IInv, TypeInv, TypeOK, ApplyRefused, Apply, Works
<1>2. /\ h \in Pane /\ h.hasty = (page[p].hasty \/ ~Calm(p))
      /\ h.mode = page[p].mode /\ h.form = page[p].form /\ h.text = page[p].text
      /\ h.conv = page[p].conv /\ h.pend = page[p].pend /\ h.due = page[p].due
      /\ h.typed = page[p].typed /\ h.formed = page[p].formed
      /\ page' = [page EXCEPT ![p] = h]
  BY <1>1, HastyPane DEF ApplyRefused, Apply
<1> HIDE DEF h
<1>3. UNCHANGED <<address, acts, up, config, file, stray>> /\ IsNext(k) /\ ~Applying(p)
  BY DEF ApplyRefused, Apply, daemon
<1>4. /\ ClickType' /\ \A j \in Click : j # k => Kept(j)
      /\ pc'[k] \in {"apply", "over"} /\ (pc'[k] = "apply" => at'[k] = p)
  <2>1. CASE ApplyRefused(p, k)
    BY <1>1, <2>1, OverStep DEF ApplyRefused
  <2>2. CASE Apply(p, k)
    <3>1. /\ pc' = [pc EXCEPT ![k] = "apply"] /\ at' = [at EXCEPT ![k] = p]
          /\ job' = [job EXCEPT ![k] = Parsed(Given(p))] /\ Parses(Given(p))
      BY <2>2 DEF Apply
    <3>2. Parsed(Given(p)) \in Running /\ Parsed(Given(p)) \in Content
      BY <1>1, <3>1, ParsedRuns
    <3>3. QED BY <1>1, <3>1, <3>2 DEF TypeInv, TypeOK, ClickType, JobsRun, Kept
  <2>3. QED BY <2>1, <2>2
<1>5. /\ page' \in [Page -> Pane] /\ page'[p] = h
      /\ \A q \in Page : q # p => page'[q] = page[q]
  BY <1>1, <1>2, PaneStep
<1>6. /\ ClickInv' /\ Local(p)
      /\ \A j \in Click : at'[j] = p /\ pc'[j] = "form" => at[j] = p /\ pc[j] = "form"
      /\ \A j \in Click : pc'[j] = "save" <=> pc[j] = "save"
  BY <1>3, <1>4, NewClick
<1>7. EditOK(p)'
  <2>1. SUFFICES ASSUME ~h.hasty
                 PROVE  Showing(p)'
    BY <1>5, <2>1 DEF EditOK
  <2>2. Showing(p)
    BY <1>2, <2>1, CalmShows
  <2>3. Given(p)' = Given(p)
    BY <1>2, <1>5 DEF Given
  <2>4. Keeps(p)'
    BY <1>2, <1>5, <2>2, <2>3 DEF Keeps, Showing
  <2>5. QED BY <1>2, <1>5, <1>6, <2>2, <2>4 DEF Showing
<1>8. PaneOK(p)'
  BY <1>1, <1>2, <1>5 DEF IInv, PaneInv, PaneOK
<1>9. PaneInv' /\ EditInv'
  BY <1>5, <1>6, <1>7, <1>8, PageStep
<1>10. TypeInv'
  BY <1>1, <1>3, <1>4, <1>5, TypeStep DEF TypeInv, TypeOK
<1>11. FileInv'
  BY <1>3, <1>6 DEF IInv, FileInv, Parsed
<1>12. QED BY <1>6, <1>9, <1>10, <1>11 DEF IInv

\* Reload from disk is clicked: the page is about to reload itself.
LEMMA ReloadInv ==
  ASSUME IInv, NEW p \in Page, NEW k \in Click, Reload(p, k)
  PROVE  IInv'
<1> DEFINE h == Hastily(p)[p]
           r == [h EXCEPT !.due = TRUE]
<1>1. TypeInv /\ page \in [Page -> Pane] /\ file \in Content
      /\ page[p].mode # "broken"
  BY DEF IInv, TypeInv, TypeOK, Reload, Works
<1>2. /\ h \in Pane /\ h.mode = page[p].mode /\ h.formed = page[p].formed
      /\ Hastily(p) = [page EXCEPT ![p] = h]
  BY <1>1, HastyPane
<1>3. UNCHANGED <<address, acts, up, config, file, stray>> /\ IsNext(k)
  BY DEF Reload, daemon
<1>4. /\ ClickType' /\ \A j \in Click : j # k => Kept(j)
      /\ pc'[k] \in {"late", "over"}
  <2>1. CASE ~Parses(file)
    BY <1>1, <2>1, OverStep DEF Reload
  <2>2. CASE Parses(file)
    <3>1. /\ pc' = [pc EXCEPT ![k] = "late"] /\ UNCHANGED at
          /\ job' = [job EXCEPT ![k] = Parsed(file)]
      BY <2>2 DEF Reload
    <3>2. Parsed(file) \in Running /\ Parsed(file) \in Content
      BY <1>1, <2>2, ParsedRuns
    <3>3. QED BY <1>1, <3>1, <3>2 DEF TypeInv, TypeOK, ClickType, JobsRun, Kept
  <2>3. QED BY <2>1, <2>2
<1> HIDE DEF h
<1>5. page' = [page EXCEPT ![p] = r]
  <2>1. page' = [Hastily(p) EXCEPT ![p].due = TRUE]
    BY DEF Reload
  <2>2. QED BY <1>1, <1>2, <2>1
<1>6. r \in Pane /\ r.due = TRUE /\ r.mode = h.mode /\ r.formed = h.formed
  BY <1>2 DEF Pane
<1> HIDE DEF r
<1>7. /\ page' \in [Page -> Pane] /\ page'[p] = r
      /\ \A q \in Page : q # p => page'[q] = page[q]
  BY <1>1, <1>5, <1>6, PaneStep
<1>8. ClickInv' /\ Local(p) /\ \A j \in Click : pc'[j] = "save" <=> pc[j] = "save"
  BY <1>3, <1>4, NewClick
<1>9. EditOK(p)'
  BY <1>6, <1>7 DEF EditOK
<1>10. PaneOK(p)'
  BY <1>1, <1>2, <1>6, <1>7 DEF IInv, PaneInv, PaneOK
<1>11. PaneInv' /\ EditInv'
  BY <1>7, <1>8, <1>9, <1>10, PageStep
<1>12. TypeInv'
  BY <1>1, <1>3, <1>4, <1>7, TypeStep DEF TypeInv, TypeOK
<1>13. FileInv'
  BY <1>3, <1>8 DEF IInv, FileInv, Parsed
<1>14. QED BY <1>8, <1>11, <1>12, <1>13 DEF IInv

\* The only click under way on its page.
LEMMA OneClick ==
  ASSUME IInv, NEW k \in Click, pc[k] \in {"save", "form"}
  PROVE  /\ Applying(at[k])
         /\ \A j \in Click : at[j] = at[k] /\ pc[j] = "form" => j = k
BY DEF IInv, ClickInv, Busy, Applying

\* The daemon has saved: the page shows what was applied, in the text at once.
LEMMA SaveInv ==
  ASSUME IInv, NEW k \in Click, NEW p \in Page, at[k] = p, Save(k)
  PROVE  IInv'
<1> DEFINE o == page[p]
           b == o.formed /\ o.mode = "friendly"
           r == [o EXCEPT !.text = job[k], !.typed = job[k], !.formed = b]
<1>1. /\ TypeInv /\ page \in [Page -> Pane] /\ p \in Page /\ job[k] \in Content
      /\ pc[k] = "save" /\ job[k] \in Running /\ o \in Pane /\ config \in Content
      /\ config \in Running
  BY ParsedRuns DEF Save, IInv, TypeInv, TypeOK, JobsRun, Running
<1>2. /\ UNCHANGED <<address, acts, up, config>> /\ file' = config /\ stray' = FALSE
  BY DEF Save
<1>3. page' = [page EXCEPT ![p] = r]
  <2>1. page' = [page EXCEPT ![p].text = job[k], ![p].typed = job[k],
                             ![p].formed = (@ /\ page[p].mode = "friendly")]
    BY DEF Save, Answered
  <2>2. QED BY <1>1, <2>1
<1>4. b \in BOOLEAN
  OBVIOUS
<1> HIDE DEF b
<1>5. /\ r \in Pane /\ r.hasty = o.hasty /\ r.due = o.due /\ r.conv = o.conv
      /\ r.pend = o.pend /\ r.mode = o.mode /\ r.form = o.form
      /\ r.text = job[k] /\ r.typed = job[k] /\ r.formed = b
  BY <1>1, <1>4 DEF Pane
<1> HIDE DEF r
<1>6. /\ page' \in [Page -> Pane] /\ page'[p] = r
      /\ \A q \in Page : q # p => page'[q] = page[q]
  BY <1>1, <1>3, <1>5, PaneStep
<1>7. Applying(p) /\ \A j \in Click : at[j] = p => pc[j] # "form"
  BY <1>1, OneClick
<1>8. ASSUME ~o.hasty, ~o.due
      PROVE  o.conv = {} /\ o.pend = {}
  BY <1>1, <1>7, <1>8 DEF IInv, EditInv, EditOK, Showing, Converting, Fetching, Refreshing
<1>9. ASSUME ClickType', ClickInv', Local(p), EditOK(p)'
      PROVE  IInv'
  <2>1. PaneOK(p) /\ o.mode # "broken"
    BY <1>1, <1>7 DEF IInv, PaneInv, PaneOK
  <2>2. PaneOK(p)'
    BY <1>5, <1>6, <2>1 DEF b, PaneOK
  <2>3. PaneInv' /\ EditInv'
    BY <1>1, <1>6, <1>9, <2>2, PageStep
  <2>4. TypeInv'
    BY <1>1, <1>2, <1>6, <1>9, TypeStep DEF TypeInv, TypeOK
  <2>5. FileInv'
    <3>1. Parsed(config) = config
      BY <1>1, ParsedRuns
    <3>2. QED BY <1>2, <3>1 DEF FileInv, Parsed
  <2>6. QED BY <1>9, <2>3, <2>4, <2>5 DEF IInv
<1>10. CASE o.mode = "friendly"
  <2>1. pc' = [pc EXCEPT ![k] = "form"] /\ UNCHANGED <<at, job>>
    BY <1>10 DEF Save, Answered
  <2>2. /\ ClickType' /\ pc'[k] = "form" /\ at'[k] = p /\ job'[k] = job[k]
        /\ \A j \in Click : j # k => Kept(j)
    BY <1>1, <2>1, MoveStep
  <2>3. ClickInv' /\ Local(p)
    BY <1>1, <2>2 DEF IInv, ClickInv, Busy, Kept, Local
  <2>4. EditOK(p)'
    BY <1>5, <1>6, <1>8, <1>10, <2>2 DEF EditOK, Refreshing
  <2>5. QED BY <1>9, <2>2, <2>3, <2>4
<1>11. CASE o.mode # "friendly"
  <2>1. Over(k)
    BY <1>11 DEF Save, Answered
  <2>2. /\ ClickType' /\ pc'[k] = "over" /\ \A j \in Click : j # k => Kept(j)
    BY <1>1, <2>1, OverStep
  <2>3. ClickInv' /\ Local(p)
    BY <1>1, <2>2 DEF IInv, ClickInv, Busy, Kept, Local
  <2>4. o.mode = "raw" /\ b = FALSE
    BY <1>1, <1>7, <1>11 DEF b, Pane, IInv, PaneInv, PaneOK
  <2>5. Keeps(p)'
    BY <1>5, <1>6, <2>4 DEF Keeps, Given
  <2>6. \A j \in Click : at'[j] = p => pc'[j] # "form"
    BY <1>7, <2>2 DEF Kept
  <2>7. EditOK(p)'
    BY <1>5, <1>6, <1>8, <2>4, <2>5, <2>6 DEF EditOK, Showing
  <2>8. QED BY <1>9, <2>2, <2>3, <2>7
<1>12. QED BY <1>10, <1>11

\* The form that shows it arrives.
LEMMA ShowAppliedInv ==
  ASSUME IInv, NEW k \in Click, NEW p \in Page, at[k] = p, ShowApplied(k)
  PROVE  IInv'
<1> DEFINE o == page[p]
           f == IF Renders(job[k]) THEN Rendered(job[k]) ELSE o.form
           r == [o EXCEPT !.form = f]
<1>1. /\ TypeInv /\ page \in [Page -> Pane] /\ p \in Page /\ job[k] \in Content
      /\ pc[k] = "form" /\ job[k] \in Running /\ o \in Pane
  BY DEF ShowApplied, IInv, TypeInv, TypeOK, JobsRun
<1>2. /\ UNCHANGED <<address, acts, up, config, file, stray>> /\ Over(k)
      /\ page' = [page EXCEPT ![p] = r]
  <2>1. page' = [page EXCEPT ![p].form = IF Renders(job[k]) THEN Rendered(job[k]) ELSE @]
    BY DEF ShowApplied
  <2>2. QED BY <1>1, <2>1 DEF ShowApplied, daemon
<1>3. f \in Content /\ (Renders(job[k]) => f = Rendered(job[k]))
  BY <1>1, RenderedType DEF Pane
<1> HIDE DEF f
<1>4. /\ r \in Pane /\ r.hasty = o.hasty /\ r.due = o.due /\ r.conv = o.conv
      /\ r.pend = o.pend /\ r.mode = o.mode /\ r.form = f
      /\ r.text = o.text /\ r.typed = o.typed /\ r.formed = o.formed
  BY <1>1, <1>3 DEF Pane
<1> HIDE DEF r
<1>5. /\ page' \in [Page -> Pane] /\ page'[p] = r
      /\ \A q \in Page : q # p => page'[q] = page[q]
  BY <1>1, <1>2, <1>4, PaneStep
<1>6. Applying(p) /\ \A j \in Click : at[j] = p /\ pc[j] = "form" => j = k
  BY <1>1, OneClick
<1>7. /\ ClickType' /\ pc'[k] = "over" /\ \A j \in Click : j # k => Kept(j)
  BY <1>1, <1>2, OverStep
<1>8. ClickInv' /\ Local(p)
  BY <1>1, <1>7 DEF IInv, ClickInv, Busy, Kept, Local
<1>9. PaneOK(p) /\ o.mode # "broken"
  BY <1>1, <1>6 DEF IInv, PaneInv, PaneOK
<1>10. EditOK(p)'
  <2>1. SUFFICES ASSUME ~o.hasty, ~o.due
                 PROVE  Showing(p)'
    BY <1>4, <1>5, <2>1 DEF EditOK
  <2>2. Refreshing(p)
    <3>1. Showing(p) \/ Converting(p) \/ Fetching(p) \/ Refreshing(p)
      BY <1>1, <2>1 DEF IInv, EditInv, EditOK
    <3>2. ~Showing(p)
      BY <1>1 DEF Showing
    <3>3. QED BY <1>6, <3>1, <3>2 DEF Converting, Fetching
  <2>3. o.conv = {} /\ o.pend = {} /\ o.mode = "friendly" /\ o.typed = job[k]
    BY <1>6, <2>2 DEF Refreshing
  <2>4. Keeps(p)'
    <3>1. r.formed /\ r.mode = "friendly" /\ r.typed = job[k]
      BY <1>4, <1>9, <2>3 DEF PaneOK
    <3>2. Renders(job[k]) => Given(p)' = Passed(job[k])
      BY <1>3, <1>4, <1>5, <3>1 DEF Given, Passed
    <3>3. QED BY <1>5, <3>1, <3>2 DEF Keeps
  <2>5. \A j \in Click : at'[j] = p => pc'[j] # "form"
    BY <1>6, <1>7 DEF Kept
  <2>6. QED BY <1>4, <1>5, <2>3, <2>4, <2>5 DEF Showing
<1>11. PaneInv' /\ EditInv'
  <2>1. PaneOK(p)'
    BY <1>4, <1>5, <1>9 DEF PaneOK
  <2>2. QED BY <1>1, <1>5, <1>8, <1>10, <2>1, PageStep
<1>12. TypeInv'
  BY <1>1, <1>2, <1>5, <1>7, TypeStep DEF TypeInv, TypeOK
<1>13. FileInv'
  BY <1>1, <1>2, <1>7 DEF IInv, FileInv, Parsed, Kept
<1>14. QED BY <1>8, <1>11, <1>12, <1>13 DEF IInv

\* A page is loaded, reloads itself, or connects to another address: it shows
\* what the daemon runs, and forgets its click.
LEMMA LoadInv ==
  ASSUME IInv, NEW p \in Page,
         \/ Load(p) \/ LoadAmidst(p)
         \/ \E s \in Socket : Connect(p, s)
  PROVE  IInv'
<1>1. TypeInv /\ config \in Content /\ config \in Running
  BY ParsedRuns DEF IInv, TypeInv, TypeOK, Running
<1>2. UNCHANGED <<up, config, file>> /\ address' \in Socket /\ acts' \in 0 .. MaxActs
      /\ Leave(p)
  BY <1>1, ActsBound DEF Load, LoadAmidst, Loaded, Connect, May, daemon, TypeInv, TypeOK
<1>3. PICK r \in {Fresh(config), Down} : page' = [page EXCEPT ![p] = r]
  BY DEF Load, LoadAmidst, Loaded, Connect
<1>4. /\ r \in Pane /\ r.formed /\ r.conv = {} /\ r.pend = {}
      /\ Renders(r.typed) => r.mode = "friendly" /\ r.form = Rendered(r.typed)
  BY <1>1, <1>3, FreshPane, DownPane
<1>5. /\ page' \in [Page -> Pane] /\ page'[p] = r
      /\ \A q \in Page : q # p => page'[q] = page[q]
  BY <1>1, <1>3, <1>4, PaneStep
<1>6. /\ ClickType'
      /\ \A k \in Click :
           /\ at[k] # p => pc'[k] = pc[k]
           /\ pc'[k] # "over" => at'[k] = at[k] /\ job'[k] = job[k]
           /\ pc'[k] \in Busy => pc'[k] = pc[k] /\ at[k] # p
      /\ stray' = (stray \/ \E k \in Click : at[k] = p /\ pc[k] = "save")
  BY <1>1, <1>2, LeaveStep
<1>7. \A k \in Click : pc'[k] \in Busy => pc[k] \in Busy /\ at'[k] = at[k] /\ at[k] # p
  BY <1>6 DEF Busy
<1>8. ClickInv'
  BY <1>7 DEF IInv, ClickInv
<1>9. Local(p)
  BY <1>6, <1>7 DEF Local, Busy
<1>10. EditOK(p)'
  <2>1. Keeps(p)'
    BY <1>4, <1>5 DEF Keeps, Given, Passed
  <2>2. \A k \in Click : at'[k] = p => pc'[k] # "form"
    BY <1>7 DEF Busy
  <2>3. QED BY <1>4, <1>5, <2>1, <2>2 DEF EditOK, Showing
<1>11. PaneInv' /\ EditInv'
  <2>1. PaneOK(p)'
    BY <1>4, <1>5, <1>7 DEF PaneOK, Applying, Busy
  <2>2. QED BY <1>5, <1>9, <1>10, <2>1, PageStep
<1>12. stray' \in BOOLEAN
  BY <1>6
<1>13. TypeInv'
  BY <1>2, <1>5, <1>6, <1>12, <1>1, TypeStep DEF TypeInv, TypeOK
<1>14. FileInv'
  <2>1. SUFFICES ASSUME up, ~stray', \A k \in Click : pc'[k] # "save"
                 PROVE  Parsed(file) = config
    BY <1>2 DEF FileInv, Parsed
  <2>2. \A k \in Click : at[k] = p => pc[k] # "save"
    BY <1>6, <2>1
  <2>3. \A k \in Click : pc[k] # "save"
    BY <1>6, <2>1, <2>2
  <2>4. ~stray
    BY <1>6, <2>1
  <2>5. QED BY <2>1, <2>3, <2>4 DEF IInv, FileInv
<1>15. QED BY <1>8, <1>11, <1>13, <1>14 DEF IInv

-----------------------------------------------------------------------------
(* The invariant                                                           *)

\* Every page shows, and the file holds, the configuration of the start.
LEMMA InitInv == Init => IInv
<1> SUFFICES ASSUME Init PROVE IInv
  OBVIOUS
<1>1. /\ file = Initial /\ config = Initial /\ Initial \in Content /\ Initial \in Running
      /\ page = [p \in Page |-> Fresh(Initial)]
      /\ \A k \in Click : pc[k] = "new"
  BY Chosen DEF Init
<1>2. /\ Fresh(Initial) \in Pane
      /\ Renders(Initial) => Fresh(Initial).mode = "friendly"
      /\ Fresh(Initial).formed /\ Fresh(Initial).conv = {} /\ Fresh(Initial).pend = {}
      /\ Fresh(Initial).form = Rendered(Initial) /\ Fresh(Initial).typed = Initial
  BY <1>1, FreshPane
<1>3. ClickType
  BY <1>1, Chosen DEF Init, ClickType, JobsRun
<1>4. Initial.socket \in Socket
  BY <1>1 DEF Content
<1>5. TypeInv
  <2>1. page \in [Page -> Pane]
    BY <1>1, <1>2
  <2>2. acts \in 0 .. MaxActs
    BY BoundAssumption DEF Init
  <2>3. address \in Socket /\ up \in BOOLEAN /\ stray \in BOOLEAN
    BY <1>4 DEF Init
  <2>4. QED BY <1>1, <1>3, <2>1, <2>2, <2>3 DEF ClickType, TypeInv, TypeOK
<1>6. FileInv
  BY <1>1, ParsedRuns DEF FileInv
<1>7. ClickInv
  BY <1>1 DEF ClickInv, Busy
<1>8. PaneInv
  BY <1>1, <1>2 DEF PaneInv, PaneOK, Applying
<1>9. ASSUME NEW p \in Page
      PROVE  EditOK(p)
  <2>1. page[p] = Fresh(Initial)
    BY <1>1
  <2>2. Keeps(p)
    BY <1>2, <2>1 DEF Keeps, Given, Passed
  <2>3. QED BY <1>1, <1>2, <2>1, <2>2 DEF EditOK, Showing
<1>10. QED BY <1>5, <1>6, <1>7, <1>8, <1>9 DEF IInv, EditInv

\* Every step keeps the invariant.
LEMMA StepInv == IInv /\ [Next]_vars => IInv'
<1> SUFFICES ASSUME IInv, [Next]_vars PROVE IInv'
  OBVIOUS
<1>1. \A k \in Click : at[k] \in Page
  BY DEF IInv, TypeInv, TypeOK
<1>2. CASE \/ \E p \in Author, c \in Typed : Type(p, c)
           \/ \E p \in Author : Switch(p)
  BY <1>2, TypeTextInv, SwitchInv
<1>3. CASE \/ \E p \in Page : Converted(p) \/ Load(p) \/ LoadAmidst(p)
           \/ \E p \in Page, s \in Socket : Connect(p, s)
  BY <1>3, ConvertedInv, LoadInv
<1>4. CASE \E p \in Page, c \in Content : FormArrives(p, c)
  BY <1>4, FormArrivesInv
<1>5. CASE \E p \in Page, k \in Click : ApplyRefused(p, k) \/ Apply(p, k) \/ Reload(p, k)
  BY <1>5, ApplyInv, ReloadInv
<1>6. CASE \E k \in Click : ApplyDone(k) \/ ApplyRaises(k) \/ GiveUp(k) \/ SaveRefused(k)
  BY <1>6, ApplyDoneInv, NoSaveInv
<1>7. CASE \E k \in Click : Save(k) \/ ShowApplied(k)
  BY <1>1, <1>7, SaveInv, ShowAppliedInv
<1>8. CASE \/ \E k \in Click : SaveFails(k) \/ CrashSaving(k)
           \/ \E c \in Typed : HandEdit(c)
  BY <1>8, TornInv
<1>9. CASE Crash \/ Boot
  BY <1>9, CrashInv
<1>10. CASE UNCHANGED vars
  <2>1. UNCHANGED <<page, address, acts, pc, at, job, up, config, file, stray>>
    BY <1>10 DEF vars, clicks, daemon
  <2>2. \A k \in Click : Quiet(k)
    BY <2>1 DEF Quiet, Kept
  <2>3. ClickInv' /\ PaneInv' /\ EditInv'
    BY <2>1, <2>2, QuietStep
  <2>4. TypeInv' /\ FileInv'
    BY <2>1 DEF IInv, TypeInv, TypeOK, JobsRun, FileInv, Parsed
  <2>5. QED BY <2>3, <2>4 DEF IInv
<1>11. QED
  BY <1>2, <1>3, <1>4, <1>5, <1>6, <1>7, <1>8, <1>9, <1>10 DEF Next

\* The invariant, of every behaviour.
LEMMA Invariant == Spec => []IInv
<1>1. QED BY InitInv, StepInv, PTL DEF Spec

\* The variables keep their types; in particular the daemon only ever runs a
\* configuration that parses.
THEOREM TypesHold == Spec => []TypeOK
<1>1. IInv => TypeOK
  BY DEF IInv, TypeInv
<1>2. QED BY <1>1, Invariant, PTL

\* While no click is being served, the file holds what the daemon runs, for
\* any number of pages, clicks, edits, failures and restarts.
THEOREM FileAgrees == Spec => []Agree
<1>1. IInv => Agree
  <2> SUFFICES ASSUME IInv, up, ~stray,
                      \A k \in Click : pc[k] \in {"new", "form", "over"}
               PROVE  Parsed(file) = config
    BY DEF Agree
  <2>1. \A k \in Click : pc[k] # "save"
    OBVIOUS
  <2>2. QED BY <2>1 DEF IInv, FileInv
<1>2. QED BY <1>1, Invariant, PTL

\* A page would apply what its user typed, or what one pass through the form
\* makes of it, unless the user acted while one of its calls was under way or
\* the form cannot be rendered, for any number of pages and clicks.
THEOREM EditsShown == Spec => []EditsKept
<1>1. IInv => EditsKept
  <2> SUFFICES ASSUME IInv, NEW p \in Page, Calm(p), ~page[p].hasty,
                      Renders(page[p].typed)
               PROVE  Given(p) = IF page[p].formed THEN Collected(Rendered(page[p].typed))
                                 ELSE page[p].typed
    BY DEF EditsKept
  <2>1. Keeps(p)
    BY CalmShows DEF Showing
  <2>2. QED BY <2>1 DEF Keeps, Passed
<1>2. QED BY <1>1, Invariant, PTL
=============================================================================
