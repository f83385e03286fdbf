---------------------------- MODULE ConfigEditor ----------------------------
(***************************************************************************)
(* Editing the configuration: the pages of syncui (static/app.js), each    *)
(* with a form and a TOML text of which one is shown, the web server       *)
(* between them and the daemon (syncui/routes.py, tomlio.py), the daemon's *)
(* configuration in memory and its file (api/routes.py, daemon.py,         *)
(* config.py).                                                             *)
(*                                                                         *)
(* A configuration is its content, the API's address, and what becomes of  *)
(* it in a form, in a parser and in the daemon.                            *)
(***************************************************************************)
EXTENDS Naturals

CONSTANTS
    Page, Body, Socket,
    Author,             \* bound: the pages where texts are typed and panes switched
    Initial,            \* the configuration at the start
    Typed,              \* bound: what is typed, by users and into the file
    MaxClicks,          \* bound: on Apply and Reload from disk
    MaxActs,            \* bound: texts typed, panes switched, and what Env allows
    Env                 \* what may happen, see EnvKinds

NoPairs == 0

Sort ==
    {"plain",           \* the form says all of it
     "hidden",          \* it has static peers, or settings outside SCHEMAS
     "fraction",        \* a number intVal cuts off or drops: verify_sleep = 0.5
     "unset",           \* no log_level
     "first",           \* plain, its log_level the first option: debug
     "custom",          \* a pair's mode has no schema: the template fails
     "bare",            \* no [daemon] or [pairs.provider] table: it fails too
     "odd",             \* refused, for a value that a form would mend
     "bad",             \* refused, as text and as form
     "junk"}            \* no TOML

Content == [body : Body, sort : Sort, socket : Socket]

EnvKinds ==
    {"hand",            \* the file is edited
     "disk",            \* a save fails halfway
     "crash",           \* the daemon ends at any point, and is started again
     "slow",            \* a request to the daemon exceeds the client's timeout
     "raise",           \* a provider rejects its settings: start_all raises
     "leave",           \* a page is closed or reloaded during a click
     "connect"}         \* another address is entered

Running ==
    {c \in Content : c.sort \in {"plain", "hidden", "fraction", "first", "custom"}}

ASSUME ContentAssumption ==
    /\ NoPairs \in Body /\ Initial \in Running /\ Typed \subseteq Content
    /\ Page # {} /\ Author \subseteq Page
ASSUME BoundAssumption == MaxClicks \in Nat /\ MaxActs \in Nat /\ Env \subseteq EnvKinds

Click == 1 .. MaxClicks
Default == CHOOSE s \in Socket : TRUE
SomePage == CHOOSE p \in Page : TRUE

VARIABLES
    page,               \* the panes of each page, and what was last typed in it
    address,            \* session["daemon_socket"]
    acts,
    pc, at, job,        \* of each click: where it is, its page, its configuration
    up, config, file,   \* the daemon runs; _config; the file at _config_path
    stray               \* the file was left behind: see Agree

clicks == <<pc, at, job>>
daemon == <<up, config, file>>
vars == <<page, address, acts, clicks, daemon, stray>>

Pane ==
    [mode : {"friendly", "raw", "broken"}, form : Content, text : Content,
     conv : SUBSET Content,     \* /api/convert is called, to switch panes
     pend : SUBSET Content,     \* /fragment/form is called
     due : BOOLEAN,             \* the page is about to reload itself
     typed : Content, formed : BOOLEAN, hasty : BOOLEAN]

TypeOK ==
    /\ page \in [Page -> Pane] /\ address \in Socket /\ acts \in 0 .. MaxActs
    /\ pc \in [Click -> {"new", "apply", "save", "form", "late", "over"}]
    /\ at \in [Click -> Page] /\ job \in [Click -> Content]
    /\ up \in BOOLEAN /\ config \in Running /\ file \in Content
    /\ stray \in BOOLEAN

-----------------------------------------------------------------------------
(* Conversions                                                             *)

Whole(b, s, a) == [body |-> b, sort |-> s, socket |-> a]

\* A variant: no defaults.
ParsedAsIs(c) == c

\* What parse_config_from_dict makes of it: what is missing gets its default.
Parsed(c) == IF c.sort \in {"bare", "unset"} THEN [c EXCEPT !.sort = "plain"] ELSE c

Renders(c) == c.sort \notin {"custom", "bare", "junk"}

\* What the form shows of it: a select without a value shows its first option.
Rendered(c) ==
    CASE c.sort = "hidden" -> [c EXCEPT !.sort = "plain"]
      [] c.sort \in {"unset", "odd"} -> [c EXCEPT !.sort = "first"]
      [] OTHER -> c

\* What is collected from a form: numbers go through parseInt, and zero is null.
Collected(c) == IF c.sort = "fraction" THEN [c EXCEPT !.sort = "plain"] ELSE c

Parses(c) == c.sort \notin {"odd", "bad", "junk"}

\* The page, when the daemon cannot be reached: an empty pane gives the
\* log_level "".
EmptyForm == Whole(NoPairs, "odd", Default)
EmptyText == Whole(NoPairs, "bare", Default)

Act == acts < MaxActs /\ acts' = acts + 1

May(kind) == kind \in Env /\ Act

Reached == up /\ address = config.socket

\* The page with c: when the template fails there is none.
Fresh(c) ==
    [mode |-> IF Renders(c) THEN "friendly" ELSE "broken", form |-> Rendered(c),
     text |-> c, conv |-> {}, pend |-> {}, due |-> FALSE, typed |-> c, formed |-> TRUE, hasty |-> FALSE]

Down ==
    [Fresh(EmptyForm) EXCEPT !.form = EmptyForm, !.text = EmptyText, !.typed = EmptyText]

\* What the pane shown gives, to Apply and to the other pane.
Given(p) == IF page[p].mode = "raw" THEN page[p].text ELSE Collected(page[p].form)

Works(p) == page[p].mode # "broken"

\* The Apply button is disabled.
Applying(p) == \E k \in Click : at[k] = p /\ pc[k] \in {"apply", "save", "form"}

Calm(p) == ~Applying(p) /\ page[p].conv = {} /\ page[p].pend = {} /\ ~page[p].due

-----------------------------------------------------------------------------
Init ==
    /\ file = Initial /\ config = Initial /\ up = TRUE
    /\ address = Initial.socket
    /\ page = [p \in Page |-> Fresh(config)]
    /\ acts = 0
    /\ pc = [k \in Click |-> "new"]
    /\ at = [k \in Click |-> SomePage]
    /\ job = [k \in Click |-> EmptyForm]
    /\ stray = FALSE

-----------------------------------------------------------------------------
(* The panes of a page                                                     *)

\* What the user does while a call of the page is under way may be undone.
Hastily(p) == [page EXCEPT ![p].hasty = @ \/ ~Calm(p)]

Type(p, c) ==
    /\ Act
    /\ \/ /\ page[p].mode = "raw"
          /\ page' = [Hastily(p) EXCEPT ![p].text = c, ![p].typed = c, ![p].formed = FALSE]
       \/ /\ page[p].mode = "friendly" /\ page[p].form # EmptyForm /\ Renders(c)
          /\ LET f == [Rendered(c) EXCEPT !.socket = page[p].form.socket]
             IN  page' = [Hastily(p) EXCEPT ![p].form = f, ![p].typed = f,
                                            ![p].formed = TRUE]
    /\ UNCHANGED <<address, clicks, daemon, stray>>

\* switchMode, until /api/convert answers.
Switch(p) ==
    /\ Act
    /\ Works(p) /\ page[p].conv = {} /\ Given(p).sort # "junk"
    /\ page' = [Hastily(p) EXCEPT ![p].conv = {Given(p)}]
    /\ UNCHANGED <<address, clicks, daemon, stray>>

\* A variant: the form is not fetched.
ConvertedOnly(p) ==
    /\ \E c \in page[p].conv :
         IF page[p].mode = "friendly"
           THEN page' = [page EXCEPT ![p].text = c, ![p].mode = "raw",
                                     ![p].conv = {}, ![p].formed = TRUE]
           ELSE page' = [page EXCEPT ![p].mode = "friendly", ![p].conv = {},
                                     ![p].formed = TRUE]
    /\ UNCHANGED <<address, acts, clicks, daemon, stray>>

\* The rest: the other pane is shown; a form is fetched for it, and not
\* awaited.
Converted(p) ==
    /\ \E c \in page[p].conv :
         IF page[p].mode = "friendly"
           THEN page' = [page EXCEPT ![p].text = c, ![p].mode = "raw",
                                     ![p].conv = {}, ![p].formed = TRUE]
           ELSE page' = [page EXCEPT ![p].mode = "friendly", ![p].conv = {},
                                     ![p].pend = @ \cup {c}, ![p].formed = TRUE]
    /\ UNCHANGED <<address, acts, clicks, daemon, stray>>

\* /fragment/form answers, unless the template fails.
FormArrives(p, c) ==
    /\ c \in page[p].pend
    /\ LET pane == [page[p] EXCEPT !.pend = @ \ {c}]
       IN  page' = [page EXCEPT ![p] =
                     IF Renders(c) THEN [pane EXCEPT !.form = Rendered(c)] ELSE pane]
    /\ UNCHANGED <<address, acts, clicks, daemon, stray>>

-----------------------------------------------------------------------------
(* Clicks on Apply                                                         *)

IsNext(k) == pc[k] = "new" /\ \A j \in Click : j < k => pc[j] # "new"

Over(k) ==
    /\ pc' = [pc EXCEPT ![k] = "over"]
    /\ job' = [job EXCEPT ![k] = EmptyForm]
    /\ at' = [at EXCEPT ![k] = SomePage]

End(ended) ==
    /\ pc' = [k \in Click |-> IF k \in ended THEN "over" ELSE pc[k]]
    /\ job' = [k \in Click |-> IF k \in ended THEN EmptyForm ELSE job[k]]
    /\ at' = [k \in Click |-> IF k \in ended THEN SomePage ELSE at[k]]

Served == {k \in Click : pc[k] \in {"apply", "late"}}

\* Refused by the web server, which cannot parse or connect, or by the daemon.
ApplyRefused(p, k) ==
    /\ IsNext(k) /\ Works(p) /\ ~Applying(p)
    /\ ~Parses(Given(p)) \/ ~Reached
    /\ Over(k)
    /\ page' = Hastily(p)
    /\ UNCHANGED <<address, acts, daemon, stray>>

Apply(p, k) ==
    /\ IsNext(k) /\ Works(p) /\ ~Applying(p)
    /\ Parses(Given(p)) /\ Reached
    /\ pc' = [pc EXCEPT ![k] = "apply"]
    /\ at' = [at EXCEPT ![k] = p]
    /\ job' = [job EXCEPT ![k] = Parsed(Given(p))]
    /\ page' = Hastily(p)
    /\ UNCHANGED <<address, acts, daemon, stray>>

\* apply_config: the running address is preserved.
Installed(k) == [job[k] EXCEPT !.socket = config.socket]

\* The providers are replaced (module Daemon): the configuration is set, and
\* is the answer, unless the web server has given up waiting for it.
ApplyDone(k) ==
    /\ pc[k] \in {"apply", "late"} /\ up
    /\ config' = Installed(k)
    /\ IF pc[k] = "apply"
         THEN /\ pc' = [pc EXCEPT ![k] = "save"]
              /\ job' = [job EXCEPT ![k] = config']
              /\ UNCHANGED <<at, stray>>
         ELSE Over(k) /\ stray' = (Parsed(file) # config')
    /\ UNCHANGED <<page, address, acts, up, file>>

ApplyRaises(k) ==
    /\ May("raise") /\ pc[k] \in {"apply", "late"} /\ up
    /\ Over(k)
    /\ UNCHANGED <<page, address, daemon, stray>>

\* httpx raises a ReadTimeout: the page shows an error and does not save.
GiveUp(k) ==
    /\ May("slow") /\ pc[k] = "apply" /\ up
    /\ pc' = [pc EXCEPT ![k] = "late"]
    /\ UNCHANGED <<page, address, at, job, daemon, stray>>

\* What the page does with the answer, both requests having succeeded.
Answered(k) ==
    LET p == at[k]
    IN  /\ page' = [page EXCEPT ![p].text = job[k], ![p].typed = job[k],
                                ![p].formed = (@ /\ page[p].mode = "friendly")]
        /\ IF page[p].mode = "friendly"
             THEN pc' = [pc EXCEPT ![k] = "form"] /\ UNCHANGED <<at, job>>
             ELSE Over(k)

\* A variant: the configuration of the request is saved.
SaveOwn(k) ==
    /\ pc[k] = "save" /\ Reached
    /\ file' = job[k] /\ stray' = FALSE
    /\ Answered(k)
    /\ UNCHANGED <<address, acts, up, config>>

\* save_config writes what is then the daemon's configuration.
Save(k) ==
    /\ pc[k] = "save" /\ Reached
    /\ file' = config /\ stray' = FALSE
    /\ Answered(k)
    /\ UNCHANGED <<address, acts, up, config>>

\* The file is truncated and written in place: a failure, or the end of the
\* daemon, leaves a part of it, which may be none.
Torn ==
    /\ \E s \in {"bare", "junk"} : file' = Whole(NoPairs, s, Default)
    /\ stray' = TRUE

SaveFails(k) ==
    /\ May("disk") /\ pc[k] = "save" /\ Reached
    /\ Torn
    /\ Over(k)
    /\ UNCHANGED <<page, address, up, config>>

CrashSaving(k) ==
    /\ May("crash") /\ pc[k] = "save" /\ Reached
    /\ Torn
    /\ up' = FALSE /\ End(Served \cup {k})
    /\ UNCHANGED <<page, address, config>>

SaveRefused(k) ==
    /\ pc[k] = "save" /\ ~Reached
    /\ Over(k) /\ stray' = TRUE
    /\ UNCHANGED <<page, address, acts, daemon>>

\* reloadForm, awaited this time.
ShowApplied(k) ==
    /\ pc[k] = "form"
    /\ page' = [page EXCEPT ![at[k]].form = IF Renders(job[k]) THEN Rendered(job[k]) ELSE @]
    /\ Over(k)
    /\ UNCHANGED <<address, acts, daemon, stray>>

-----------------------------------------------------------------------------
(* Reload from disk, and the pages' own reloads                            *)

\* The answer does not wait for _reload_config: a file that does not parse
\* is only logged.
Reload(p, k) ==
    /\ IsNext(k) /\ Works(p) /\ ~page[p].due /\ Reached
    /\ page' = [Hastily(p) EXCEPT ![p].due = TRUE]
    /\ IF Parses(file)
         THEN /\ pc' = [pc EXCEPT ![k] = "late"]
              /\ job' = [job EXCEPT ![k] = Parsed(file)]
              /\ UNCHANGED at
         ELSE Over(k)
    /\ UNCHANGED <<address, acts, daemon, stray>>

\* The page's click, if any, is forgotten by the page only.
Leave(p) ==
    /\ pc' = [k \in Click |->
                IF at[k] # p THEN pc[k]
                ELSE CASE pc[k] = "apply" -> "late"
                       [] pc[k] \in {"save", "form"} -> "over"
                       [] OTHER -> pc[k]]
    /\ job' = [k \in Click |-> IF pc'[k] = "over" THEN EmptyForm ELSE job[k]]
    /\ at' = [k \in Click |-> IF pc'[k] = "over" THEN SomePage ELSE at[k]]
    /\ stray' = (stray \/ \E k \in Click : at[k] = p /\ pc[k] = "save")

\* A variant: the page reloads itself again and again.
LoadedAgain(p) ==
    /\ LET fresh == IF Reached THEN Fresh(config) ELSE Down
       IN  page' = [page EXCEPT ![p] = [fresh EXCEPT !.due = page[p].due]]
    /\ Leave(p)
    /\ UNCHANGED <<address, daemon>>

Loaded(p) ==
    /\ page' = [page EXCEPT ![p] = IF Reached THEN Fresh(config) ELSE Down]
    /\ Leave(p)
    /\ UNCHANGED <<address, daemon>>

Load(p) == (page[p].due \/ Calm(p)) /\ Loaded(p) /\ UNCHANGED acts

LoadAmidst(p) == May("leave") /\ ~Calm(p) /\ Loaded(p)

\* connect(), and index, to which it redirects.
Connect(p, s) ==
    /\ May("connect") /\ s # address
    /\ Calm(p)
    /\ address' = s
    /\ page' = [page EXCEPT ![p] = IF up /\ s = config.socket THEN Fresh(config) ELSE Down]
    /\ Leave(p)
    /\ UNCHANGED daemon

-----------------------------------------------------------------------------
(* The daemon and its file                                                 *)

HandEdit(c) ==
    /\ May("hand")
    /\ file' = c /\ stray' = TRUE
    /\ UNCHANGED <<page, address, clicks, up, config>>

\* The pages get errors; what was not saved is gone.
Crash ==
    /\ May("crash") /\ up
    /\ up' = FALSE /\ End(Served)
    /\ UNCHANGED <<page, address, config, file, stray>>

\* main: a file that does not parse ends the daemon at once.
Boot ==
    /\ ~up /\ Parses(file)
    /\ up' = TRUE /\ config' = Parsed(file)
    /\ stray' = FALSE
    /\ UNCHANGED <<page, address, acts, clicks, file>>

Next ==
    \/ \E p \in Author, c \in Typed : Type(p, c)
    \/ \E p \in Author : Switch(p)
    \/ \E p \in Page : Converted(p) \/ Load(p) \/ LoadAmidst(p)
    \/ \E p \in Page, c \in Content : FormArrives(p, c)
    \/ \E p \in Page, k \in Click : ApplyRefused(p, k) \/ Apply(p, k) \/ Reload(p, k)
    \/ \E k \in Click :
         \/ ApplyDone(k) \/ ApplyRaises(k) \/ GiveUp(k)
         \/ Save(k) \/ SaveFails(k) \/ CrashSaving(k) \/ SaveRefused(k) \/ ShowApplied(k)
    \/ \E p \in Page, s \in Socket : Connect(p, s)
    \/ \E c \in Typed : HandEdit(c)
    \/ Crash \/ Boot

\* The browser and the web server go on; the daemon answers, or the client's
\* timeout ends the wait.
Fairness ==
    /\ \A p \in Page : WF_vars(Converted(p)) /\ WF_vars(page[p].due /\ Load(p))
    /\ \A p \in Page, c \in Content : WF_vars(FormArrives(p, c))
    /\ \A k \in Click :
         /\ WF_vars(ApplyDone(k) \/ GiveUp(k))
         /\ WF_vars(Save(k) \/ SaveRefused(k))
         /\ WF_vars(ShowApplied(k))

Spec == Init /\ [][Next]_vars
FairSpec == Spec /\ Fairness

-----------------------------------------------------------------------------
(* Properties                                                              *)

\* While no click is being served, the file holds the configuration the
\* daemon runs, whatever applies, saves and reloads of several pages crossed:
\* what Apply announced as saved is what a restart brings back.  It is left
\* behind only by an edit, by a save that failed or was not asked for, and by
\* a reload, or an apply given up, that ended after the last save.  (Apply and
\* save of applyConfig, apply_config, save_config, _reload_config.)
Agree ==
    up /\ ~stray /\ (\A k \in Click : pc[k] \in {"new", "form", "over"})
    => Parsed(file) = config

\* What a user typed is what the page would apply, through switches between
\* the panes and applies of other pages, unless the user acted on the page
\* while one of its calls was under way, or the form cannot be rendered.  It is
\* kept to the letter as long as it has not gone through the form, and after
\* that it is what one pass through the form makes of it, however many there
\* were.  (switchMode, reloadForm, collectFriendly, applyConfig.)
EditsKept ==
    \A p \in Page :
        LET t == page[p].typed
        IN  Calm(p) /\ ~page[p].hasty /\ Renders(t)
            => Given(p) = IF page[p].formed THEN Collected(Rendered(t)) ELSE t

\* A click on Apply, a switch or a reload leaves the page idle again.
PageSettles == \A p \in Page : ~Calm(p) ~> Calm(p)
=============================================================================
