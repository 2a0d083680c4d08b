------------------------------- MODULE WebForms ------------------------------
(***************************************************************************)
(* The pages that are one form: sign in, the settings, and what creates    *)
(* something elsewhere.  A form may be filled by calls its page starts     *)
(* with, may ask about a value that is chosen, and is sent by one button.  *)
(* They share one machine; what differs is a row of the table FormRows.    *)
(***************************************************************************)
EXTENDS WebPage

NoInput      == 0
FormValues == 0..2        \* bound: what the form can hold
NoValue    == -1
FormBound  == 2           \* bound: forms ever stored

(***************************************************************************)
(* A row says:                                                             *)
(*   loads   the calls of the mount, and which of them fill the form       *)
(*   hides   whether the form is hidden until one of them is settled       *)
(*   gone    whether a failed load leaves no form                          *)
(*   first   what the form holds before                                    *)
(*   checks  whether a value is asked about: "none"; "select" the value is *)
(*           one of those loaded, and a warning disables the button;       *)
(*           "blur" the warning is shown only                              *)
(*   needs   whether a blank form is not sent                              *)
(*   busy    whether the button is disabled while the form is sent         *)
(*   mute    whether a rejected promise leaves the message of before       *)
(*   ends    what success leaves: the form "stays", is "cleared", or the   *)
(*           page is "left"                                                *)
(***************************************************************************)
Form ==
  [loads |-> <<>>, hides |-> FALSE, gone |-> FALSE, first |-> NoInput, checks |-> "none",
   needs |-> TRUE, busy |-> TRUE, mute |-> FALSE, ends |-> "left"]

Login          == Form
Register       == Form
ForgotPassword == Form
ResetPassword  == Form
CreateSpace    == Form

\* The e-mail is asked about when its field is left.
Appeal == [Form EXCEPT !.checks = "blur"]

\* The spaces of the user: the only one is chosen.  (Who the user is is asked
\* first; both calls are one here.)
NewPoll == [Form EXCEPT !.loads = <<TRUE>>, !.checks = "select", !.busy = FALSE]

ThreadPublish == [Form EXCEPT !.loads = <<TRUE>>, !.hides = TRUE, !.gone = TRUE]

\* One page, two forms, each sent without its button being disabled.
ProfileSettings  == [Form EXCEPT !.loads = <<TRUE>>, !.hides = TRUE, !.needs = FALSE, !.busy = FALSE,
                                 !.mute = TRUE, !.ends = "stays"]
PasswordSettings == [ProfileSettings EXCEPT !.loads = <<FALSE>>, !.needs = TRUE, !.ends = "cleared"]

\* One page, three forms.  Two effects fetch the same settings: either ends
\* the loading, both fill the limits, the second alone the relay.
AdminLimits == [Form EXCEPT !.loads = <<TRUE, TRUE>>, !.hides = TRUE, !.first = 1, !.ends = "stays"]
AdminRelay  == [AdminLimits EXCEPT !.loads = <<FALSE, TRUE>>, !.first = NoInput, !.needs = FALSE]
AdminCode   == [Form EXCEPT !.ends = "cleared"]

FormRows ==
  [login |-> Login, register |-> Register, forgotPassword |-> ForgotPassword,
   resetPassword |-> ResetPassword, createSpace |-> CreateSpace, appeal |-> Appeal,
   newPoll |-> NewPoll, publishThread |-> ThreadPublish, profileSettings |-> ProfileSettings,
   passwordSettings |-> PasswordSettings, adminLimits |-> AdminLimits,
   adminRelay |-> AdminRelay, adminCode |-> AdminCode]

FormPages == DOMAIN FormRows
FormRow   == FormRows[page]
------------------------------------------------------------------------------
\* typed, sent: history, the value typed last and the one sent last.  done:
\* the value the page says is stored.
FormsInit ==
  /\ page \in FormPages
  /\ ui = [loading |-> FormRow.loads # <<>>, field |-> FormRow.first, known |-> FALSE, warned |-> FALSE,
           busy |-> FALSE, left |-> FALSE, done |-> NoValue, typed |-> NoValue, sent |-> NoValue]
  /\ net = [k \in DOMAIN FormRow.loads |-> Fetch("fill", FormRow.loads[k])]
  \* held: what is stored; ever, stored: all that was, and how often; open:
  \* the values without a warning.
  /\ srv \in [held : IF page = "adminLimits" THEN FormValues \ {NoInput} ELSE FormValues,
              ever : {{}}, stored : {0},
              open : IF FormRow.checks = "none" THEN {{}} ELSE {{}, {1}, {1, 2}}]
  /\ mishap = FALSE

FormShown == page \in FormPages /\ ~ui.left /\ (FormRow.hides => ~ui.loading)

Filling == \E i \in DOMAIN net : net[i].op = "fill"
Sending == \E i \in DOMAIN net : net[i].op = "store"

Check(v) == IF FormRow.checks = "none" \/ v = NoInput THEN <<>> ELSE <<Request("check", v)>>

\* A field is filled, or an option chosen, and left.  (mishap: the value will
\* be overwritten by a load, or cleared by the answer to what was sent.)
TypeField(v) ==
  /\ FormShown /\ v # ui.field
  /\ FormRow.checks = "select" => ui.known
  /\ Len(net) + Len(Check(v)) <= MaxInFlight
  /\ ui' = [ui EXCEPT !.field = v, !.typed = v, !.warned = @ /\ (FormRow.checks = "select" => v # NoInput)]
  /\ net' = net \o Check(v)
  /\ mishap' = (mishap \/ Filling \/ (Sending /\ FormRow.ends = "cleared"))
  /\ UNCHANGED <<page, srv>>

FillServed(i) ==
  /\ page \in FormPages /\ Asked(i, {"fill"})
  /\ \E v \in IF FormRow.checks = "select" THEN FormValues ELSE {srv.held} : Reply(i, v, srv)

\* A choice made by the load is asked about like one of the user.
FillDone(i) ==
  /\ page \in FormPages /\ Answered(i, {"fill"})
  /\ LET fills == IsOk(i) /\ net[i].arg
         s == [ui EXCEPT !.loading = FALSE, !.known = @ \/ IsOk(i), !.field = IF fills THEN Data(i) ELSE @,
                         !.left = @ \/ (FormRow.gone /\ ~IsOk(i))]
     IN Settle(i, s, IF fills THEN Check(Data(i)) ELSE <<>>)

CheckServed(i) ==
  /\ page \in FormPages /\ Asked(i, {"check"})
  /\ Reply(i, net[i].arg \notin srv.open, srv)

CheckDone(i) ==
  /\ page \in FormPages /\ Answered(i, {"check"})
  /\ Settle(i, IF IsOk(i) THEN [ui EXCEPT !.warned = Data(i)] ELSE ui, <<>>)

\* (mishap: what is sent was not loaded yet.)
SendForm ==
  /\ FormShown /\ ~ui.busy /\ srv.stored < FormBound
  /\ FormRow.needs => ui.field # NoInput
  /\ FormRow.checks = "select" => ~ui.warned
  /\ Len(net) < MaxInFlight
  /\ ui' = [ui EXCEPT !.busy = FormRow.busy, !.sent = ui.field, !.done = IF FormRow.mute THEN @ ELSE NoValue]
  /\ net' = Append(net, Fetch("store", ui.field))
  /\ mishap' = (mishap \/ Filling)
  /\ UNCHANGED <<page, srv>>

\* A blank relay is not in the body that is sent.
LeftOut(v) == page = "adminRelay" /\ v = NoInput

FormStored(i) ==
  /\ page \in FormPages /\ Asked(i, {"store"})
  /\ LET v == net[i].arg IN
       Reply(i, TRUE, [srv EXCEPT !.held = IF LeftOut(v) THEN @ ELSE v, !.ever = @ \cup {v}, !.stored = @ + 1])

Stored(s, v) ==
  LET d == [s EXCEPT !.busy = FALSE, !.done = v] IN
  CASE FormRow.ends = "left"    -> [d EXCEPT !.left = TRUE]
    [] FormRow.ends = "cleared" -> [d EXCEPT !.field = NoInput, !.typed = NoValue]
    [] FormRow.ends = "stays"   -> d

\* Mutant: any answer is taken for success.
Bug_AnyAnswer(i) ==
  /\ page \in FormPages /\ Answered(i, {"store"})
  /\ Settle(i, IF net[i].ans # Failed THEN Stored(ui, net[i].arg)
               ELSE [ui EXCEPT !.busy = FALSE, !.done = IF FormRow.mute THEN @ ELSE NoValue], <<>>)

FormDone(i) ==
  /\ page \in FormPages /\ Answered(i, {"store"})
  /\ Settle(i, IF IsOk(i) THEN Stored(ui, net[i].arg)
               ELSE [ui EXCEPT !.busy = FALSE,
                               !.done = IF FormRow.mute /\ net[i].ans = Failed THEN @ ELSE NoValue], <<>>)

FormsUser == SendForm \/ \E v \in FormValues : TypeField(v)

FormsService(i) == FillServed(i) \/ CheckServed(i) \/ FormStored(i)

FormsThen(i) == FillDone(i) \/ CheckDone(i) \/ FormDone(i)
------------------------------------------------------------------------------
\* What a page says is stored was stored, whatever was lost or overtaken.
\* Without such a mishap the last form sent is the one the service holds and
\* the page says so, one whose button is disabled meanwhile is stored once,
\* the form holds what was typed last or else what is stored, and the warning
\* is about the value in the form and not about one chosen before.
FormIsSaved ==
  page \in FormPages =>
    /\ ui.done # NoValue => ui.done \in srv.ever
    /\ ~mishap /\ FormRow.busy /\ FormRow.ends = "left" => srv.stored <= 1
    /\ Quiet /\ ~mishap =>
         /\ ui.sent # NoValue => ui.done = ui.sent /\ (srv.held = ui.sent \/ LeftOut(ui.sent))
         /\ ~ui.left /\ ui.typed # NoValue => ui.field = ui.typed
         /\ ~ui.left /\ ui.typed = NoValue /\ FormRow.checks = "none" /\ TRUE \in Range(FormRow.loads)
              => ui.field = srv.held
         /\ FormRow.checks # "none" /\ ui.field # NoInput => ui.warned = (ui.field \notin srv.open)
==============================================================================
