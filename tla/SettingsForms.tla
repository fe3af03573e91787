--------------------------- MODULE SettingsForms ---------------------------
(***************************************************************************)
(* The forms of the administration pages that keep a secret on the service *)
(* without ever showing it (features/admin): the settings, the Git mirror, *)
(* SMTP, Windows and Entra sign-in, and the sheet and the switch of a      *)
(* notification channel.  All of a form's plain fields are one value.      *)
(***************************************************************************)
EXTENDS Naturals

CONSTANTS Cards,     \* the forms a behaviour may be about
          Types,     \* of channels
          MaxValue,  \* bound: values of the plain fields
          MaxSecret, \* bound: secrets
          MaxSaves   \* bound: saves of the user and of others

ASSUME SettingsFormsAssumption ==
    /\ Cards \subseteq {"settings", "windows", "entra", "smtp", "git", "channel"}
    /\ {"Email", "Teams"} \subseteq Types
    /\ {MaxValue, MaxSecret} \subseteq Nat \ {0} /\ MaxSaves \in Nat

VARIABLES card,    \* the form that is open
          stored,  \* the service: fields, type and secret
          seen,    \* the answer of the query
          inputs,  \* the state of the form
          opened,  \* the channel its sheet was opened with
          sending, \* the save on its way
          saves    \* history: number of saves

formVars == <<card, stored, seen, inputs, opened, sending, saves>>

\* Recipients are shown, the address of a hook and a client secret are not.
NoSecret == [of |-> "none", n |-> 0]
Secret == [of : Types, n : 1..MaxSecret] \cup {NoSecret}

NotSeen == [v |-> 0, type |-> "none", has |-> FALSE, mail |-> 0]
NoInputs == [v |-> 0, type |-> "none", typed |-> 0, act |-> "none"]
NotSending == [how |-> "none"]
KeepIt == 0
RemoveIt == MaxSecret + 1

\* What an answer tells of the document: that there is a secret, not which.
Visible(doc) ==
    [v |-> doc.v, type |-> doc.type, has |-> doc.secret # NoSecret,
     mail |-> IF doc.type = "Email" THEN doc.secret.n ELSE 0]

FormsType ==
    /\ card \in Cards
    /\ stored \in [v : 1..MaxValue, type : Types, secret : Secret]
    /\ inputs = NoInputs \/ inputs \in [v : 1..MaxValue, type : Types, typed : 0..MaxSecret,
                                        act : {"keep", "set", "clear"}]
    /\ saves \in 0..MaxSaves

\* The form of an answer never holds a secret.
ToForm(answer) ==
    [v |-> answer.v, type |-> answer.type, act |-> "keep",
     typed |-> IF answer.type = "Email" /\ card = "channel" THEN answer.mail ELSE 0]

FormsInit ==
    /\ card \in Cards
    /\ stored \in [v : {1}, type : IF card = "channel" THEN Types ELSE {"Teams"}, secret : Secret]
    /\ stored.secret.of \in {stored.type, "none"} /\ stored.secret.n \in 0..1
    /\ CASE card = "channel" -> stored.secret # NoSecret
         [] card \in {"settings", "windows"} -> stored.secret = NoSecret
         [] OTHER -> TRUE
    /\ seen = NotSeen /\ inputs = NoInputs /\ opened = NotSeen
    /\ sending = NotSending /\ saves = 0

-----------------------------------------------------------------------------
\* The service.

OthersSave(doc) ==
    /\ saves < MaxSaves /\ saves' = saves + 1 /\ doc # stored /\ stored' = doc
    /\ UNCHANGED <<card, seen, inputs, opened, sending>>

OtherDocs ==
    {[stored EXCEPT !.v = IF @ < MaxValue THEN @ + 1 ELSE 1]}
      \cup IF card # "channel" THEN {[stored EXCEPT !.secret = NoSecret]}
           ELSE {[stored EXCEPT !.type = t, !.secret = [of |-> t, n |-> MaxSecret]] : t \in Types}

\* mutant: a request without a secret keeps the stored one
AcceptsAnySave(body) == TRUE

\* A channel of another type needs a secret of its own.
AcceptsSave(body) ==
    card = "channel" => (body.type # stored.type => body.secret # KeepIt)

Received(body) ==
    [v |-> body.v, type |-> body.type,
     secret |-> CASE body.secret = KeepIt -> stored.secret
                  [] body.secret = RemoveIt -> NoSecret
                  [] OTHER -> [of |-> body.type, n |-> body.secret]]

-----------------------------------------------------------------------------
\* The query is answered, and the effects that follow a changed answer.

FollowsTheQuery == card \in {"settings", "windows", "entra", "smtp"}

Seen(answer) ==
    /\ seen' = answer
    /\ IF card = "channel" \/ (answer = seen /\ inputs # NoInputs) THEN UNCHANGED inputs
       ELSE IF FollowsTheQuery \/ inputs = NoInputs THEN inputs' = ToForm(answer)
       ELSE UNCHANGED inputs

QueryArrives ==
    /\ Visible(stored) # seen
    /\ Seen(Visible(stored))
    /\ UNCHANGED <<card, stored, opened, sending, saves>>

-----------------------------------------------------------------------------
\* The form.

FormShown == inputs # NoInputs

SetField(v) ==
    /\ FormShown /\ v # inputs.v /\ inputs' = [inputs EXCEPT !.v = v]
    /\ UNCHANGED <<card, stored, seen, opened, sending, saves>>

\* The field of the secret.  SMTP hides it while the secret is to be removed.
TypeSecret(n) ==
    /\ FormShown /\ card \in {"entra", "smtp", "git", "channel"} /\ n # inputs.typed
    /\ (card = "smtp" => inputs.act # "clear")
    /\ inputs' = [inputs EXCEPT !.typed = n,
                    !.act = IF card = "smtp" /\ n # 0 THEN "set" ELSE "keep"]
    /\ UNCHANGED <<card, stored, seen, opened, sending, saves>>

ClearToggled(f) == [f EXCEPT !.act = IF @ = "clear" THEN "keep" ELSE "clear", !.typed = 0]

ClearSecret ==
    /\ FormShown /\ card \in {"smtp", "git"} /\ (seen.has \/ inputs.act = "clear")
    /\ inputs' = ClearToggled(inputs)
    /\ UNCHANGED <<card, stored, seen, opened, sending, saves>>

\* Another type empties the field, unless it is the recipients it began with.
SetType(t) ==
    /\ card = "channel" /\ FormShown /\ t # inputs.type
    /\ inputs' = [inputs EXCEPT !.type = t,
                    !.typed = IF t = "Email" /\ opened.type = "Email" THEN opened.mail ELSE 0]
    /\ UNCHANGED <<card, stored, seen, opened, sending, saves>>

Reset ==
    /\ FormShown /\ card # "channel" /\ inputs # ToForm(seen) /\ inputs' = ToForm(seen)
    /\ UNCHANGED <<card, stored, seen, opened, sending, saves>>

\* What the form says will become of the secret.
ShownSecret == IF inputs.act = "clear" THEN RemoveIt ELSE inputs.typed

Dirty == inputs # ToForm(seen)

\* A channel needs its recipients, and a secret when it is given another type.
SecretMissing ==
    card = "channel" /\ inputs.typed = 0 /\ (inputs.type = "Email" \/ inputs.type # opened.type)

\* mutant: what the field holds is sent, empty or not
SentAsTyped == IF inputs.typed = 0 THEN RemoveIt ELSE inputs.typed

SentSecret ==
    CASE card = "smtp" -> IF inputs.act = "set" THEN inputs.typed
                          ELSE IF inputs.act = "clear" THEN RemoveIt ELSE KeepIt
      [] card = "git" -> IF inputs.act = "clear" THEN RemoveIt ELSE inputs.typed
      [] OTHER -> inputs.typed

Send(body) == saves < MaxSaves /\ saves' = saves + 1 /\ sending = NotSending /\ sending' = body

SubmitForm ==
    /\ FormShown /\ ~SecretMissing /\ (card # "channel" => Dirty)
    /\ Send([how |-> "form", v |-> inputs.v, type |-> inputs.type,
             secret |-> SentSecret, shown |-> ShownSecret])
    /\ UNCHANGED <<card, stored, seen, inputs, opened>>

\* The switch of a channel sends all of the channel as the list has it.
ToggleChannel ==
    /\ card = "channel" /\ seen # NotSeen
    /\ Send([how |-> "toggle", v |-> seen.v, type |-> seen.type, secret |-> seen.mail,
             shown |-> seen.mail])
    /\ UNCHANGED <<card, stored, seen, inputs, opened>>

SaveAnswered ==
    /\ sending # NotSending /\ AcceptsSave(sending)
    /\ stored' = Received(sending) /\ sending' = NotSending
    /\ CASE card = "channel" ->    \* the list is read again, the sheet is closed
              /\ UNCHANGED seen
              /\ inputs' = IF sending.how = "form" THEN NoInputs ELSE inputs
         [] card \in {"smtp", "git"} ->
              seen' = Visible(stored') /\ inputs' = ToForm(seen')
         [] OTHER -> Seen(Visible(stored'))
    /\ UNCHANGED <<card, opened, saves>>

SaveRefused ==
    /\ sending # NotSending /\ sending' = NotSending
    /\ UNCHANGED <<card, stored, seen, inputs, opened, saves>>

-----------------------------------------------------------------------------
\* The pages, their cards and their sheets: what each offers of this.

Fields == \E v \in 1..MaxValue : SetField(v)
SecretField == \E n \in 0..MaxSecret : TypeSecret(n)

SettingsPage == card = "settings" /\ (Fields \/ Reset)
SaveSettings == card = "settings" /\ SubmitForm

GitSettingsCard == card = "git" /\ (Fields \/ SecretField \/ ClearSecret \/ Reset)
SaveGit == card = "git" /\ SubmitForm

SmtpCard == card = "smtp" /\ (Fields \/ SecretField \/ ClearSecret \/ Reset)
SaveSmtp == card = "smtp" /\ SubmitForm

WindowsAuthPage == card = "windows" /\ Reset
RoleGroupsRow == card = "windows" /\ Fields
SaveWindows == card = "windows" /\ SubmitForm

EntraAuthPage == card = "entra" /\ (Fields \/ SecretField \/ Reset)
RoleRow == card = "entra" /\ Fields
SaveEntra == card = "entra" /\ SubmitForm

ChannelCard ==
    /\ card = "channel" /\ inputs = NoInputs /\ seen # NotSeen
    /\ opened' = seen /\ inputs' = ToForm(seen)
    /\ UNCHANGED <<card, stored, seen, sending, saves>>

ChannelSheet == card = "channel" /\ (Fields \/ SecretField)
TypeChoice == \E t \in Types : SetType(t)
SaveChannel == card = "channel" /\ SubmitForm

NotificationsPage ==    \* closes the sheet
    /\ card = "channel" /\ inputs # NoInputs /\ inputs' = NoInputs
    /\ UNCHANGED <<card, stored, seen, opened, sending, saves>>

FormsNext ==
    \/ \E doc \in OtherDocs : OthersSave(doc)
    \/ QueryArrives \/ SaveAnswered \/ SaveRefused
    \/ SettingsPage \/ SaveSettings \/ GitSettingsCard \/ SaveGit \/ SmtpCard \/ SaveSmtp
    \/ WindowsAuthPage \/ RoleGroupsRow \/ SaveWindows \/ EntraAuthPage \/ RoleRow \/ SaveEntra
    \/ NotificationsPage \/ ChannelCard \/ ChannelSheet \/ TypeChoice \/ SaveChannel \/ ToggleChannel

FormsSpec == FormsInit /\ [][FormsNext]_formVars

-----------------------------------------------------------------------------
Told(shown, type, secret) ==
    CASE shown = KeepIt -> secret
      [] shown = RemoveIt -> NoSecret
      [] OTHER -> [of |-> type, n |-> shown]

\* A stored secret is kept, replaced or removed as the form said when it was
\* submitted, whatever was typed, cleared, taken back or read in between.
SecretAsShown ==
    [][sending # NotSending /\ sending' = NotSending /\ stored' # stored =>
         stored'.secret = Told(sending.shown, sending.type, stored.secret)]_formVars

\* The secret of a channel is one of its type, even when a switch or a sheet
\* sends the type the channel had before others changed it.
SecretFitsType == stored.secret.of \in {stored.type, "none"}
=============================================================================
