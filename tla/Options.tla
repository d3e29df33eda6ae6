------------------------------ MODULE Options ------------------------------
(***************************************************************************)
(* How the options of the core and of every plugin come from the           *)
(* configuration to the handlers.  At the start each context of the        *)
(* configuration - the global one, 0, and the conditional blocks - is      *)
(* read by the plugin's set_defaults into a plugin_config of its own;      *)
(* when a connection is served, the plugin's patch_connection makes        *)
(* p->conf of the plugin_configs of the blocks that apply.                 *)
(*                                                                         *)
(* OptionTables says which plugins and options there are.  Options do not  *)
(* meet, so one of them is set at a time.                                  *)
(***************************************************************************)
EXTENDS Integers, FiniteSets, FiniteSetsExt

CONSTANTS
  Tables,    \* plugin -> its options, and how they are patched
  LastBlock  \* the contexts are 0 .. LastBlock

OptionsAssumption == LastBlock \in Nat

VARIABLES
  plugin, option,  \* the option that is set
  given,           \* how it is set in each context
  stage,           \* of the server
  blocks,          \* the blocks that apply to the connection that is served
  pconf            \* p->conf: for each field, the context whose plugin_config it was copied from

vars == <<plugin, option, given, stage, blocks, pconf>>

Contexts == 0 .. LastBlock
Unset == -1
NoRequest == {0}

Table == Tables[plugin].of
Patch == Tables[plugin].patch

\* the options a field is made of
Taken(f) == IF f \in DOMAIN Table.makes THEN Table.makes[f] ELSE {f}
Fields == DOMAIN Table.makes \cup (DOMAIN Table.form \ UNION {Table.makes[f] : f \in DOMAIN Table.makes})
\* what the plugin's handlers look at
FieldsRead == Fields \ Table.start

\* A value of another form, or one that cannot be made (a host, a regular expression, a database
\* that does not open), is only logged for some options; "global" options are not for blocks.
Refused ==
  \/ Table.form[option] \notin {"array", "logged"} /\ \E i \in Contexts : given[i] = "bad"
  \/ Table.form[option] = "global" /\ \E i \in Contexts \ {0} : given[i] # "unset"

Init ==
  /\ plugin \in DOMAIN Tables /\ option \in DOMAIN Table.form
  /\ given \in [Contexts -> {"unset", "good", "bad"}]
  /\ Cardinality({i \in Contexts : given[i] = "bad"}) <= 1
  /\ stage = "start" /\ blocks = NoRequest /\ pconf = [f \in Fields |-> Unset]

\* set_defaults of the contexts
Load ==
  /\ stage = "start" /\ stage' = IF Refused THEN "refused" ELSE "up"
  /\ UNCHANGED <<plugin, option, given, blocks, pconf>>

\* patch_connection: the global context, then the blocks that apply, one after the other
Sets(i, f) ==
  i # 0 /\ given[i] # "unset" /\ option \in DOMAIN Patch.on /\ f \in Patch.on[option]
Patched(bs) ==
  [f \in Fields |-> LET setting == {i \in bs : Sets(i, f)} IN
     IF setting # {} THEN Max(setting) ELSE IF f \in Patch.base THEN 0 ELSE pconf[f]]
Serve ==
  /\ stage = "up"
  /\ \E bs \in SUBSET (Contexts \ {0}) : blocks' = bs /\ pconf' = Patched(bs)
  /\ UNCHANGED <<plugin, option, given, stage>>

Next == Load \/ Serve

Spec == Init /\ [][Next]_vars

-----------------------------------------------------------------------------
\* what a context makes of a field
Made(i, f) ==
  IF i = Unset THEN <<"nothing">>
  ELSE IF option \notin Taken(f) \/ given[i] = "unset" THEN <<"default">> ELSE <<given[i], i>>

\* The fields that a block does not give, or that nothing gives: mod_geoip keeps the database of
\* the global context for a block that names another one, and no balance gets to mod_fastcgi and
\* mod_scgi.
NotPatched == {<<"geoip", "gi">>, <<"fastcgi", "balance">>, <<"scgi", "balance">>}

\* Whatever was served before, the handlers see of every option what the last of the blocks that
\* apply and have it says, or else the global context: nothing in the configuration is read and
\* then forgotten, and nothing of another connection's blocks stays in p->conf.
Effective == stage = "up" /\ blocks # NoRequest =>
  \A f \in FieldsRead :
    LET naming == {i \in blocks : option \in Taken(f) /\ given[i] # "unset"} IN
    \/ <<plugin, f>> \in NotPatched
    \/ Made(pconf[f], f) = Made(IF naming = {} THEN 0 ELSE Max(naming), f)
=============================================================================
