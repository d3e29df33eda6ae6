------------------------------ MODULE ConfigCond ------------------------------
(***************************************************************************)
(* configfile-glue.c: the conditions of the configuration and the cache of *)
(* their results that every connection keeps.  A condition may be nested   *)
(* in a parent and may be the else branch of a previous one; its result is *)
(* cached until the item it tests changes.  The model is one connection:   *)
(* its accept, its TLS handshake, its requests, and the modules that       *)
(* replace an item in between.  A test compares one item with a constant;  *)
(* an item has the two values that such a comparison tells apart.          *)
(***************************************************************************)
EXTENDS Integers

CONSTANTS
  LastNode,  \* the conditions are 1 .. LastNode, in the order of the configuration; 0 is the global context
  Configs,   \* the configurations considered
  Items,     \* the items that conditions test (comp_key_t)
  AtAccept,  \* those known when a connection is accepted: the socket and the client's address
  AtHello    \* those known after the ClientHello: the scheme and the host

Nodes == 1 .. LastNode
Results == {"unset", "skip", "false", "true"}

\* configparser.y: a block is numbered after the block it stands in and after
\* the one it is an alternative to; nothing follows a catch-all else
ConfigShape(c) ==
  /\ c.parent \in [Nodes -> 0 .. LastNode] /\ c.prev \in [Nodes -> 0 .. LastNode]
  /\ c.comp \in [Nodes -> Items] /\ c.catchAll \subseteq Nodes /\ c.negated \subseteq Nodes
  /\ \A n \in Nodes : /\ c.parent[n] < n /\ c.prev[n] < n
                      /\ c.prev[n] # 0 => c.parent[c.prev[n]] = c.parent[n]
                      /\ n \in c.catchAll => c.prev[n] # 0 /\ c.comp[n] = c.comp[c.prev[n]]
                      /\ c.prev[n] \notin c.catchAll

ConfigAssumption ==
  /\ LastNode \in Nat \ {0} /\ AtAccept \subseteq Items /\ AtHello \subseteq Items \ AtAccept
  /\ \A c \in Configs : ConfigShape(c)

VARIABLES
  config,  \* parent, prev and comp of every data_config, which are `else` and which are != or !~
  value,   \* whether an item has the value that conditions compare it with
  valid,   \* conditional_is_valid
  result,  \* cond_cache[].result
  local,   \* cond_cache[].local_result
  stuck    \* whether the thread waits for cache_lock while it holds it

vars == <<config, value, valid, result, local, stuck>>

\* the comparison itself: ==, =~ or their negations
Test(n) == IF n \in config.catchAll \/ value[config.comp[n]] = (n \notin config.negated)
           THEN "true" ELSE "false"

TypeOK ==
  /\ config \in Configs /\ value \in [Items -> BOOLEAN] /\ valid \subseteq Items /\ stuck \in BOOLEAN
  /\ result \in [Nodes -> Results] /\ local \in [Nodes -> Results \ {"skip"}]

Unset == [n \in Nodes |-> "unset"]

Init ==
  /\ config \in Configs /\ value = [i \in Items |-> FALSE] /\ valid = {}
  /\ result = Unset /\ local = Unset /\ stuck = FALSE

\* the result of a condition, given that of its parent and of the branch before it.
\* A parent that is false leaves the switch of the code at the next case and the
\* condition is evaluated all the same
Decided(n, parent, prev, own) ==
  IF parent = "unset" \/ prev = "unset" THEN "unset"
  ELSE IF prev \in {"skip", "true"} THEN "skip"
  ELSE IF config.comp[n] \notin valid THEN "unset"
  ELSE IF own # "unset" THEN own ELSE Test(n)

Above(r, n) == IF config.parent[n] = 0 THEN "true" ELSE r[config.parent[n]]
Before(r, n) == IF config.prev[n] = 0 THEN "false" ELSE r[config.prev[n]]

\* config_check_cond of one condition in the state s of the cache.  The lock is
\* not recursive: a parent or a branch without a cached result is evaluated
\* under it, and takes it again
CheckCond(s, n) ==
  LET new == Decided(n, Above(s.result, n), Before(s.result, n), s.local[n])
      again == \/ config.parent[n] # 0 /\ s.result[config.parent[n]] = "unset"
               \/ config.prev[n] # 0 /\ s.result[config.prev[n]] = "unset"
  IN IF s.stuck \/ s.result[n] # "unset" THEN s
     ELSE IF again THEN [s EXCEPT !.stuck = TRUE]
     ELSE [result |-> [s.result EXCEPT ![n] = new], stuck |-> s.stuck,
           local |-> IF new \in {"true", "false"} THEN [s.local EXCEPT ![n] = new] ELSE s.local]

\* the loop of every patch_connection function: all conditions in their order
Patched[n \in 0 .. LastNode] ==
  IF n = 0 THEN [result |-> result, local |-> local, stuck |-> FALSE]
  ELSE CheckCond(Patched[n - 1], n)

Patch ==
  /\ ~stuck
  /\ LET s == Patched[LastNode] IN
       result' = s.result /\ local' = s.local /\ stuck' = s.stuck
  /\ UNCHANGED <<config, value, valid>>

\* connection_accepted: a new client on the structure, its socket and address known
Accept ==
  /\ ~stuck /\ valid' = AtAccept /\ result' = Unset /\ local' = Unset
  /\ \E v \in [AtAccept -> BOOLEAN] :
       value' = [i \in Items |-> IF i \in AtAccept THEN v[i] ELSE value[i]]
  /\ UNCHANGED <<config, stuck>>

\* mod_openssl: the server name of the ClientHello
Hello ==
  /\ ~stuck /\ valid = AtAccept /\ valid' = valid \cup AtHello
  /\ \E v \in [AtHello -> BOOLEAN] :
       value' = [i \in Items |-> IF i \in AtHello THEN v[i] ELSE value[i]]
  /\ UNCHANGED <<config, result, local, stuck>>

\* http_response_prepare: a request, or the same one again after a rewrite
Prepare ==
  /\ ~stuck /\ valid # {} /\ valid' = Items /\ local' = Unset
  /\ \E v \in [Items \ AtAccept -> BOOLEAN] :
       value' = [i \in Items |-> IF i \in AtAccept THEN value[i] ELSE v[i]]
  /\ result' = Unset
  /\ UNCHANGED <<config, stuck>>

\* Mutant of Cleared: the else branches after a cleared condition are forgotten.
ClearedAlone(i) ==
  LET c[n \in Nodes] ==
        /\ result[n] # "unset"
        /\ \/ config.comp[n] = i
           \/ config.parent[n] # 0 /\ c[config.parent[n]]
  IN {n \in Nodes : c[n]}

\* config_cond_clear_node from every condition on an item: down to the nested
\* conditions and on to the else branches, as far as there are results to clear
Cleared(i) ==
  LET c[n \in Nodes] ==
        /\ result[n] # "unset"
        /\ \/ config.comp[n] = i
           \/ config.prev[n] # 0 /\ c[config.prev[n]]
           \/ config.prev[n] = 0 /\ config.parent[n] # 0 /\ c[config.parent[n]]
  IN {n \in Nodes : c[n]}

\* config_cond_cache_reset_item: mod_extforward has replaced the address, the
\* scheme or the host; later it puts the address back
ResetItem(i) ==
  /\ ~stuck /\ i \in valid
  /\ \E v \in BOOLEAN : value' = [value EXCEPT ![i] = v]
  /\ local' = [n \in Nodes |-> IF config.comp[n] = i THEN "unset" ELSE local[n]]
  /\ LET gone == Cleared(i) IN
       result' = [n \in Nodes |-> IF n \in gone THEN "unset" ELSE result[n]]
  /\ UNCHANGED <<config, valid, stuck>>

Next == Patch \/ Accept \/ Hello \/ Prepare \/ \E i \in Items : ResetItem(i)

Spec == Init /\ [][Next]_vars

----------------------------------------------------------------------------
(* What the cache promises. *)

Fresh[n \in 0 .. LastNode] ==
  IF n = 0 THEN "true"
  ELSE Decided(n, IF config.parent[n] = 0 THEN "true" ELSE Fresh[config.parent[n]],
                  IF config.prev[n] = 0 THEN "false" ELSE Fresh[config.prev[n]], "unset")

(* A cached result is the one an evaluation from nothing would give now, after
   any sequence of requests, handshakes and replaced items: the partial reset
   of config_cond_cache_reset_item clears every result that depends on the
   item, and the results it keeps as local_result are still true. *)
CacheFresh == \A n \in Nodes : result[n] # "unset" => result[n] = Fresh[n]

=============================================================================
