------------------------- MODULE ClusterStoreProofs -------------------------
(***************************************************************************)
(* What each database transaction of ClusterStore preserves, for every set *)
(* of txids and any number of clusters, and the conditions under which it  *)
(* does: they are what the service has to see to.                          *)
(***************************************************************************)
EXTENDS ClusterStore, FiniteSetTheorems, TLAPS

\* The live flag marks the current version of the active clusters.
LiveIsCurrent(d) ==
    \A c \in ClusterId : d.live[c] = IF d.status[c] = "active" THEN d.txids[c] ELSE {}

\* Links and members agree; only active and confirmed clusters have links.
Linked(d) ==
    /\ \A c \in Active(d) : \A t \in TxId : t \in d.txids[c] <=> d.link[t] = c
    /\ \A t \in TxId : d.link[t] # NoCluster =>
          d.status[d.link[t]] \in {"active", "confirmed"} /\ t \in d.txids[d.link[t]]

\* Ids are handed out in order.
IdsAscend(d) ==
    \A c, e \in ClusterId : c < e /\ d.status[c] = "none" => d.status[e] = "none"

Consistent(d) == d \in Tables /\ LiveIsCurrent(d) /\ Linked(d) /\ IdsAscend(d)

\* Nothing of the group is in an active cluster.
Unclaimed(d, group) == \A c \in Active(d) : d.txids[c] \cap group = {}

\* The tables at the start.
LEMMA EmptyConsistent == Consistent(EmptyTables)
BY StoreAssumption DEF Consistent, EmptyTables, Tables, LiveIsCurrent, Linked, IdsAscend, Active,
   ClusterId, NoCluster, ClusterStatus

\* close_many: the members of what is closed are unlinked.
LEMMA CloseKeeps ==
    ASSUME NEW d, Consistent(d), NEW ids, NEW status \in {"merged", "evicted"}
    PROVE  LET e == close_many(d, ids, status)
           IN  /\ Consistent(e)
               /\ \A c \in ClusterId :
                     /\ e.status[c] = IF c \in ids \cap Active(d) THEN status ELSE d.status[c]
                     /\ e.txids[c] = d.txids[c]
<1> DEFINE closing == ids \cap Active(d)
           e == close_many(d, ids, status)
<1>1. d \in Tables /\ closing \subseteq ClusterId
  BY DEF Consistent, Active
<1>2. /\ e.status = [c \in ClusterId |-> IF c \in closing THEN status ELSE d.status[c]]
      /\ e.txids = d.txids
      /\ e.live = [c \in ClusterId |-> IF c \in closing THEN {} ELSE d.live[c]]
      /\ e.link = [t \in TxId |-> IF d.link[t] \in closing THEN NoCluster ELSE d.link[t]]
  BY <1>1 DEF close_many, Tables
<1>3. e \in Tables
  BY <1>1 DEF close_many, Tables, ClusterStatus
<1> HIDE DEF e
<1>4. LiveIsCurrent(e)
  BY <1>1, <1>2 DEF Consistent, LiveIsCurrent, Tables, Active
<1>5. Linked(e)
  <2>1. Active(e) = Active(d) \ closing
    BY <1>1, <1>2 DEF Active, Tables
  <2>2. \A t \in TxId : d.link[t] \in ClusterId \cup {NoCluster}
    BY <1>1 DEF Tables
  <2>3. ASSUME NEW c \in Active(e), NEW t \in TxId
        PROVE  t \in e.txids[c] <=> e.link[t] = c
    BY <1>2, <2>1, <2>3 DEF Consistent, Linked, Active, ClusterId, NoCluster
  <2>4. ASSUME NEW t \in TxId, e.link[t] # NoCluster
        PROVE  e.status[e.link[t]] \in {"active", "confirmed"} /\ t \in e.txids[e.link[t]]
    BY <1>2, <2>2, <2>4 DEF Consistent, Linked
  <2> QED
    BY <2>3, <2>4 DEF Linked
<1>6. IdsAscend(e)
  BY <1>1, <1>2 DEF Consistent, IdsAscend, Tables, Active
<1> QED
  BY <1>2, <1>3, <1>4, <1>5, <1>6 DEF Consistent, e

\* confirm_many: the members stay linked.
LEMMA ConfirmKeeps ==
    ASSUME NEW d, Consistent(d), NEW ids
    PROVE  LET e == confirm_many(d, ids)
           IN  /\ Consistent(e)
               /\ \A c \in ClusterId :
                     /\ e.status[c] = IF c \in ids \cap Active(d) THEN "confirmed" ELSE d.status[c]
                     /\ e.txids[c] = d.txids[c]
<1> DEFINE pending == ids \cap Active(d)
           e == confirm_many(d, ids)
<1>1. d \in Tables /\ pending \subseteq ClusterId
  BY DEF Consistent, Active
<1>2. /\ e.status = [c \in ClusterId |-> IF c \in pending THEN "confirmed" ELSE d.status[c]]
      /\ e.txids = d.txids /\ e.link = d.link
      /\ e.live = [c \in ClusterId |-> IF c \in pending THEN {} ELSE d.live[c]]
  BY <1>1 DEF confirm_many, Tables
<1>3. e \in Tables
  BY <1>1 DEF confirm_many, Tables, ClusterStatus
<1> HIDE DEF e
<1>4. LiveIsCurrent(e)
  BY <1>1, <1>2 DEF Consistent, LiveIsCurrent, Tables, Active
<1>5. Linked(e)
  <2>1. Active(e) = Active(d) \ pending
    BY <1>1, <1>2 DEF Active, Tables
  <2>2. \A t \in TxId : d.link[t] \in ClusterId \cup {NoCluster}
    BY <1>1 DEF Tables
  <2>3. ASSUME NEW c \in Active(e), NEW t \in TxId
        PROVE  t \in e.txids[c] <=> e.link[t] = c
    BY <1>2, <2>1, <2>3 DEF Consistent, Linked, Active, ClusterId, NoCluster
  <2>4. ASSUME NEW t \in TxId, e.link[t] # NoCluster
        PROVE  e.status[e.link[t]] \in {"active", "confirmed"} /\ t \in e.txids[e.link[t]]
    BY <1>2, <2>2, <2>4 DEF Consistent, Linked
  <2> QED
    BY <2>3, <2>4 DEF Linked
<1>6. IdsAscend(e)
  BY <1>1, <1>2 DEF Consistent, IdsAscend, Tables, Active
<1> QED
  BY <1>2, <1>3, <1>4, <1>5, <1>6 DEF Consistent, e

\* replace_chunks: sound when no other active cluster has any of the group.
LEMMA ReplaceKeeps ==
    ASSUME NEW d, Consistent(d), NEW id \in ClusterId, NEW group \in SUBSET TxId,
           \A c \in Active(d) \ {id} : d.txids[c] \cap group = {}
    PROVE  LET e == replace_chunks(d, id, group)
           IN  /\ Consistent(e)
               /\ \A c \in ClusterId :
                     /\ e.status[c] = d.status[c]
                     /\ e.txids[c] = IF c = id /\ id \in Active(d) THEN group ELSE d.txids[c]
<1>1. CASE d.status[id] # "active" \/ d.txids[id] = group
  BY <1>1 DEF replace_chunks, Active
<1>2. CASE ~(d.status[id] # "active" \/ d.txids[id] = group)
  <2> DEFINE e == replace_chunks(d, id, group)
  <2>1. d \in Tables /\ d.status[id] = "active" /\ id # NoCluster
    BY <1>2 DEF Consistent, ClusterId, NoCluster
  <2>2. /\ e.status = d.status
        /\ e.txids = [d.txids EXCEPT ![id] = group]
        /\ e.live = [d.live EXCEPT ![id] = (d.live[id] \ d.txids[id]) \cup group]
        /\ e.link = [t \in TxId |-> IF t \in group THEN id
                                    ELSE IF d.link[t] = id THEN NoCluster ELSE d.link[t]]
    BY <1>2, <2>1 DEF replace_chunks, Tables
  <2>3. e \in Tables
    BY <1>2, <2>1 DEF replace_chunks, Tables
  <2> HIDE DEF e
  <2>4. LiveIsCurrent(e)
    <3>1. e.live[id] = group /\ e.txids[id] = group /\ e.status[id] = "active"
      BY <2>1, <2>2 DEF Consistent, LiveIsCurrent, Tables
    <3>2. \A c \in ClusterId \ {id} : e.live[c] = d.live[c] /\ e.txids[c] = d.txids[c]
      BY <2>1, <2>2 DEF Tables
    <3> QED
      BY <2>2, <3>1, <3>2 DEF Consistent, LiveIsCurrent
  <2>5. Linked(e)
    <3>1. \A c \in Active(e) : \A t \in TxId : t \in e.txids[c] <=> e.link[t] = c
      BY <2>1, <2>2, StoreAssumption DEF Consistent, Linked, Tables, Active, ClusterId, NoCluster
    <3>2. \A t \in TxId : e.link[t] # NoCluster =>
            e.status[e.link[t]] \in {"active", "confirmed"} /\ t \in e.txids[e.link[t]]
      BY <2>1, <2>2, StoreAssumption DEF Consistent, Linked, Tables, Active, ClusterId, NoCluster
    <3> QED
      BY <3>1, <3>2 DEF Linked
  <2>6. IdsAscend(e)
    BY <2>2 DEF Consistent, IdsAscend
  <2>7. \A c \in ClusterId : e.txids[c] = IF c = id THEN group ELSE d.txids[c]
    BY <2>1, <2>2 DEF Tables
  <2> QED
    BY <2>1, <2>2, <2>3, <2>4, <2>5, <2>6, <2>7 DEF Consistent, Active, e
<1> QED
  BY <1>1, <1>2

\* insert_in: sound for fresh ids, groups that do not overlap, and txids that no
\* active cluster has.
LEMMA InsertKeeps ==
    ASSUME NEW d, Consistent(d), NEW new, DOMAIN new \subseteq Unused(d),
           \A c \in DOMAIN new : new[c] \subseteq TxId /\ Unclaimed(d, new[c]),
           \A c, e \in DOMAIN new : c # e => new[c] \cap new[e] = {},
           \A c \in DOMAIN new, e \in Unused(d) \ DOMAIN new : c < e
    PROVE  LET e == insert_in(d, new)
           IN  /\ Consistent(e)
               /\ \A c \in ClusterId :
                     /\ e.status[c] = IF c \in DOMAIN new THEN "active" ELSE d.status[c]
                     /\ e.txids[c] = IF c \in DOMAIN new THEN new[c] ELSE d.txids[c]
<1> DEFINE e == insert_in(d, new)
           in(t) == \E c \in DOMAIN new : t \in new[c]
<1>1. d \in Tables /\ DOMAIN new \subseteq ClusterId /\ DOMAIN new \cap Active(d) = {}
  BY DEF Consistent, Unused, Active
<1>2. /\ e.status = [c \in ClusterId |-> IF c \in DOMAIN new THEN "active" ELSE d.status[c]]
      /\ e.txids = [c \in ClusterId |-> IF c \in DOMAIN new THEN new[c] ELSE d.txids[c]]
      /\ e.live = [c \in ClusterId |-> IF c \in DOMAIN new THEN new[c] ELSE d.live[c]]
      /\ e.link = [t \in TxId |-> IF in(t) THEN CHOOSE c \in DOMAIN new : t \in new[c]
                                  ELSE d.link[t]]
  BY DEF insert_in
<1>3. /\ \A t \in TxId, c \in DOMAIN new : t \in new[c] => e.link[t] = c
      /\ \A t \in TxId : ~in(t) => e.link[t] = d.link[t]
  BY <1>2
<1>4. \A t \in TxId : d.link[t] \in ClusterId \cup {NoCluster} /\ (in(t) => e.link[t] \in DOMAIN new)
  BY <1>1, <1>3 DEF Tables
<1>5. e \in Tables
  <2>1. e = [status |-> e.status, txids |-> e.txids, live |-> e.live, link |-> e.link]
    BY DEF insert_in
  <2>2. e.status \in [ClusterId -> ClusterStatus] /\ e.txids \in [ClusterId -> SUBSET TxId]
    BY <1>1, <1>2 DEF Tables, ClusterStatus
  <2>3. e.live \in [ClusterId -> SUBSET TxId]
    BY <1>1, <1>2 DEF Tables
  <2>4. e.link \in [TxId -> ClusterId \cup {NoCluster}]
    <3>1. \A t \in TxId : e.link[t] \in ClusterId \cup {NoCluster}
      BY <1>1, <1>3, <1>4
    <3> QED
      BY <1>2, <3>1
  <2> HIDE DEF e
  <2> QED
    BY <2>1, <2>2, <2>3, <2>4 DEF Tables
<1> HIDE DEF e
<1>6. LiveIsCurrent(e)
  BY <1>1, <1>2 DEF Consistent, LiveIsCurrent
<1>7. Linked(e)
  <2>1. Active(e) = Active(d) \cup DOMAIN new
    BY <1>1, <1>2 DEF Active
  <2>2. ASSUME NEW c \in DOMAIN new, NEW t \in TxId
        PROVE  t \in e.txids[c] <=> e.link[t] = c
    <3>1. e.txids[c] = new[c]
      BY <1>1, <1>2
    <3>2. CASE t \in new[c]
      BY <1>3, <3>1, <3>2
    <3>3. CASE t \notin new[c] /\ in(t)
      BY <1>3, <3>1, <3>3
    <3>4. CASE ~in(t)
      <4>1. e.link[t] = d.link[t] /\ t \notin new[c]
        BY <1>3, <3>4
      <4>2. d.link[t] # c
        BY <1>1, StoreAssumption DEF Consistent, Linked, Unused, ClusterId, NoCluster
      <4> QED
        BY <3>1, <4>1, <4>2
    <3> QED
      BY <3>2, <3>3, <3>4
  <2>3. ASSUME NEW c \in Active(d), NEW t \in TxId
        PROVE  t \in e.txids[c] <=> e.link[t] = c
    <3>1. e.txids[c] = d.txids[c] /\ c \notin DOMAIN new
      BY <1>1, <1>2 DEF Active
    <3>2. CASE in(t)
      BY <1>4, <3>1, <3>2 DEF Unclaimed
    <3>3. CASE ~in(t)
      BY <1>3, <3>1, <3>3 DEF Consistent, Linked
    <3> QED
      BY <3>2, <3>3
  <2>4. ASSUME NEW t \in TxId, e.link[t] # NoCluster
        PROVE  e.status[e.link[t]] \in {"active", "confirmed"} /\ t \in e.txids[e.link[t]]
    <3>1. CASE in(t)
      BY <1>1, <1>2, <1>3, <3>1
    <3>2. CASE ~in(t)
      <4>1. e.link[t] = d.link[t] /\ d.link[t] \in ClusterId
        BY <1>3, <1>4, <2>4, <3>2
      <4>2. d.status[d.link[t]] \in {"active", "confirmed"} /\ t \in d.txids[d.link[t]]
        BY <2>4, <4>1 DEF Consistent, Linked
      <4>3. d.link[t] \notin DOMAIN new
        BY <4>2 DEF Unused
      <4> QED
        BY <1>2, <4>1, <4>2, <4>3
    <3> QED
      BY <3>1, <3>2
  <2> QED
    BY <2>1, <2>2, <2>3, <2>4 DEF Linked
<1>8. IdsAscend(e)
  BY <1>1, <1>2, StoreAssumption DEF Consistent, IdsAscend, Unused, ClusterId
<1> QED
  BY <1>2, <1>5, <1>6, <1>7, <1>8 DEF Consistent, e

\* trim_and_confirm_many: sound when a cluster is trimmed to a part of itself.
LEMMA TrimKeeps ==
    ASSUME NEW d, Consistent(d), NEW updates,
           \A c \in DOMAIN updates \cap Active(d) : updates[c] \subseteq d.txids[c]
    PROVE  LET e == trim_and_confirm_many(d, updates)
               trimmed == DOMAIN updates \cap Active(d)
           IN  /\ Consistent(e)
               /\ \A c \in ClusterId :
                     /\ e.status[c] = IF c \in trimmed THEN "confirmed" ELSE d.status[c]
                     /\ e.txids[c] = IF c \in trimmed THEN updates[c] ELSE d.txids[c]
<1> DEFINE trimmed == DOMAIN updates \cap Active(d)
           keeper(t) == {c \in trimmed : t \in updates[c]}
           e == trim_and_confirm_many(d, updates)
<1>1. d \in Tables /\ trimmed \subseteq ClusterId
  BY DEF Consistent, Active
<1>2. /\ e.status = [c \in ClusterId |-> IF c \in trimmed THEN "confirmed" ELSE d.status[c]]
      /\ e.txids = [c \in ClusterId |-> IF c \in trimmed THEN updates[c] ELSE d.txids[c]]
      /\ e.live = [c \in ClusterId |-> IF c \in trimmed THEN {} ELSE d.live[c]]
      /\ e.link = [t \in TxId |-> IF keeper(t) # {} THEN CHOOSE c \in keeper(t) : TRUE
                                  ELSE IF d.link[t] \in trimmed THEN NoCluster ELSE d.link[t]]
      /\ e = [status |-> e.status, txids |-> e.txids, live |-> e.live, link |-> e.link]
  <2> DEFINE kept == [c \in ClusterId |-> IF c \in trimmed THEN updates[c] ELSE d.txids[c]]
             flagged == [c \in ClusterId |-> IF c \in trimmed THEN d.live[c] \ d.txids[c]
                                            ELSE d.live[c]]
             links == [t \in TxId |-> IF keeper(t) # {} THEN CHOOSE c \in keeper(t) : TRUE
                                     ELSE IF d.link[t] \in trimmed THEN NoCluster
                                     ELSE d.link[t]]
             cut == [d EXCEPT !.txids = kept, !.live = flagged, !.link = links]
  <2>1. e = confirm_many(cut, DOMAIN updates)
    BY DEF trim_and_confirm_many
  <2> HIDE DEF kept, flagged, links
  <2>2. /\ cut.status = d.status /\ cut.txids = kept /\ cut.live = flagged /\ cut.link = links
        /\ cut = [status |-> cut.status, txids |-> cut.txids, live |-> cut.live,
                  link |-> cut.link]
    <3> HIDE DEF e, trimmed, keeper
    <3>1. cut.status = d.status /\ cut.txids = kept /\ cut.live = flagged /\ cut.link = links
      BY <1>1 DEF Tables
    <3>2. cut \in [status : {d.status}, txids : {kept}, live : {flagged}, link : {links}]
      BY <1>1 DEF Tables
    <3> HIDE DEF cut
    <3> QED
      BY <3>1, <3>2
  <2> HIDE DEF cut, e
  <2>3. DOMAIN updates \cap Active(cut) = trimmed
    BY <2>2 DEF Active
  <2>4. /\ e.status = [c \in ClusterId |-> IF c \in trimmed THEN "confirmed" ELSE cut.status[c]]
        /\ e.txids = cut.txids /\ e.link = cut.link
        /\ e.live = [c \in ClusterId |-> IF c \in trimmed THEN {} ELSE cut.live[c]]
        /\ e = [status |-> e.status, txids |-> e.txids, live |-> e.live, link |-> e.link]
    BY <2>1, <2>2, <2>3 DEF confirm_many
  <2>5. e.live = [c \in ClusterId |-> IF c \in trimmed THEN {} ELSE d.live[c]]
    BY <2>2, <2>4 DEF flagged
  <2> QED
    BY <2>2, <2>4, <2>5 DEF kept, links
<1> HIDE DEF e
<1>3. \A t \in TxId : keeper(t) # {} =>
        d.link[t] \in trimmed /\ t \in updates[d.link[t]] /\ e.link[t] = d.link[t]
  BY <1>1, <1>2 DEF Consistent, Linked
<1>4. \A t \in TxId : keeper(t) = {} =>
        e.link[t] = IF d.link[t] \in trimmed THEN NoCluster ELSE d.link[t]
  BY <1>2
<1>5. \A t \in TxId : d.link[t] \in ClusterId \cup {NoCluster}
  BY <1>1 DEF Tables
<1>6. e \in Tables
  <2>1. e.status \in [ClusterId -> ClusterStatus] /\ e.live \in [ClusterId -> SUBSET TxId]
    BY <1>1, <1>2 DEF Tables, ClusterStatus
  <2>2. e.txids \in [ClusterId -> SUBSET TxId]
    <3>1. \A c \in ClusterId : d.txids[c] \in SUBSET TxId
      BY <1>1 DEF Tables
    <3>2. \A c \in ClusterId : (IF c \in trimmed THEN updates[c] ELSE d.txids[c]) \in SUBSET TxId
      BY <3>1
    <3> QED
      BY <1>2, <3>2
  <2>3. e.link \in [TxId -> ClusterId \cup {NoCluster}]
    <3>1. \A t \in TxId : e.link[t] \in ClusterId \cup {NoCluster}
      BY <1>3, <1>4, <1>5
    <3> QED
      BY <1>2, <3>1
  <2> QED
    BY <1>2, <2>1, <2>2, <2>3 DEF Tables
<1>7. LiveIsCurrent(e)
  BY <1>1, <1>2 DEF Consistent, LiveIsCurrent
<1>8. Linked(e)
  <2>0. \A c \in ClusterId :
           /\ e.status[c] = IF c \in trimmed THEN "confirmed" ELSE d.status[c]
           /\ e.txids[c] = IF c \in trimmed THEN updates[c] ELSE d.txids[c]
    BY <1>2
  <2>1. Active(e) = Active(d) \ trimmed
    BY <1>1, <2>0 DEF Active
  <2>2. ASSUME NEW c \in Active(e), NEW t \in TxId
        PROVE  t \in e.txids[c] <=> e.link[t] = c
    <3>1. c \in Active(d) /\ c \notin trimmed /\ e.txids[c] = d.txids[c] /\ c # NoCluster
      BY <2>0, <2>1, StoreAssumption DEF Active, ClusterId, NoCluster
    <3> QED
      BY <1>3, <1>4, <3>1 DEF Consistent, Linked
  <2>3. ASSUME NEW t \in TxId, e.link[t] # NoCluster
        PROVE  e.status[e.link[t]] \in {"active", "confirmed"} /\ t \in e.txids[e.link[t]]
    <3>1. CASE keeper(t) # {}
      <4>1. e.link[t] = d.link[t] /\ d.link[t] \in trimmed /\ t \in updates[d.link[t]]
        BY <1>3, <3>1
      <4> HIDE DEF trimmed, keeper
      <4> QED
        BY <1>1, <2>0, <4>1
    <3>2. CASE keeper(t) = {}
      <4>1. e.link[t] = d.link[t] /\ d.link[t] \in ClusterId /\ d.link[t] \notin trimmed
        BY <1>4, <1>5, <2>3, <3>2
      <4> QED
        BY <2>0, <2>3, <4>1 DEF Consistent, Linked
    <3> QED
      BY <3>1, <3>2
  <2> QED
    BY <2>2, <2>3 DEF Linked
<1>9. IdsAscend(e)
  BY <1>1, <1>2 DEF Consistent, IdsAscend, Active
<1> QED
  BY <1>2, <1>6, <1>7, <1>8, <1>9 DEF Consistent, e
=============================================================================
