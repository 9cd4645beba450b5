-------------------------- MODULE RewritePassProofs --------------------------
(***************************************************************************)
(* The properties of RewritePass for every batch, port table and option.   *)
(*                                                                         *)
(* The inductive invariant says where the loop stands: in the first pass   *)
(* the webhooks before i are the rewritten ones of the manifests and the   *)
(* others are untouched; in the second pass the same holds with the output *)
(* of the first in place of the manifests.  The rest is about the operator *)
(* that rewrites one clientConfig.                                         *)
(***************************************************************************)
EXTENDS RewritePass, TLAPS

(* The rewriting of the run, and whether it is defined. *)
R(cc)  == rewriteByNamespace(cc, Ports, ca, ext)
OK(cc) == rewritable(cc, Ports, ca, ext)

(* The output of a rewriting: a URL with the pod CA. *)
Settled(cc) == /\ cc \in ClientConfig
               /\ cc.service = Nil
               /\ cc.url # Nil
               /\ cc.ca = ca
               /\ ca # EmptyCA

FirstPass ==
  pass = 1 =>
    /\ first = orig
    /\ \A h \in Hook : h < i => OK(orig[h]) /\ hooks[h] = R(orig[h])
    /\ \A h \in Hook : h >= i => hooks[h] = orig[h]

SecondPass ==
  pass = 2 =>
    /\ \A h \in Hook : OK(orig[h]) /\ first[h] = R(orig[h])
    /\ \A h \in Hook : h < i => hooks[h] = R(first[h])
    /\ \A h \in Hook : h >= i => hooks[h] = first[h]

IInv ==
  /\ TypeOK
  /\ FirstPass
  /\ SecondPass
  /\ status = "done" => i = NumHooks + 1

-----------------------------------------------------------------------------
(* What one rewriting does *)

(* A manifest's clientConfig that is rewritten becomes a settled URL with  *)
(* the same path (RewriteClientConfig, rewriteLoopbackURL).                *)
LEMMA RewriteSettles ==
  ASSUME NEW cc \in Inputs, OK(cc), TypeOK
  PROVE  /\ Settled(R(cc))
         /\ R(cc).url.path = servicePath(cc)
PROOF
<1>1. /\ cc \in ClientConfig
      /\ cc.service = Nil \/ cc.url = Nil
  BY InputAssumption
<1>2. /\ ca # EmptyCA /\ ca \in STRING
      /\ redirected(cc, ext) => ext.host \in Hosts
  BY OptionAssumption DEF OK, redirected, active, rewritable, TypeOK
<1>3. CASE redirected(cc, ext)
  <2>1. cc.url \in URL /\ cc.service = Nil
    BY <1>1, <1>3 DEF redirected, ClientConfig
  <2> DEFINE u == [host |-> ext.host, port |-> cc.url.port, path |-> cc.url.path]
  <2>2. R(cc) = [service |-> Nil, url |-> u, ca |-> ca]
    BY <1>3, <2>1 DEF R, rewriteByNamespace, rewriteLoopbackURL
  <2>a. ext.host \in Hosts
    BY <1>2, <1>3
  <2>3. u \in URL
    BY <2>1, <2>a DEF URL
  <2> QED
    BY <1>2, <2>1, <2>2, <2>3, NilAssumption
       DEF Settled, servicePath, ClientConfig
<1>4. CASE ~redirected(cc, ext) /\ cc.service # Nil
  <2>1. cc.service \in Service /\ cc.service.ns \in DOMAIN Ports
    BY <1>1, <1>4 DEF OK, rewritable, ClientConfig
  <2> DEFINE u == [host |-> "localhost", port |-> Ports[cc.service.ns],
                   path |-> cc.service.path]
  <2>2. R(cc) = [service |-> Nil, url |-> u, ca |-> ca]
    BY <1>4 DEF R, rewriteByNamespace, RewriteClientConfig, portForClientConfig
  <2>3. Ports[cc.service.ns] \in Nat
    BY <2>1, PortsAssumption
  <2>4. cc.service.path \in STRING
    BY <2>1 DEF Service
  <2>5. "localhost" \in Hosts
    BY HostsAssumption
  <2>6. u \in URL
    BY <2>3, <2>4, <2>5 DEF URL
  <2> QED
    BY <1>2, <1>4, <2>1, <2>2, <2>6, NilAssumption
       DEF Settled, servicePath, ClientConfig
<1>5. CASE ~redirected(cc, ext) /\ cc.service = Nil
  <2>1. cc.url # Nil
    BY <1>5 DEF OK, rewritable
  <2>2. R(cc) = [service |-> Nil, url |-> cc.url, ca |-> ca]
    BY <1>5 DEF R, rewriteByNamespace, RewriteClientConfig
  <2> QED
    BY <1>1, <1>2, <1>5, <2>1, <2>2 DEF Settled, servicePath, ClientConfig
<1> QED
  BY <1>3, <1>4, <1>5

(* Rewriting a settled clientConfig again settles it and keeps its path;   *)
(* unless it is redirected it is unchanged (RewriteClientConfig: "A        *)
(* URL-based clientConfig keeps its URL").                                 *)
LEMMA RewriteSettledAgain ==
  ASSUME NEW cc, Settled(cc), TypeOK
  PROVE  /\ OK(cc)
         /\ Settled(R(cc))
         /\ R(cc).url.path = cc.url.path
         /\ ~redirected(cc, ext) => R(cc) = cc
         /\ redirected(cc, ext) /\ cc.url.host = ext.host => R(cc) = cc
PROOF
<1>1. /\ cc \in ClientConfig /\ cc.service = Nil /\ cc.url \in URL
      /\ cc.ca = ca /\ ca # EmptyCA
      /\ redirected(cc, ext) => ext.host \in Hosts
  BY OptionAssumption DEF redirected, active, Settled, ClientConfig, TypeOK
<1>2. OK(cc)
  BY <1>1, NilAssumption DEF OK, rewritable
<1>3. CASE redirected(cc, ext)
  <2> DEFINE u == [host |-> ext.host, port |-> cc.url.port, path |-> cc.url.path]
  <2>1. R(cc) = [service |-> Nil, url |-> u, ca |-> ca]
    BY <1>1, <1>3 DEF R, rewriteByNamespace, rewriteLoopbackURL
  <2>a. ext.host \in Hosts
    BY <1>1, <1>3
  <2>2. /\ u \in URL
        /\ cc.url.host = ext.host => u = cc.url
    BY <1>1, <2>a DEF URL
  <2>3. u = cc.url => R(cc) = cc
    BY <1>1, <2>1 DEF ClientConfig
  <2> QED
    BY <1>1, <1>2, <1>3, <2>1, <2>2, <2>3, NilAssumption
       DEF Settled, ClientConfig
<1>4. CASE ~redirected(cc, ext)
  <2>1. R(cc) = [service |-> Nil, url |-> cc.url, ca |-> ca]
    BY <1>1, <1>4 DEF R, rewriteByNamespace, RewriteClientConfig
  <2>2. R(cc) = cc
    BY <1>1, <2>1 DEF ClientConfig
  <2> QED
    BY <1>2, <1>4, <2>2
<1> QED
  BY <1>3, <1>4

-----------------------------------------------------------------------------
(* The inductive invariant *)

(* The pass starts with the manifests' clientConfigs (RewriteAll). *)
LEMMA InitIInv == Init => IInv
PROOF
<1> SUFFICES ASSUME Init PROVE IInv
  OBVIOUS
<1>1. \A h \in Hook : orig[h] \in Inputs /\ orig[h] \in ClientConfig
  BY InputAssumption DEF Init
<1>2. orig \in [Hook -> ClientConfig]
  BY <1>1 DEF Init
<1>3. 1 \in 1..(NumHooks + 1) /\ \A h \in Hook : ~(h < 1) /\ h >= 1
  BY NumHooksAssumption DEF Hook
<1> QED
  BY <1>2, <1>3 DEF Init, IInv, TypeOK, FirstPass, SecondPass

(* Every output of a rewriting that is defined is settled: in the first    *)
(* pass because its input is a manifest's, in the second because it is the *)
(* output of the first.                                                    *)
LEMMA OutputSettled ==
  ASSUME IInv, NEW h \in Hook
  PROVE  /\ pass = 1 /\ h < i => Settled(hooks[h])
         /\ pass = 2 => Settled(first[h]) /\ Settled(hooks[h])
PROOF
<1>1. TypeOK /\ orig[h] \in Inputs
  BY DEF IInv, TypeOK
<1>2. ASSUME pass = 1, h < i PROVE Settled(hooks[h])
  BY <1>1, <1>2, RewriteSettles DEF IInv, FirstPass
<1>3. ASSUME pass = 2 PROVE Settled(first[h]) /\ Settled(hooks[h])
  <2>1. Settled(first[h])
    BY <1>1, <1>3, RewriteSettles DEF IInv, SecondPass
  <2>2. hooks[h] = first[h] \/ hooks[h] = R(first[h])
    <3>1. h < i \/ h >= i
      BY NumHooksAssumption DEF IInv, TypeOK, Hook
    <3> QED
      BY <1>3, <3>1 DEF IInv, SecondPass
  <2> QED
    BY <1>1, <2>1, <2>2, RewriteSettledAgain
<1> QED
  BY <1>2, <1>3

(* The loop's step and the two ways it ends preserve the invariant, and so *)
(* does the start of a second pass.                                        *)
LEMMA NextIInv == IInv /\ [Next]_vars => IInv'
PROOF
<1> SUFFICES ASSUME IInv, [Next]_vars PROVE IInv'
  OBVIOUS
<1>0. NumHooks \in Nat /\ TypeOK
  BY NumHooksAssumption DEF IInv
<1>1. CASE rewriteHook
  <2>1. /\ i \in Hook /\ OK(hooks[i])
        /\ hooks' = [hooks EXCEPT ![i] = R(hooks[i])]
        /\ i' = i + 1
        /\ UNCHANGED <<first, pass, status, orig, ca, ext>>
    BY <1>1 DEF rewriteHook, inputs, OK, R
  <2>2. hooks[i] \in Inputs \/ Settled(hooks[i])
    <3>1. CASE pass = 1
      BY <1>0, <2>1, <3>1 DEF IInv, FirstPass, TypeOK, Hook
    <3>2. CASE pass = 2
      BY <2>1, <3>2, OutputSettled
    <3> QED
      BY <1>0, <3>1, <3>2 DEF TypeOK
  <2>3. R(hooks[i]) \in ClientConfig
    BY <1>0, <2>1, <2>2, RewriteSettles, RewriteSettledAgain DEF Settled
  <2>4. TypeOK'
    <3>1. i' \in 1..(NumHooks + 1)
      BY <1>0, <2>1 DEF Hook
    <3>2. hooks' \in [Hook -> ClientConfig]
      BY <1>0, <2>1, <2>3 DEF TypeOK
    <3> QED
      BY <1>0, <2>1, <3>1, <3>2 DEF TypeOK
  <2>5. \A h \in Hook : /\ h # i => hooks'[h] = hooks[h]
                        /\ hooks'[i] = R(hooks[i])
                        /\ h < i' => h < i \/ h = i
                        /\ h >= i' => h >= i /\ h # i
    BY <1>0, <2>1 DEF TypeOK, Hook
  <2>6. FirstPass'
    BY <2>1, <2>5 DEF IInv, FirstPass, R, OK, Hook
  <2>7. SecondPass'
    BY <2>1, <2>5 DEF IInv, SecondPass, R, OK, Hook
  <2>8. status' # "done"
    BY <1>1 DEF rewriteHook
  <2> QED
    BY <2>4, <2>6, <2>7, <2>8 DEF IInv
<1>2. CASE rejectHook
  BY <1>2 DEF rejectHook, inputs, IInv, TypeOK, FirstPass, SecondPass, R, OK
<1>3. CASE finish
  BY <1>3 DEF finish, inputs, IInv, TypeOK, FirstPass, SecondPass, R, OK
<1>4. CASE Rerun
  <2>1. /\ pass = 1 /\ i = NumHooks + 1 /\ pass' = 2 /\ first' = hooks
        /\ i' = 1 /\ status' = "rewriting" /\ hooks' = hooks
        /\ UNCHANGED <<orig, ca, ext>>
    BY <1>4 DEF Rerun, inputs, IInv
  <2>2. \A h \in Hook : h < i /\ h >= i' /\ ~(h < i')
    BY <1>0, <2>1 DEF Hook
  <2>3. TypeOK'
    BY <1>0, <2>1 DEF TypeOK
  <2>4. SecondPass'
    BY <2>1, <2>2 DEF IInv, FirstPass, SecondPass, R, OK
  <2> QED
    BY <2>1, <2>3, <2>4 DEF IInv, FirstPass
<1>5. CASE UNCHANGED vars
  BY <1>5 DEF vars, inputs, IInv, TypeOK, FirstPass, SecondPass, R, OK
<1> QED
  BY <1>1, <1>2, <1>3, <1>4, <1>5 DEF Next, RewriteAll

(* The loop invariant of RewriteAll, over its first pass and a second one. *)
THEOREM Invariance == Spec => []IInv
PROOF
<1> QED
  BY InitIInv, NextIInv, PTL DEF Spec

(* The types of the state of RewriteAll. *)
THEOREM TypeCorrect == Spec => []TypeOK
PROOF
<1>1. IInv => TypeOK
  BY DEF IInv
<1> QED
  BY <1>1, Invariance, PTL

-----------------------------------------------------------------------------
(* The safety properties *)

(* Where a rewritten webhook of the manifests points: a redirected URL at  *)
(* the external host, a service at its namespace's port on localhost, any  *)
(* other URL where it pointed before (rewriteByNamespace).                 *)
LEMMA Target ==
  ASSUME NEW cc \in Inputs, OK(cc)
  PROVE  /\ redirected(cc, ext) =>
              cc.service = Nil /\ R(cc).url.host = ext.host
         /\ cc.service # Nil => /\ cc.service.ns \in DOMAIN Ports
                                /\ R(cc).url.host = "localhost"
                                /\ R(cc).url.port = Ports[cc.service.ns]
         /\ ~redirected(cc, ext) /\ cc.service = Nil => R(cc).url = cc.url
PROOF
<1>1. cc.service # Nil => cc.url = Nil /\ ~redirected(cc, ext)
  BY InputAssumption DEF redirected
<1>2. ASSUME redirected(cc, ext)
      PROVE  cc.service = Nil /\ R(cc).url.host = ext.host
  BY <1>1, <1>2 DEF R, rewriteByNamespace, rewriteLoopbackURL
<1>3. ASSUME cc.service # Nil
      PROVE  /\ cc.service.ns \in DOMAIN Ports
             /\ R(cc).url.host = "localhost"
             /\ R(cc).url.port = Ports[cc.service.ns]
  BY <1>1, <1>3 DEF R, OK, rewritable, rewriteByNamespace,
                    RewriteClientConfig, portForClientConfig
<1>4. ASSUME ~redirected(cc, ext), cc.service = Nil
      PROVE  R(cc).url = cc.url
  BY <1>4 DEF R, rewriteByNamespace, RewriteClientConfig
<1> QED
  BY <1>2, <1>3, <1>4

(* A pass that ended went over every webhook (RewriteAll). *)
LEMMA DonePassed ==
  ASSUME IInv, status = "done", NEW h \in Hook
  PROVE  /\ h < i
         /\ orig[h] \in Inputs /\ OK(orig[h])
         /\ pass = 1 => hooks[h] = R(orig[h])
         /\ pass = 2 => hooks[h] = R(first[h]) /\ first[h] = R(orig[h])
PROOF
<1>1. h < i
  BY NumHooksAssumption DEF IInv, Hook
<1>2. orig[h] \in Inputs /\ pass \in {1, 2}
  BY DEF IInv, TypeOK
<1> QED
  BY <1>1, <1>2 DEF IInv, FirstPass, SecondPass

(* RewriteAll without an error leaves no webhook behind: each is a URL     *)
(* with the pod CA and its own path.                                       *)
THEOREM AllRewritten == Spec => []DoneMeansReachable
PROOF
<1>1. ASSUME IInv PROVE DoneMeansReachable
  <2> SUFFICES ASSUME status = "done", NEW h \in Hook
               PROVE  /\ Settled(hooks[h])
                      /\ hooks[h].url.path = servicePath(orig[h])
    BY DEF DoneMeansReachable, Settled
  <2>1. TypeOK /\ pass \in {1, 2}
    BY <1>1 DEF IInv, TypeOK
  <2>2. Settled(R(orig[h])) /\ R(orig[h]).url.path = servicePath(orig[h])
    BY <1>1, <2>1, DonePassed, RewriteSettles
  <2>3. CASE pass = 1
    BY <1>1, <2>2, <2>3, DonePassed
  <2>4. CASE pass = 2
    <3>1. /\ Settled(R(first[h]))
          /\ R(first[h]).url.path = first[h].url.path
          /\ first[h] = R(orig[h]) /\ hooks[h] = R(first[h])
      BY <1>1, <2>1, <2>2, <2>4, DonePassed, RewriteSettledAgain
    <3> QED
      BY <2>2, <3>1
  <2> QED
    BY <2>1, <2>3, <2>4
<1> QED
  BY <1>1, Invariance, PTL

(* No pass, finished or failed, leaves a changed webhook without a CA.     *)
THEOREM AlwaysAuthenticated == Spec => []NeverUnauthenticated
PROOF
<1>1. ASSUME IInv PROVE NeverUnauthenticated
  <2> SUFFICES ASSUME NEW h \in Hook, hooks[h] # orig[h]
               PROVE  hooks[h].ca # EmptyCA
    BY DEF NeverUnauthenticated
  <2>1. pass \in {1, 2} /\ (h < i \/ h >= i)
    BY <1>1, NumHooksAssumption DEF IInv, TypeOK, Hook
  <2>2. Settled(hooks[h])
    BY <1>1, <2>1, OutputSettled DEF IInv, FirstPass
  <2> QED
    BY <2>2 DEF Settled
<1> QED
  BY <1>1, Invariance, PTL

(* The target of a webhook, as a pair. *)
LEMMA AuthorityOf ==
  ASSUME NEW cc \in Inputs, OK(cc)
  PROVE  /\ redirected(cc, ext) => Authority(R(cc))[1] = ext.host
         /\ cc.service # Nil
              => Authority(R(cc)) = <<"localhost", Ports[cc.service.ns]>>
PROOF
<1> QED
  BY Target DEF Authority

(* For every port table whose in-pod ports differ, a first pass sends a    *)
(* webhook to another manager's listener only if it is a Service in an     *)
(* external namespace whose port is an in-pod one, and then it does.       *)
THEOREM Separation == Spec => []OwnersSeparated
PROOF
<1>1. ASSUME IInv PROVE OwnersSeparated
  <2> SUFFICES ASSUME status = "done", pass = 1,
                      ~isLoopbackAuthority(ext.host),
                      NEW g \in Hook, NEW h \in Hook,
                      Owned(orig[g]), Owned(orig[h]),
                      inPodOwner(orig[g]) # inPodOwner(orig[h])
               PROVE  Authority(hooks[g]) = Authority(hooks[h])
                        <=> Confused(orig[g], orig[h]) \/ Confused(orig[h], orig[g])
    BY DEF OwnersSeparated
  <2> DEFINE c == orig[g]
             d == orig[h]
  <2>1. /\ c \in Inputs /\ OK(c) /\ hooks[g] = R(c)
        /\ d \in Inputs /\ OK(d) /\ hooks[h] = R(d)
    BY <1>1, DonePassed
  <2>2. /\ Owned(c) /\ Owned(d) /\ inPodOwner(c) # inPodOwner(d)
        /\ ext.host # "localhost"
    BY DEF isLoopbackAuthority
  <2> HIDE DEF c, d
  <2> SUFFICES Authority(R(c)) = Authority(R(d)) <=> Confused(c, d) \/ Confused(d, c)
    BY <2>1 DEF c, d
  <2>3. CASE c.service = Nil /\ d.service = Nil
    <3>1. inPodOwner(c) = {} /\ inPodOwner(d) = {}
      BY <2>3 DEF inPodOwner
    <3> QED
      BY <2>2, <3>1
  <2>4. CASE c.service = Nil /\ d.service # Nil
    BY <2>1, <2>2, <2>4, AuthorityOf DEF Owned, Confused
  <2>5. CASE c.service # Nil /\ d.service = Nil
    BY <2>1, <2>2, <2>5, AuthorityOf DEF Owned, Confused
  <2>6. CASE c.service # Nil /\ d.service # Nil
    <3>1. /\ c.service.ns \in DOMAIN Ports /\ d.service.ns \in DOMAIN Ports
          /\ Authority(R(c)) = Authority(R(d))
               <=> Ports[c.service.ns] = Ports[d.service.ns]
      BY <2>1, <2>2, <2>6, AuthorityOf DEF Owned
    <3>2. c.service.ns # d.service.ns
      BY <2>2, <2>6 DEF inPodOwner
    <3>3. c.service.ns \in InPod \/ d.service.ns \in InPod
      BY <2>2, <2>6 DEF inPodOwner
    <3>4. c.service.ns \in InPod /\ d.service.ns \in InPod
            => Ports[c.service.ns] # Ports[d.service.ns]
      BY <3>2, PortsAssumption
    <3> QED
      BY <2>6, <3>1, <3>3, <3>4 DEF Confused
  <2> QED
    BY <2>3, <2>4, <2>5, <2>6
<1> QED
  BY <1>1, Invariance, PTL

(* A second pass is the identity on every webhook but those of an in-pod   *)
(* manager whose port is also an external one.                             *)
THEOREM SecondPassIdentity == Spec => []IdempotentApart
PROOF
<1>1. ASSUME IInv PROVE IdempotentApart
  <2> SUFFICES ASSUME status = "done", pass = 2, NEW h \in Hook,
                      orig[h].service # Nil =>
                        Ports[orig[h].service.ns] \notin ExternalPorts
               PROVE  hooks[h] = first[h]
    BY DEF IdempotentApart
  <2>1. TypeOK /\ ext.ports = ExternalPorts
    BY <1>1 DEF IInv, TypeOK
  <2>2. /\ orig[h] \in Inputs /\ OK(orig[h])
        /\ first[h] = R(orig[h]) /\ hooks[h] = R(first[h])
    BY <1>1, DonePassed
  <2>3. Settled(first[h])
    BY <2>1, <2>2, RewriteSettles
  <2>4. ~redirected(first[h], ext) \/ first[h].url.host = ext.host
    <3>1. CASE redirected(orig[h], ext)
      BY <2>2, <3>1, Target
    <3>2. CASE orig[h].service # Nil
      BY <2>1, <2>2, <3>2, Target DEF redirected
    <3>3. CASE ~redirected(orig[h], ext) /\ orig[h].service = Nil
      <4>1. first[h].url = orig[h].url
        BY <2>2, <3>3, Target
      <4> QED
        BY <3>3, <4>1 DEF redirected
    <3> QED
      BY <3>1, <3>2, <3>3
  <2> QED
    BY <2>1, <2>2, <2>3, <2>4, RewriteSettledAgain
<1> QED
  BY <1>1, Invariance, PTL
=============================================================================
