------------------------ MODULE MCRegistryConnector ------------------------
(* Two calls at a time, against public and private registries of every way  *)
(* to challenge, with short-lived and longer tokens for pulls and pushes.   *)
EXTENDS RegistryConnector

CONSTANT r1

MCConfigs ==
    {x \in [basic : BOOLEAN, preemptive : BOOLEAN, valid : BOOLEAN, public : BOOLEAN,
            scheme : {"none", "basic", "bearer", "other"}, realm : {"approved", "foreign"},
            life : {1, 2}, redirects : BOOLEAN] :
        /\ x.redirects => x.basic /\ x.valid /\ x.life = 1 /\ x.scheme \in {"basic", "bearer"}
        /\ x.preemptive => x.basic
        /\ x.valid \/ x.basic
        /\ x.basic => x.public
        /\ x.scheme # "bearer" => x.life = 1 /\ x.realm = "approved" /\ x.public
        /\ x.scheme \in {"none", "other"} => x.valid /\ (x.basic => x.preemptive)
        /\ x.scheme = "bearer" =>
              \/ x.realm = "foreign" /\ x.life = 1 /\ x.valid /\ x.public
              \/ x.realm = "approved" /\ x.life = 1 /\ ~x.preemptive /\ (~x.valid \/ ~x.public)
              \/ x.realm = "approved" /\ x.life = 2 /\ ~x.preemptive /\ x.valid /\ x.public}

=============================================================================
