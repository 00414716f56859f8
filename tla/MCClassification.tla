-------------------------- MODULE MCClassification --------------------------
EXTENDS Classification

CONSTANTS api, domain, t1, b1, b2

Kind == [r \in {api, domain} |-> IF r = api THEN "api_allowed_pattern" ELSE "system_domain"]
Channel == [r \in {api, domain} |-> IF r = api THEN "email" ELSE AnyChannel]
Scope == [r \in {api, domain} |-> IF r = api THEN b2 ELSE AnyBrand]
Brand == [t \in {t1} |-> b1]
Via == [t \in {t1} |-> "email"]
AllHit == {api, domain} \X {t1}
=============================================================================
