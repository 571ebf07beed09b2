--------------------------- MODULE MCMicroservice ---------------------------
(***************************************************************************)
(* Instances of Microservice for TLC: who calls what, and the access list  *)
(* of service_test.go with its patterns as sets of methods.                *)
(***************************************************************************)
EXTENDS Microservice

CONSTANTS L1, L2, S1, B1, B2   \* loggers, a Statistics call, Biz calls

MCWho == [c \in Call |->
            CASE c \in {L1, L2} -> "logger"
              [] c = S1 -> "stat"
              [] c = B1 -> "biz_user"
              [] OTHER -> "biz_admin"]

MCMeth == [c \in Call |->
             CASE c \in {L1, L2} -> "Logging"
               [] c = S1 -> "Statistics"
               [] c = B1 -> "Check"
               [] OTHER -> "Test"]

MCConsumer == {"logger", "stat", "biz_user", "biz_admin", "none"}
MCBizMethod == {"Check", "Test"}

MCPattern == {"logging", "statistics", "check", "biz"}
MCMatch == [p \in MCPattern |->
              CASE p = "logging" -> {"Logging"}
                [] p = "statistics" -> {"Statistics"}
                [] p = "check" -> {"Check"}
                [] p = "biz" -> {"Check", "Test"}]

ACLData == [k \in {"logger", "stat", "biz_user", "biz_admin"} |->
              CASE k = "logger" -> {"logging"}
                [] k = "stat" -> {"statistics"}
                [] k = "biz_user" -> {"check"}
                [] k = "biz_admin" -> {"biz"}]

GoodAcl == {ACLData}
AnyAcl == {ACLData, Malformed,
           [k \in {"logger", "stat"} |-> IF k = "stat" THEN NotArray ELSE {"logging"}],
           [k \in {"biz_user"} |-> {"check", NotString}],
           [k \in {"logger", "biz_user"} |-> {"logging"}]}
=============================================================================
