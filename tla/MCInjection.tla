---------------------------- MODULE MCInjection ----------------------------
(* Specs and pod templates for the runs of Injection.                      *)
EXTENDS Injection

CONSTANTS a, b, dep, sts, data, other

Bucket == [bucket |-> "backups", secretRef |-> "creds"]

SpecOf(d, s, dir) ==
  [targetDeployment |-> d, targetStatefulSet |-> s, databaseName |-> "app.db",
   databasePath |-> dir, backup |-> TRUE, s3 |-> Bucket]

ToDeployment == SpecOf(dep, None, <<"data">>)
ToStatefulSet == SpecOf(None, sts, <<"data">>)
ToSubdirectory == SpecOf(dep, None, <<"data", "db">>)

Rejected ==
  {SpecOf(dep, sts, <<"data">>), SpecOf(None, None, <<"data">>),
   [ToDeployment EXCEPT !.databaseName = None], [ToDeployment EXCEPT !.databasePath = None],
   [ToDeployment EXCEPT !.s3 = None], [ToDeployment EXCEPT !.s3.secretRef = None]}

(* One replica moves between both kinds, the other may take its place.      *)
MovingSpecs ==
  [r \in Names |-> IF r = a THEN {ToDeployment, ToStatefulSet, ToSubdirectory} \cup Rejected
                           ELSE {ToDeployment}]

Mount(v, dir, sub) == [volume |-> v, path |-> dir, subPath |-> sub]
Template(mounts) == [mounts |-> mounts, litestream |-> FALSE]

(* The data volume is mounted at the database path beside other volumes, at *)
(* a directory below one of them that comes after or before it, twice, or   *)
(* only a part of it; or there is none.                                     *)
Templates ==
  {Template(<<Mount(other, <<"data", "cache">>, <<>>), Mount(data, <<"data">>, <<>>)>>),
   Template(<<Mount(other, <<>>, <<>>), Mount(data, <<"data">>, <<>>)>>),
   Template(<<Mount(other, <<"data">>, <<>>), Mount(data, <<"data", "db">>, <<>>)>>),
   Template(<<Mount(data, <<"data", "db">>, <<>>), Mount(other, <<"data">>, <<>>)>>),
   Template(<<Mount(data, <<"data">>, <<"app">>), Mount(data, <<"data", "db">>, <<>>)>>),
   Template(<<Mount(other, <<"etc">>, <<>>)>>),
   [litestream |-> TRUE, mounts |-> <<Mount(data, <<"data">>, <<>>)>>]}
=============================================================================
