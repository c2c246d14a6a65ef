--------------------------- MODULE PresenceRules ---------------------------
(***************************************************************************)
(* The presence decision of services/presence: does the evidence sent with *)
(* a request (a GPS reading and a scanned QR token) show that the caller   *)
(* is at the attendance location of the caller's own tenant?               *)
(*                                                                         *)
(* The module holds no state.  Each operator takes the database rows that  *)
(* the code's SELECT returned, so a caller chooses at which moment each    *)
(* statement reads: under READ COMMITTED the two statements of             *)
(* verify_presence may see different committed rows.                       *)
(*                                                                         *)
(* Places are points of a line and a distance is a difference, standing    *)
(* for the great-circle distance: the decision only compares it with the   *)
(* radius.  A printed QR token is the pair of the tenant it was minted for *)
(* and its generation: tokens are random UUIDs, so two never coincide.     *)
(***************************************************************************)
EXTENDS Integers

CONSTANTS
  Tenant,        \* tenants, one attendance location each at most
  NoLocation,    \* the tenant has not set up its location
  MaxAccuracy,   \* settings.max_gps_accuracy_meters
  MaxQrVersion,  \* bound on the number of times a token is regenerated
  Sites,         \* settings an administrator may give a location
  Readings       \* GPS readings a device may report

ASSUME AccuracyAssumption == MaxAccuracy \in Nat
ASSUME QrVersionAssumption == MaxQrVersion \in Nat

\* A location row: where it is, its geofence, its token, its longest shift.
Site == [at : Int, radius : Nat, maxShift : Nat]
QrToken == Tenant \X (0 .. MaxQrVersion)
Location == [at : Int, radius : Nat, maxShift : Nat, qr : QrToken]

ASSUME SitesAssumption == Sites \subseteq Site
ASSUME NoLocationAssumption == NoLocation \notin Location

\* What a device reports; wellFormed is false for a NaN or an out of range
\* coordinate, a negative accuracy is malformed as well.
Reading == [wellFormed : BOOLEAN, at : Int, accuracy : Int]

ASSUME ReadingsAssumption == Readings \subseteq Reading

GpsReason == {"NONE", "GPS_INVALID", "GPS_ACCURACY_TOO_LOW", "OUTSIDE_GEOFENCE"}
QrReason == {"NONE", "QR_NOT_FOUND", "QR_TENANT_MISMATCH"}
FailureReason == GpsReason \cup QrReason \cup {"NO_ACTIVE_ATTENDANCE_LOCATION"}

-----------------------------------------------------------------------------
(* GPS *)

Distance(p, q) == IF p <= q THEN q - p ELSE p - q

\* The checks of verify_gps, in its order.
VerifyGps(reading, location) ==
  CASE ~(reading.wellFormed /\ reading.accuracy >= 0) -> "GPS_INVALID"
    [] reading.accuracy > MaxAccuracy -> "GPS_ACCURACY_TOO_LOW"
    [] Distance(reading.at, location.at) > location.radius -> "OUTSIDE_GEOFENCE"
    [] OTHER -> "NONE"

-----------------------------------------------------------------------------
(* QR *)

\* Mutant: a replaced token goes on resolving.
LocationsEverWithToken(locations, token) ==
  {t \in Tenant : locations[t] # NoLocation /\ t = token[1]}

\* Which tenants' locations carry this token: at most one.
LocationsWithToken(locations, token) ==
  {t \in Tenant : locations[t] # NoLocation /\ locations[t].qr = token}

\* Mutant: any tenant's token will do.
ResolveAnyQr(locations, tenant, token) ==
  IF LocationsWithToken(locations, token) = {} THEN "QR_NOT_FOUND" ELSE "NONE"

\* The verdict on a scanned token for a caller of this tenant.
ResolveQr(locations, tenant, token) ==
  LET owners == LocationsWithToken(locations, token)
  IN  CASE owners = {} -> "QR_NOT_FOUND"
        [] tenant \in owners -> "NONE"
        [] OTHER -> "QR_TENANT_MISMATCH"

-----------------------------------------------------------------------------
(* The decision *)

\* A missing location is reported ahead of everything, a GPS failure ahead of
\* a QR failure; "NONE" means the presence is verified.
PresenceReason(location, reading, qrReason) ==
  IF location = NoLocation THEN "NO_ACTIVE_ATTENDANCE_LOCATION"
  ELSE LET gpsReason == VerifyGps(reading, location)
       IN  IF gpsReason # "NONE" THEN gpsReason ELSE qrReason

\* What the response may say: the token of another tenant looks unknown.
ToClientReason(reason) ==
  IF reason = "QR_TENANT_MISMATCH" THEN "QR_NOT_FOUND" ELSE reason
=============================================================================
