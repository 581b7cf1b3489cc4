----------------------- MODULE MCNotificationDelivery -----------------------
(***************************************************************************)
(* An instance of NotificationDelivery: a notification sent by a request,  *)
(* for later or at once, and one sent by the batch.                        *)
(***************************************************************************)
EXTENDS NotificationDelivery, TLC

CONSTANTS single, member

K(c, s) == [channel |-> c, schedule |-> s]
MCKinds ==
  (single :> {K("email", "later"), K("sms", "zoned")}) @@ (member :> {K("push", "none")})
=============================================================================
