---------------------------- MODULE MCNotifications ----------------------------
\* Values for TLC's instance of Notifications.
EXTENDS Notifications
=============================================================================
