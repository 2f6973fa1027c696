-------------------------- MODULE MCCourierOrders ---------------------------
EXTENDS CourierOrders, TLC
CONSTANTS o1, o2, c1, c2
=============================================================================
