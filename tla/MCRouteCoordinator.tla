------------------------- MODULE MCRouteCoordinator -------------------------
EXTENDS RouteCoordinator

MCIds == 1 .. 8
MCRoutes == 1 .. 5
=============================================================================
