\* Two requests on the streaming methods, SearchPermanodesWithAttr included.
\* The server goes on running when requests block (see IndexSearch_stream.cfg).
CONSTANTS
  Callers = {c1, c2}
  Methods = {"GetRecentPermanodes", "SearchPermanodesWithAttr"}
SPECIFICATION Spec
PROPERTY SearchCompletes
CHECK_DEADLOCK FALSE
