--------------------------- MODULE MCRenderSlots ----------------------------
(* RenderSlots with a crawl process of two workers and a scrape process of *)
(* one, started with different --render-pages.                             *)
EXTENDS RenderSlots, TLC

CONSTANTS t1, t2, t3, crawl, scrape

MCTask == {t1, t2, t3}
MCProcess == {crawl, scrape}
MCProcessOf == [t \in Task |-> IF t = t3 THEN scrape ELSE crawl]
MCMaxPages == [p \in Process |-> IF p = crawl THEN 2 ELSE 1]
=============================================================================
